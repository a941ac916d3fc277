------------------------------- MODULE Report -------------------------------
(***************************************************************************)
(* The scripts that read the results: load_all of scripts/metrics.py,      *)
(* scripts/summarize.py and scripts/make_report.py, with the figures and   *)
(* the report they leave in the repository's root.  A figure or a report   *)
(* is known by the version of the results that it shows.  What a number in *)
(* the text is, and the layout, are left out; what the code needs of the   *)
(* results, and where it raises an exception without it, is kept.          *)
(***************************************************************************)
EXTENDS ResultFiles, Naturals, FiniteSets

CONSTANTS
    CELLS, REFERENCE,   \* the required cells and the reference ones among them
    Asides,             \* the directories of the --p aside
    ResultsDir,         \* the directory of the cells
    AsideCell,          \* the cell of the aside, fcfs_ref
    Compared            \* the cells of the long-line comparison, rr_ref and drr_ref

VARIABLES
    rpc,        \* the figure make_report.py is at, 5 for the report, 0 if it does not run
    D,          \* what load_all has returned
    version,    \* the version of the results that D is of
    fig,        \* fig[k]: the version that fig<k>*.png shows, 0 if there is none
    pdf,        \* report_A.pdf: the versions of its text and of its figures
    built       \* make_report.py was run, and the last time it ended well

reportVars == <<rpc, D, version, fig, pdf, built>>

Figures == 1..4
NoPdf == [text |-> 0, figs |-> [k \in Figures |-> 0]]
Nothing == [cells |-> [c \in CELLS |-> "absent"], aside |-> [a \in Asides |-> "absent"]]

ReportInit ==
    /\ rpc = 0 /\ D = Nothing /\ version = 0
    /\ fig = [k \in Figures |-> 0]
    /\ pdf = NoPdf /\ built = FALSE
-----------------------------------------------------------------------------
(* What load_rows and run_metrics may make of a metrics file: max() of no  *)
(* rows raises; a row that is cut off raises in int(), or is taken for a   *)
(* row if the cut is within its last number or at its end.  Which class is *)
(* without rows is decided here: large (no_large) or only others (gaps).   *)
Seen(f) ==
    IF f = NoFile THEN {"absent"}
    ELSE CASE f.rows = "header" -> {"raise"}
           [] f.rows = "torn"   -> {"raise", "gaps", "no_large", "full"}
           [] f.rows = "gaps"   -> {"gaps", "no_large"}
           [] OTHER             -> {f.rows}

(* load_all: one of the results it can have for what is in the directory.  *)
(* It also looks for <cell>_rerun.csv, which no script writes.             *)
LoadAll ==
    {d \in [cells : [CELLS -> {"absent", "raise", "gaps", "no_large", "full"}],
            aside : [Asides -> {"absent", "raise", "gaps", "no_large", "full"}]] :
        /\ \A c \in CELLS : d.cells[c] \in Seen(results[ResultsDir][c])
        /\ \A a \in Asides : d.aside[a] \in Seen(results[a][AsideCell])}

Raises(d) == (\E c \in CELLS : d.cells[c] = "raise") \/ (\E a \in Asides : d.aside[a] = "raise")

(* summarize.py skips a cell that is not there; the slowdown of a class    *)
(* without rows is None, which cannot be formatted.                        *)
SummarizeFails(d) == Raises(d) \/ \E c \in REFERENCE : d.cells[c] \in {"gaps", "no_large"}
-----------------------------------------------------------------------------
(* make_report.py: D["cells"][cell] raises for a cell that is not there.   *)
Missing == \E c \in CELLS : D.cells[c] = "absent"
Gaps(cells) == \E c \in cells : D.cells[c] \in {"gaps", "no_large"}
NoLarge(cells) == \E c \in cells : D.cells[c] = "no_large"

(* fig1 needs a waiting time and a throughput of every cell, fig2 a        *)
(* slowdown of every class, fig3 one of large; an average waiting time, as *)
(* in fig4, is there without rows.                                         *)
Fig1Fails == Missing
Fig2Fails == Missing \/ Gaps(CELLS)
Fig3Fails == Missing \/ NoLarge(Compared)
Fig4Fails == Missing

(* What build_pdf needs: numbers of every cell, slowdowns of large in the  *)
(* compared cells, of every class in the reference ones.  A count that is  *)
(* None is written as n/a, and the text on the aside has a second form     *)
(* without it.                                                             *)
NumbersFail == Missing \/ NoLarge(Compared)
TablesFail == Missing \/ Gaps(REFERENCE)
ProseFails == Missing \/ Gaps(REFERENCE)
PdfFails == NumbersFail \/ TablesFail \/ ProseFails

Steps == Figures \cup {5}
Fails(k) ==
    CASE k = 1 -> Fig1Fails [] k = 2 -> Fig2Fails [] k = 3 -> Fig3Fails [] k = 4 -> Fig4Fails
      [] k = 5 -> PdfFails

ScriptEnds == rpc' = 0 /\ D' = Nothing /\ version' = 0

MakeReport(now) ==
    /\ rpc = 0
    /\ \E d \in LoadAll :
        IF Raises(d)
        THEN UNCHANGED <<rpc, D, version>>
        ELSE rpc' = 1 /\ D' = d /\ version' = now
    /\ built' = FALSE
    /\ UNCHANGED <<fig, pdf, results, begun>>

(* A figure is written at once; an exception ends the script and leaves    *)
(* the figures that come later, and the report, as they were.              *)
DrawFigure_Once ==              \* a figure that is there is not drawn again
    /\ rpc \in Figures
    /\ ~Fails(rpc)
    /\ fig' = [fig EXCEPT ![rpc] = IF @ = 0 THEN version ELSE @]
    /\ rpc' = rpc + 1
    /\ UNCHANGED <<D, version, pdf, built, results, begun>>

DrawFigure ==
    /\ rpc \in Figures
    /\ ~Fails(rpc)
    /\ fig' = [fig EXCEPT ![rpc] = version]
    /\ rpc' = rpc + 1
    /\ UNCHANGED <<D, version, pdf, built, results, begun>>

StepRaises ==
    /\ rpc \in Steps
    /\ Fails(rpc)
    /\ ScriptEnds
    /\ UNCHANGED <<fig, pdf, built, results, begun>>

(* build_pdf takes the numbers from D and the figures from their files.    *)
FigImg(k) == fig[k]

BuildPdf ==
    /\ rpc = 5
    /\ ~PdfFails
    /\ pdf' = [text |-> version, figs |-> [k \in Figures |-> FigImg(k)]]
    /\ built' = TRUE
    /\ ScriptEnds
    /\ UNCHANGED <<fig, results, begun>>

ReportStep == DrawFigure \/ StepRaises \/ BuildPdf
=============================================================================
