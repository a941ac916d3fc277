------------------------------ MODULE Package -------------------------------
(***************************************************************************)
(* scripts/package.py: the archive made of what is in the repository.  A   *)
(* path is a record of its directory under results/, the run it belongs to *)
(* and its kind; the sources, which are always there, are left out.        *)
(***************************************************************************)
EXTENDS Report

VARIABLE
    archive     \* the last archive, or NoArchive

NoArchive == [files |-> {}, fig |-> [k \in Figures |-> 0], pdf |-> NoPdf, built |-> FALSE]

PackageInit == archive = NoArchive

(* What os.walk finds under results/.                                      *)
ResultPaths ==
    {[dir |-> b[1], cell |-> b[2], kind |-> kind] : b \in begun, kind \in {"log", "config", "data"}}
    \cup {path \in [dir : DOMAIN results, cell : DOMAIN results[ResultsDir], kind : {"csv"}] :
             results[path.dir][path.cell] # NoFile}

REQUIRED_CSVS == {[dir |-> ResultsDir, cell |-> c, kind |-> "csv"] : c \in CELLS}

Skip(path) == path.kind = "data" \/ path \notin REQUIRED_CSVS

Shipped == {path \in ResultPaths : ~Skip(path)}

(* sys.exit without the report or with a required file missing; else the   *)
(* archive is written.                                                     *)
WriteArchive ==
    /\ rpc = 0
    /\ pdf # NoPdf
    /\ REQUIRED_CSVS \subseteq Shipped
    /\ archive' = [files |-> Shipped, fig |-> fig, pdf |-> pdf, built |-> built]
    /\ UNCHANGED <<results, begun, reportVars>>

(* An archive has the metrics files of the required cells, all of them and *)
(* nothing else of results/; and if make_report.py ended well when it was  *)
(* last run, the figures next to the report are the ones in it, of the     *)
(* same results as its text.                                               *)
ArchiveSound ==
    archive # NoArchive =>
        /\ archive.files = REQUIRED_CSVS
        /\ archive.built => /\ archive.fig = archive.pdf.figs
                            /\ \A k \in Figures : archive.fig[k] = archive.pdf.text
=============================================================================
