------------------------------ MODULE Pipeline ------------------------------
(***************************************************************************)
(* From the experiments to the archive: scripts/run_all.sh and the scripts *)
(* that a user runs by hand, one at a time and in any order.               *)
(***************************************************************************)
EXTENDS Experiments, Package

CONSTANTS
    AsideOrder,     \* the directories of the aside in the order of run_all.sh
    ByHand          \* bound: the options [only, with_extras] that a user gives

ASSUME PipelineAssumption ==
    /\ CELLS = ToSet(RUNS) /\ REFERENCE \subseteq CELLS /\ Compared \subseteq CELLS
    /\ AsideCell \in CELLS
    /\ AsideOrder \in Seq(Asides) /\ Asides = ToSet(AsideOrder)
    /\ Dirs = {ResultsDir} \cup Asides /\ ResultsDir \notin Asides

VARIABLES
    script,         \* whether run_all.sh runs, or how it ended
    stage,          \* its session: 0 for the cells, k for the k-th aside
    cellSession     \* the session in which run_all.sh ran the cells

pipeVars == <<vars, reportVars, archive, script, stage, cellSession>>

Free == pc = "idle" /\ rpc = 0 /\ script # "running"
SessionOver == script = "running" /\ pc = "idle"

PipelineInit ==
    /\ Init /\ ReportInit /\ PackageInit
    /\ script = "none" /\ stage = 0 /\ cellSession = 0

(* make; rm -rf results; the six cells.                                    *)
RunAll ==
    /\ Free
    /\ results' = NoFiles /\ begun' = {}
    /\ BeginSession(ResultsDir, {}, FALSE, FALSE)
    /\ script' = "running" /\ stage' = 0 /\ cellSession' = session + 1
    /\ UNCHANGED <<reportVars, archive>>

(* set -e: a session that failed ends the script.                          *)
NextAside ==
    /\ SessionOver /\ status = "ok"
    /\ stage < Len(AsideOrder)
    /\ BeginSession(AsideOrder[stage + 1], {AsideCell}, FALSE, FALSE)
    /\ stage' = stage + 1
    /\ UNCHANGED <<results, begun, reportVars, archive, script, cellSession>>

Abort ==
    /\ SessionOver /\ status = "failed"
    /\ script' = "aborted"
    /\ UNCHANGED <<vars, reportVars, archive, stage, cellSession>>

Summarize ==
    /\ SessionOver /\ status = "ok"
    /\ stage = Len(AsideOrder)
    /\ \E d \in LoadAll : script' = IF SummarizeFails(d) THEN "raised" ELSE "summarized"
    /\ UNCHANGED <<vars, reportVars, archive, stage, cellSession>>

(* run_experiments.py by hand, without a warm-up, over what is there.      *)
RunByHand ==
    /\ Free
    /\ \E o \in ByHand : BeginSession(ResultsDir, o.only, o.with_extras, TRUE)
    /\ script' = "none"
    /\ UNCHANGED <<results, begun, reportVars, archive, stage, cellSession>>

Report ==
    /\ Free
    /\ MakeReport(session)
    /\ UNCHANGED <<runnerVars, procVars, archive, script, stage, cellSession>>

Pack ==
    /\ Free
    /\ WriteArchive
    /\ UNCHANGED <<runnerVars, procVars, script, stage, cellSession>>

Runner == RunnerStep /\ UNCHANGED <<reportVars, archive, script, stage, cellSession>>
Server(p) == ServerStep(p) /\ UNCHANGED <<reportVars, archive, script, stage, cellSession>>
Reporter == ReportStep /\ UNCHANGED <<runnerVars, procVars, archive, script, stage, cellSession>>

Next ==
    \/ RunAll \/ NextAside \/ Abort \/ Summarize \/ RunByHand \/ Report \/ Pack
    \/ Runner \/ Reporter
    \/ \E p \in Procs : Server(p)

(* run_experiments.py goes on, but for the load of a server that hangs.    *)
(* Nothing is assumed of a server.                                         *)
Fairness == WF_pipeVars(Runner /\ ~Blocked)

Spec == PipelineInit /\ [][Next]_pipeVars /\ Fairness
-----------------------------------------------------------------------------
(* What is reported as success is about this session's results.  A session *)
(* that ends well has started a new metrics file for every cell it was     *)
(* asked for: an answer to HEALTH means that the server of this run has    *)
(* emptied what an earlier session left there.  And when run_all.sh prints *)
(* its summary, every required cell is in it, from the sessions of that    *)
(* run of the script.                                                      *)
ResultsFresh ==
    /\ pc = "idle" /\ status = "ok" =>
        \A c \in selected : results[dir][c] # NoFile /\ results[dir][c].session = session
    /\ script = "summarized" =>
        \A c \in CELLS : results[ResultsDir][c] # NoFile
                         /\ results[ResultsDir][c].session = cellSession
                         /\ results[ResultsDir][c].rows # "header"
=============================================================================
