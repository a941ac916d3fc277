--------------------------- MODULE PipelineProofs ---------------------------
(***************************************************************************)
(* No two servers run at once, and what the scripts report as success is   *)
(* about results of that session, for every set of cells, directories and  *)
(* options and any number of sessions.                                     *)
(***************************************************************************)
EXTENDS Pipeline, FiniteSetTheorems, TLAPS

(* How far the current run is: its server has not answered, or it has.     *)
Unanswered == {"health", "give_up", "giving_up"}
Measured == {"load", "stop", "stopping", "reap"}

SessionType ==
    /\ pc \in {"idle", "run"} \cup Unanswered \cup Measured
    /\ todo \in Seq(Runs)
    /\ selected \subseteq Cells
    /\ session \in Nat
    /\ proc \in [Procs -> {"none", "starting", "opened", "serving", "hung"}]
    /\ served \in [Procs -> {"header", "gaps", "full"}]
    /\ job \in [Procs -> [dir : Dirs \cup {"none"}, cell : Runs \cup {"none"}, session : Nat]]
    /\ results \in [Dirs -> [Runs -> Files \cup {NoFile}]]
    /\ pc # "idle" => dir \in Dirs
    /\ pc \in Unanswered \cup Measured => todo # << >> /\ server_proc \in Procs

(* A server that runs is the one of the current run and knows it.          *)
OnlyCurrent ==
    \A p \in Procs : Alive(p) =>
        /\ pc \in Unanswered \cup Measured
        /\ p = server_proc
        /\ job[p] = [dir |-> dir, cell |-> Head(todo), session |-> session]

IsFresh(d, c, s) == results[d][c] # NoFile /\ results[d][c].session = s

(* A server that has opened its file has emptied it, and one that has      *)
(* answered had opened it.                                                 *)
OpenedIsFresh ==
    /\ \A p \in Procs : proc[p] \in {"opened", "serving"} => IsFresh(dir, Head(todo), session)
    /\ pc \in Measured => IsFresh(dir, Head(todo), session)

(* What is over and has not failed is fresh.                               *)
OverIsFresh ==
    IF pc = "idle"
    THEN status = "ok" => \A c \in selected : IsFresh(dir, c, session)
    ELSE \A c \in selected : c \in ToSet(todo) \/ c \in failures \/ IsFresh(dir, c, session)

(* run_all.sh: the cells first, in ResultsDir, then the asides elsewhere.  *)
ScriptInv ==
    /\ script = "summarized" => pc = "idle"
    /\ script = "running" =>
        /\ stage \in 0 .. Len(AsideOrder)
        /\ stage = 0 => dir = ResultsDir /\ selected = CELLS /\ session = cellSession
        /\ stage # 0 => dir \in Asides /\ \A c \in CELLS : IsFresh(ResultsDir, c, cellSession)

SummaryIsFresh ==
    script = "summarized" =>
        \A c \in CELLS : /\ IsFresh(ResultsDir, c, cellSession)
                         /\ results[ResultsDir][c].rows # "header"

IInv ==
    /\ SessionType /\ OnlyCurrent /\ OpenedIsFresh /\ OverIsFresh
    /\ ScriptInv /\ SummaryIsFresh

USE DEF Unanswered, Measured
-----------------------------------------------------------------------------
LEMMA HeadAndTail ==
    ASSUME NEW S, NEW s \in Seq(S), s # << >>
    PROVE  /\ Head(s) \in S
           /\ Tail(s) \in Seq(S)
           /\ \A x \in ToSet(s) : x = Head(s) \/ x \in ToSet(Tail(s))
<1>1. Head(s) \in S /\ Tail(s) \in Seq(S)
  OBVIOUS
<1>2. ASSUME NEW x \in ToSet(s), x # Head(s)
      PROVE  x \in ToSet(Tail(s))
  <2>1. PICK i \in 1 .. Len(s) : x = s[i]
    BY <1>2 DEF ToSet
  <2>2. i # 1
    BY <1>2, <2>1
  <2>3. i - 1 \in 1 .. Len(Tail(s)) /\ Tail(s)[i - 1] = x
    BY <2>1, <2>2
  <2>4. DOMAIN Tail(s) = 1 .. Len(Tail(s))
    BY <1>1
  <2> QED BY <2>3, <2>4, Zenon DEF ToSet
<1> QED BY <1>1, <1>2

(* A step of the runner or of a server leaves the other directories alone, *)
(* and with them what run_all.sh relies on.                                *)
LEMMA ScriptKept ==
    ASSUME IInv, pc # "idle",
           UNCHANGED <<script, stage, cellSession, dir, selected, session>>,
           \A d \in Dirs : d # dir => results'[d] = results[d]
    PROVE  ScriptInv' /\ SummaryIsFresh'
<1>1. script # "summarized"
  BY DEF IInv, ScriptInv
<1>2. ASSUME script = "running", stage # 0
      PROVE  results'[ResultsDir] = results[ResultsDir]
  BY <1>2, PipelineAssumption DEF IInv, ScriptInv
<1> QED BY <1>1, <1>2 DEF IInv, ScriptInv, SummaryIsFresh, IsFresh

(* A metrics file that is written is that of the current run.              *)
LEMMA WritesFresh ==
    ASSUME IInv, NEW p \in Procs, Alive(p), NEW rows \in {"header", "torn", "gaps", "full"},
           WriteCsv(p, rows), UNCHANGED <<dir, session, todo>>
    PROVE  /\ dir \in Dirs /\ Head(todo) \in Runs
           /\ results' \in [Dirs -> [Runs -> Files \cup {NoFile}]]
           /\ IsFresh(dir, Head(todo), session)'
           /\ \A c \in Runs : IsFresh(dir, c, session) => IsFresh(dir, c, session)'
           /\ \A d \in Dirs : d # dir => results'[d] = results[d]
<1>1. /\ pc \in Unanswered \cup Measured
      /\ job[p] = [dir |-> dir, cell |-> Head(todo), session |-> session]
  BY DEF IInv, OnlyCurrent
<1>2. dir \in Dirs /\ Head(todo) \in Runs /\ session \in Nat
  BY <1>1, HeadAndTail DEF IInv, SessionType
<1> DEFINE f == [session |-> session, rows |-> rows]
<1>3. results' = [results EXCEPT ![dir][Head(todo)] = f]
  BY <1>1 DEF WriteCsv
<1>4. f \in Files /\ f.session = session /\ f # NoFile
  BY <1>2, ExperimentsAssumption DEF Files
<1> HIDE DEF f
<1>5. results \in [Dirs -> [Runs -> Files \cup {NoFile}]]
  BY DEF IInv, SessionType
<1>6. results' \in [Dirs -> [Runs -> Files \cup {NoFile}]]
  BY <1>2, <1>3, <1>4, <1>5
<1>7. results'[dir][Head(todo)] = f
  BY <1>2, <1>3, <1>5
<1>8. \A c \in Runs : c # Head(todo) => results'[dir][c] = results[dir][c]
  BY <1>2, <1>3, <1>5
<1>9. \A d \in Dirs : d # dir => results'[d] = results[d]
  BY <1>2, <1>3, <1>5
<1>10. IsFresh(dir, Head(todo), session)'
  BY <1>4, <1>7 DEF IsFresh
<1>11. \A c \in Runs : IsFresh(dir, c, session) => IsFresh(dir, c, session)'
  BY <1>8, <1>10 DEF IsFresh
<1> QED BY <1>2, <1>6, <1>9, <1>10, <1>11
-----------------------------------------------------------------------------
(* The servers.                                                            *)

(* The end of a process.                                                   *)
LEMMA GoneFacts ==
    ASSUME SessionType, NEW p \in Procs, Gone(p)
    PROVE  /\ proc' \in [Procs -> {"none", "starting", "opened", "serving", "hung"}]
           /\ served' \in [Procs -> {"header", "gaps", "full"}]
           /\ job' \in [Procs -> [dir : Dirs \cup {"none"}, cell : Runs \cup {"none"}, session : Nat]]
           /\ proc'[p] = "none"
           /\ \A q \in Procs : Alive(q)' => Alive(q) /\ job'[q] = job[q] /\ q # p
           /\ \A q \in Procs : proc'[q] \in {"opened", "serving"} => proc[q] \in {"opened", "serving"}
<1>1. NoJob \in [dir : Dirs \cup {"none"}, cell : Runs \cup {"none"}, session : Nat]
  BY DEF NoJob
<1> QED BY <1>1 DEF SessionType, Gone, Alive

(* A step of a server in which no process comes to life, as far as the     *)
(* runner is concerned.                                                    *)
LEMMA ServerStepKeeps ==
    ASSUME IInv, NEW p \in Procs, Alive(p),
           UNCHANGED <<runnerVars, script, stage, cellSession>>,
           proc' \in [Procs -> {"none", "starting", "opened", "serving", "hung"}],
           served' \in [Procs -> {"header", "gaps", "full"}],
           job' \in [Procs -> [dir : Dirs \cup {"none"}, cell : Runs \cup {"none"}, session : Nat]],
           results' \in [Dirs -> [Runs -> Files \cup {NoFile}]],
           \A q \in Procs : Alive(q)' => Alive(q) /\ job'[q] = job[q],
           \A q \in Procs : proc'[q] \in {"opened", "serving"} => IsFresh(dir, Head(todo), session)',
           \A c \in Runs : IsFresh(dir, c, session) => IsFresh(dir, c, session)',
           \A d \in Dirs : d # dir => results'[d] = results[d]
    PROVE  IInv'
<1>1. pc \in Unanswered \cup Measured
  BY DEF IInv, OnlyCurrent
<1>2. Head(todo) \in Runs
  BY <1>1, HeadAndTail DEF IInv, SessionType
<1>3. SessionType'
  BY DEF IInv, SessionType, runnerVars
<1>4. OnlyCurrent'
  BY DEF IInv, OnlyCurrent, runnerVars
<1>5. OpenedIsFresh'
  BY <1>2 DEF IInv, OpenedIsFresh, runnerVars
<1>6. OverIsFresh'
  <2>1. selected \subseteq Runs
    BY DEF IInv, SessionType, Runs
  <2> QED BY <1>1, <2>1 DEF IInv, OverIsFresh, runnerVars
<1>7. ScriptInv' /\ SummaryIsFresh'
  BY <1>1, ScriptKept DEF runnerVars
<1> QED BY <1>3, <1>4, <1>5, <1>6, <1>7 DEF IInv

LEMMA ServerKeeps ==
    ASSUME IInv, NEW p \in Procs, ServerStep(p), UNCHANGED <<script, stage, cellSession>>
    PROVE  IInv'
<1> USE DEF Alive
<1>0. /\ proc \in [Procs -> {"none", "starting", "opened", "serving", "hung"}]
      /\ served \in [Procs -> {"header", "gaps", "full"}]
      /\ job \in [Procs -> [dir : Dirs \cup {"none"}, cell : Runs \cup {"none"}, session : Nat]]
      /\ results \in [Dirs -> [Runs -> Files \cup {NoFile}]]
  BY DEF IInv, SessionType
<1>1. CASE OpenCsv(p)
  <2>1. /\ Alive(p) /\ WriteCsv(p, "header") /\ proc' = [proc EXCEPT ![p] = "opened"]
        /\ UNCHANGED <<runnerVars, job, served>>
    BY <1>1 DEF OpenCsv, Become
  <2>2. UNCHANGED <<dir, session, todo>>
    BY <2>1 DEF runnerVars
  <2>3. /\ results' \in [Dirs -> [Runs -> Files \cup {NoFile}]]
        /\ IsFresh(dir, Head(todo), session)'
        /\ \A c \in Runs : IsFresh(dir, c, session) => IsFresh(dir, c, session)'
        /\ \A d \in Dirs : d # dir => results'[d] = results[d]
    BY <2>1, <2>2, WritesFresh
  <2>4. \A q \in Procs : Alive(q)' => Alive(q) /\ job'[q] = job[q]
    BY <1>0, <2>1
  <2>5. proc' \in [Procs -> {"none", "starting", "opened", "serving", "hung"}]
    BY <1>0, <2>1
  <2> QED BY <1>0, <2>1, <2>3, <2>4, <2>5, ServerStepKeeps
<1>2. CASE Listen(p)
  <2>1. /\ Alive(p) /\ proc[p] = "opened" /\ proc' = [proc EXCEPT ![p] = "serving"]
        /\ UNCHANGED <<runnerVars, job, served, results>>
    BY <1>2 DEF Listen, Become
  <2>2. IsFresh(dir, Head(todo), session)
    BY <2>1 DEF IInv, OpenedIsFresh
  <2>3. \A c : IsFresh(dir, c, session) => IsFresh(dir, c, session)'
    BY <2>1 DEF IsFresh, runnerVars
  <2>4. \A q \in Procs : Alive(q)' => Alive(q) /\ job'[q] = job[q]
    BY <1>0, <2>1
  <2>5. proc' \in [Procs -> {"none", "starting", "opened", "serving", "hung"}]
    BY <1>0, <2>1
  <2>6. IsFresh(dir, Head(todo), session)'
    BY <2>1, <2>2 DEF IsFresh, runnerVars
  <2> QED BY <1>0, <2>1, <2>3, <2>4, <2>5, <2>6, ServerStepKeeps
<1>3. CASE Flush(p)
  <2>1. /\ Alive(p) /\ WriteCsv(p, "torn") /\ UNCHANGED <<runnerVars, procVars>>
    BY <1>3 DEF Flush
  <2>2. UNCHANGED <<dir, session, todo, proc, job, served>>
    BY <2>1 DEF runnerVars, procVars
  <2>3. /\ results' \in [Dirs -> [Runs -> Files \cup {NoFile}]]
        /\ IsFresh(dir, Head(todo), session)'
        /\ \A c \in Runs : IsFresh(dir, c, session) => IsFresh(dir, c, session)'
        /\ \A d \in Dirs : d # dir => results'[d] = results[d]
    BY <2>1, <2>2, WritesFresh
  <2> QED BY <1>0, <2>1, <2>2, <2>3, ServerStepKeeps
<1>4. CASE ShutDown(p)
  <2>1. /\ Alive(p) /\ WriteCsv(p, served[p]) /\ Gone(p) /\ UNCHANGED runnerVars
    BY <1>4 DEF ShutDown
  <2>2. UNCHANGED <<dir, session, todo>>
    BY <2>1 DEF runnerVars
  <2>3. served[p] \in {"header", "torn", "gaps", "full"}
    BY <1>0
  <2>4. /\ results' \in [Dirs -> [Runs -> Files \cup {NoFile}]]
        /\ IsFresh(dir, Head(todo), session)'
        /\ \A c \in Runs : IsFresh(dir, c, session) => IsFresh(dir, c, session)'
        /\ \A d \in Dirs : d # dir => results'[d] = results[d]
    BY <2>1, <2>2, <2>3, WritesFresh
  <2>5. /\ proc' \in [Procs -> {"none", "starting", "opened", "serving", "hung"}]
        /\ served' \in [Procs -> {"header", "gaps", "full"}]
        /\ job' \in [Procs -> [dir : Dirs \cup {"none"}, cell : Runs \cup {"none"}, session : Nat]]
        /\ \A q \in Procs : Alive(q)' => Alive(q) /\ job'[q] = job[q]
    BY <2>1, GoneFacts DEF IInv
  <2> QED BY <1>0, <2>1, <2>4, <2>5, ServerStepKeeps
<1>5. CASE Exit(p)
  <2>1. /\ Alive(p) /\ Gone(p) /\ UNCHANGED <<runnerVars, results>>
    BY <1>5 DEF Exit, fileVars
  <2>2. /\ proc' \in [Procs -> {"none", "starting", "opened", "serving", "hung"}]
        /\ served' \in [Procs -> {"header", "gaps", "full"}]
        /\ job' \in [Procs -> [dir : Dirs \cup {"none"}, cell : Runs \cup {"none"}, session : Nat]]
        /\ \A q \in Procs : Alive(q)' => Alive(q) /\ job'[q] = job[q]
        /\ \A q \in Procs : proc'[q] \in {"opened", "serving"} => proc[q] \in {"opened", "serving"}
    BY <2>1, GoneFacts DEF IInv
  <2>3. \A c : IsFresh(dir, c, session) => IsFresh(dir, c, session)'
    BY <2>1 DEF IsFresh, runnerVars
  <2>4. \A q \in Procs : proc'[q] \in {"opened", "serving"} => IsFresh(dir, Head(todo), session)'
    BY <2>1, <2>2 DEF IInv, OpenedIsFresh, IsFresh, runnerVars
  <2> QED BY <1>0, <2>1, <2>2, <2>3, <2>4, ServerStepKeeps
<1>6. CASE Hang(p)
  <2>1. /\ Alive(p) /\ proc' = [proc EXCEPT ![p] = "hung"]
        /\ UNCHANGED <<runnerVars, job, served, results>>
    BY <1>6 DEF Hang, Become
  <2>2. \A q \in Procs : /\ Alive(q)' => Alive(q) /\ job'[q] = job[q]
                        /\ proc'[q] \in {"opened", "serving"} => proc[q] \in {"opened", "serving"}
    BY <1>0, <2>1
  <2>3. \A c : IsFresh(dir, c, session) => IsFresh(dir, c, session)'
    BY <2>1 DEF IsFresh, runnerVars
  <2>4. \A q \in Procs : proc'[q] \in {"opened", "serving"} => IsFresh(dir, Head(todo), session)'
    BY <2>1, <2>2 DEF IInv, OpenedIsFresh, IsFresh, runnerVars
  <2>5. proc' \in [Procs -> {"none", "starting", "opened", "serving", "hung"}]
    BY <1>0, <2>1
  <2> QED BY <1>0, <2>1, <2>2, <2>3, <2>4, <2>5, ServerStepKeeps
<1> QED BY <1>1, <1>2, <1>3, <1>4, <1>5, <1>6 DEF ServerStep
-----------------------------------------------------------------------------
(* run_experiments.py.                                                     *)

(* The memory of the processes has its type.                               *)
ProcTypes ==
    /\ proc \in [Procs -> {"none", "starting", "opened", "serving", "hung"}]
    /\ served \in [Procs -> {"header", "gaps", "full"}]
    /\ job \in [Procs -> [dir : Dirs \cup {"none"}, cell : Runs \cup {"none"}, session : Nat]]

(* Within a run: nothing is counted as measured that has not answered.     *)
LEMMA GotoKeeps ==
    ASSUME IInv, pc \in Unanswered \cup Measured,
           NEW step \in Unanswered \cup Measured, Goto(step),
           step \in Measured => pc \in Measured \/ IsFresh(dir, Head(todo), session),
           ProcTypes',
           \A q \in Procs : Alive(q)' => Alive(q) /\ job'[q] = job[q],
           \A q \in Procs : proc'[q] \in {"opened", "serving"} => proc[q] \in {"opened", "serving"},
           UNCHANGED <<script, stage, cellSession>>
    PROVE  IInv'
<1>1. /\ pc' = step
      /\ UNCHANGED <<dir, todo, selected, failures, status, session, server_proc, results>>
  BY DEF Goto, fileVars
<1>2. SessionType'
  BY <1>1 DEF IInv, SessionType, ProcTypes
<1>3. OnlyCurrent'
  BY <1>1 DEF IInv, OnlyCurrent
<1>4. OpenedIsFresh'
  BY <1>1 DEF IInv, OpenedIsFresh, IsFresh
<1>5. OverIsFresh'
  BY <1>1 DEF IInv, OverIsFresh, IsFresh
<1>6. ScriptInv' /\ SummaryIsFresh'
  BY <1>1, ScriptKept
<1> QED BY <1>2, <1>3, <1>4, <1>5, <1>6 DEF IInv

(* After a run: it is reported as done only if it was measured, and then   *)
(* its file is fresh; what the warm-up has left goes.                      *)
LEMMA ReturnKeeps ==
    ASSUME IInv, pc \in Unanswered \cup Measured,
           NEW ok \in BOOLEAN, ok => pc \in Measured, Return(ok),
           ProcTypes',
           \A q \in Procs : ~Alive(q)',
           UNCHANGED <<script, stage, cellSession>>
    PROVE  IInv'
<1>1. /\ pc' = "run" /\ todo' = Tail(todo)
      /\ UNCHANGED <<dir, selected, status, session, server_proc>>
      /\ Head(todo) # WARMUP_RUN =>
             /\ failures' = (IF ok THEN failures ELSE failures \cup {Head(todo)})
             /\ results' = results
      /\ Head(todo) = WARMUP_RUN =>
             /\ results' = [results EXCEPT ![dir][WARMUP_RUN] = NoFile]
             /\ failures' = failures
  BY DEF Return, ReturnWith, fileVars
<1>2. /\ todo \in Seq(Runs) /\ todo # << >> /\ dir \in Dirs
      /\ results \in [Dirs -> [Runs -> Files \cup {NoFile}]]
      /\ WARMUP_RUN \in Runs /\ WARMUP_RUN \notin Cells /\ selected \subseteq Cells
      /\ Cells \subseteq Runs
  BY ExperimentsAssumption DEF IInv, SessionType, Runs
<1>3. /\ Tail(todo) \in Seq(Runs)
      /\ \A c \in ToSet(todo) : c = Head(todo) \/ c \in ToSet(Tail(todo))
  BY <1>2, HeadAndTail
<1>4. results' \in [Dirs -> [Runs -> Files \cup {NoFile}]]
  <2> DEFINE F == Files \cup {NoFile}
  <2>1. NoFile \in F /\ results \in [Dirs -> [Runs -> F]]
    BY <1>2
  <2> HIDE DEF F
  <2>2. CASE Head(todo) = WARMUP_RUN
    <3>1. results' = [results EXCEPT ![dir] = [results[dir] EXCEPT ![WARMUP_RUN] = NoFile]]
      BY <1>1, <2>2
    <3>2. [results[dir] EXCEPT ![WARMUP_RUN] = NoFile] \in [Runs -> F]
      BY <1>2, <2>1
    <3>3. results' \in [Dirs -> [Runs -> F]]
      BY <2>1, <3>1, <3>2
    <3> QED BY <3>3 DEF F
  <2>3. CASE Head(todo) # WARMUP_RUN
    BY <1>1, <1>2, <2>3
  <2> QED BY <2>2, <2>3
<1>5. \A c \in Cells : results'[dir][c] = results[dir][c]
  BY <1>1, <1>2
<1>6. \A d \in Dirs : d # dir => results'[d] = results[d]
  BY <1>1, <1>2
<1>7. SessionType'
  BY <1>1, <1>3, <1>4 DEF IInv, SessionType, ProcTypes
<1>8. OnlyCurrent'
  BY DEF OnlyCurrent
<1>9. OpenedIsFresh'
  BY <1>1 DEF OpenedIsFresh, Alive
<1>10. OverIsFresh'
  <2>0. SUFFICES \A c \in selected : c \in ToSet(todo)' \/ c \in failures' \/ IsFresh(dir, c, session)'
    BY <1>1 DEF OverIsFresh
  <2> SUFFICES ASSUME NEW c \in selected, ~(c \in ToSet(todo)'), ~(c \in failures')
               PROVE  IsFresh(dir, c, session)'
    OBVIOUS
  <2>1. c \in Cells /\ results'[dir][c] = results[dir][c]
    BY <1>2, <1>5
  <2>2. CASE c = Head(todo)
    <3>1. ok
      BY <1>1, <1>2, <2>1, <2>2
    <3>2. IsFresh(dir, c, session)
      BY <2>2, <3>1 DEF IInv, OpenedIsFresh
    <3> QED BY <1>1, <2>1, <3>2 DEF IsFresh
  <2>3. CASE c # Head(todo)
    <3>1. c \notin ToSet(todo)
      BY <1>1, <1>3, <2>3
    <3>2. c \notin failures
      BY <1>1
    <3>3. IsFresh(dir, c, session)
      BY <3>1, <3>2 DEF IInv, OverIsFresh
    <3> QED BY <1>1, <2>1, <3>3 DEF IsFresh
  <2> QED BY <2>2, <2>3
<1>11. ScriptInv' /\ SummaryIsFresh'
  BY <1>1, <1>6, ScriptKept
<1> QED BY <1>7, <1>8, <1>9, <1>10, <1>11 DEF IInv

LEMMA RunnerKeeps ==
    ASSUME IInv, RunnerStep, UNCHANGED <<script, stage, cellSession>>
    PROVE  IInv'
<1>0. ProcTypes
  BY DEF IInv, SessionType, ProcTypes
<1>1. CASE SkipRun
  <2>1. /\ pc = "run" /\ todo # << >> /\ Head(todo) \notin selected /\ todo' = Tail(todo)
        /\ UNCHANGED <<pc, dir, selected, failures, status, session, server_proc>>
        /\ UNCHANGED <<proc, job, served, results>>
    BY <1>1 DEF SkipRun, procVars, fileVars
  <2>2. /\ Tail(todo) \in Seq(Runs)
        /\ \A c \in ToSet(todo) : c = Head(todo) \/ c \in ToSet(Tail(todo))
    BY <2>1, HeadAndTail DEF IInv, SessionType
  <2>3. \A q \in Procs : ~Alive(q)
    BY <2>1 DEF IInv, OnlyCurrent
  <2>4. SessionType'
    BY <2>1, <2>2 DEF IInv, SessionType
  <2>5. OnlyCurrent' /\ OpenedIsFresh'
    BY <2>1, <2>3 DEF OnlyCurrent, OpenedIsFresh, Alive
  <2>6. OverIsFresh'
    BY <2>1, <2>2 DEF IInv, OverIsFresh, IsFresh
  <2>7. ScriptInv' /\ SummaryIsFresh'
    BY <2>1, ScriptKept
  <2> QED BY <2>4, <2>5, <2>6, <2>7 DEF IInv
<1>2. CASE StartServer
  <2> DEFINE p == CHOOSE q \in Procs : ~Alive(q)
  <2>1. /\ pc = "run" /\ todo # << >>
        /\ server_proc' = p
        /\ proc' = [proc EXCEPT ![p] = "starting"]
        /\ job' = [job EXCEPT ![p] = [dir |-> dir, cell |-> Head(todo), session |-> session]]
        /\ pc' = "health"
        /\ UNCHANGED <<dir, todo, selected, failures, status, session, served, results>>
    BY <1>2 DEF StartServer
  <2>2. \A q \in Procs : ~Alive(q)
    BY <2>1 DEF IInv, OnlyCurrent
  <2>3. p \in Procs
    BY <2>2, ExperimentsAssumption
  <2> HIDE DEF p
  <2>4. dir \in Dirs /\ Head(todo) \in Runs /\ session \in Nat
    BY <2>1, HeadAndTail DEF IInv, SessionType
  <2>5. SessionType'
    BY <2>1, <2>3, <2>4 DEF IInv, SessionType
  <2>6. \A q \in Procs : Alive(q)' => q = p
    BY <1>0, <2>1, <2>2, <2>3 DEF Alive, ProcTypes
  <2>7. OnlyCurrent'
    BY <1>0, <2>1, <2>3, <2>6 DEF OnlyCurrent, ProcTypes
  <2>8. OpenedIsFresh'
    <3>1. proc'[p] = "starting"
      BY <1>0, <2>1, <2>3 DEF ProcTypes
    <3> QED BY <2>1, <2>6, <3>1 DEF OpenedIsFresh, Alive
  <2>9. OverIsFresh'
    BY <2>1 DEF IInv, OverIsFresh, IsFresh
  <2>10. ScriptInv' /\ SummaryIsFresh'
    BY <2>1, ScriptKept
  <2> QED BY <2>5, <2>7, <2>8, <2>9, <2>10 DEF IInv
<1>3. CASE Healthy
  <2>1. pc = "health" /\ proc[server_proc] = "serving" /\ Goto("load") /\ UNCHANGED <<proc, job, served>>
    BY <1>3 DEF Healthy, procVars
  <2>2. IsFresh(dir, Head(todo), session)
    BY <2>1 DEF IInv, SessionType, OpenedIsFresh
  <2> QED BY <1>0, <2>1, <2>2, GotoKeeps DEF ProcTypes, Alive
<1>4. CASE NeverHealthy
  <2>1. pc = "health" /\ Goto("give_up") /\ UNCHANGED <<proc, job, served>>
    BY <1>4 DEF NeverHealthy, procVars
  <2> QED BY <1>0, <2>1, GotoKeeps DEF ProcTypes, Alive
<1>5. CASE Ended
  <2> DEFINE ok == pc \notin {"give_up", "giving_up"}
  <2>1. /\ pc \in {"give_up", "giving_up", "stop", "stopping", "reap"}
        /\ ~Alive(server_proc) /\ Return(ok) /\ UNCHANGED <<proc, job, served>>
    BY <1>5 DEF Ended, procVars
  <2>2. \A q \in Procs : ~Alive(q)'
    BY <2>1 DEF IInv, OnlyCurrent, Alive
  <2>3. ok \in BOOLEAN /\ (ok => pc \in Measured) /\ pc \in Unanswered \cup Measured
    BY <2>1
  <2> HIDE DEF ok
  <2>4. ProcTypes'
    BY <1>0, <2>1 DEF ProcTypes
  <2> QED BY <2>1, <2>2, <2>3, <2>4, ReturnKeeps
<1>6. CASE Terminate
  <2>1. /\ pc \in {"give_up", "stop"} /\ UNCHANGED <<proc, job, served>>
        /\ Goto(IF pc = "stop" THEN "stopping" ELSE "giving_up")
    BY <1>6 DEF Terminate
  <2>2. CASE pc = "stop"
    BY <1>0, <2>1, <2>2, GotoKeeps DEF ProcTypes, Alive
  <2>3. CASE pc = "give_up"
    BY <1>0, <2>1, <2>3, GotoKeeps DEF ProcTypes, Alive
  <2> QED BY <2>1, <2>2, <2>3
<1>7. CASE GiveUp
  <2>1. pc = "giving_up" /\ Gone(server_proc) /\ Return(FALSE)
    BY <1>7 DEF GiveUp
  <2>2. SessionType /\ server_proc \in Procs
    BY <2>1 DEF IInv, SessionType
  <2>3. ProcTypes' /\ \A q \in Procs : Alive(q)' => Alive(q) /\ q # server_proc
    BY <2>1, <2>2, GoneFacts DEF ProcTypes
  <2>4. \A q \in Procs : ~Alive(q)'
    BY <2>3 DEF IInv, OnlyCurrent
  <2> QED BY <2>1, <2>3, <2>4, ReturnKeeps
<1>8. CASE Kill
  <2>1. pc = "stopping" /\ Gone(server_proc) /\ Goto("reap")
    BY <1>8 DEF Kill
  <2>2. SessionType /\ server_proc \in Procs
    BY <2>1 DEF IInv, SessionType
  <2>3. /\ ProcTypes'
        /\ \A q \in Procs : Alive(q)' => Alive(q) /\ job'[q] = job[q]
        /\ \A q \in Procs : proc'[q] \in {"opened", "serving"} => proc[q] \in {"opened", "serving"}
    BY <2>1, <2>2, GoneFacts DEF ProcTypes
  <2> QED BY <2>1, <2>3, GotoKeeps
<1>9. CASE LoadEnds
  <2>1. PICK rows \in {"header", "gaps", "full"} :
            served' = [served EXCEPT ![server_proc] = IF proc[server_proc] = "serving" THEN rows ELSE @]
    BY <1>9 DEF LoadEnds
  <2>2. pc = "load" /\ Goto("stop") /\ UNCHANGED <<proc, job>>
    BY <1>9 DEF LoadEnds
  <2>3. ProcTypes'
    BY <1>0, <2>1, <2>2 DEF ProcTypes
  <2> QED BY <2>2, <2>3, GotoKeeps DEF Alive
<1>10. CASE EndSession
  <2>1. /\ pc = "run" /\ todo = << >> /\ pc' = "idle"
        /\ status' = IF failures = {} THEN "ok" ELSE "failed"
        /\ UNCHANGED <<dir, todo, selected, session, server_proc, proc, job, served, results>>
    BY <1>10 DEF EndSession, procVars, fileVars
  <2>2. \A q \in Procs : ~Alive(q)
    BY <2>1 DEF IInv, OnlyCurrent
  <2>3. SessionType'
    BY <2>1 DEF IInv, SessionType
  <2>4. OnlyCurrent' /\ OpenedIsFresh'
    BY <2>1, <2>2 DEF OnlyCurrent, OpenedIsFresh, Alive
  <2>5. OverIsFresh'
    <3>1. ToSet(todo) = {}
      BY <2>1 DEF ToSet
    <3> QED BY <2>1, <3>1 DEF IInv, OverIsFresh, IsFresh
  <2>6. ScriptInv' /\ SummaryIsFresh'
    BY <2>1, ScriptKept
  <2> QED BY <2>3, <2>4, <2>5, <2>6 DEF IInv
<1> QED BY <1>1, <1>2, <1>3, <1>4, <1>5, <1>6, <1>7, <1>8, <1>9, <1>10 DEF RunnerStep
-----------------------------------------------------------------------------
(* The scripts that start a session.                                       *)
LEMMA ConcatFacts ==
    ASSUME NEW S, NEW s \in Seq(S), NEW t \in Seq(S)
    PROVE  /\ s \o t \in Seq(S)
           /\ ToSet(s) \cup ToSet(t) \subseteq ToSet(s \o t)
<1>1. s \o t \in Seq(S)
  OBVIOUS
<1>2. DOMAIN s = 1 .. Len(s) /\ DOMAIN t = 1 .. Len(t) /\ DOMAIN (s \o t) = 1 .. Len(s) + Len(t)
  OBVIOUS
<1>3. ASSUME NEW x \in ToSet(s)
      PROVE  x \in ToSet(s \o t)
  <2>1. PICK i \in 1 .. Len(s) : x = s[i]
    BY <1>2 DEF ToSet
  <2>2. i \in 1 .. Len(s) + Len(t) /\ (s \o t)[i] = x
    BY <2>1
  <2> QED BY <1>2, <2>2, Zenon DEF ToSet
<1>4. ASSUME NEW x \in ToSet(t)
      PROVE  x \in ToSet(s \o t)
  <2>1. PICK i \in 1 .. Len(t) : x = t[i]
    BY <1>2 DEF ToSet
  <2>2. Len(s) + i \in 1 .. Len(s) + Len(t) /\ (s \o t)[Len(s) + i] = x
    BY <2>1
  <2> QED BY <1>2, <2>2, Zenon DEF ToSet
<1> QED BY <1>1, <1>3, <1>4

(* Every cell that is asked for is among the runs to do, and at the start  *)
(* of a session no server is left.                                         *)
LEMMA BeginKeeps ==
    ASSUME IInv, NEW d \in Dirs, NEW only, NEW with_extras, NEW no_warmup,
           BeginSession(d, only, with_extras, no_warmup),
           results' \in [Dirs -> [Runs -> Files \cup {NoFile}]]
    PROVE  /\ SessionType' /\ OnlyCurrent' /\ OpenedIsFresh' /\ OverIsFresh'
           /\ pc = "idle" /\ pc' = "run" /\ dir' = d /\ session' = session + 1
           /\ selected' = Wanted(only, with_extras)
<1> DEFINE first == IF no_warmup THEN << >> ELSE <<WARMUP_RUN>>
<1>1. /\ pc = "idle" /\ pc' = "run" /\ dir' = d /\ session' = session + 1
      /\ todo' = first \o RUNS \o EXTRA_RUNS
      /\ selected' = Wanted(only, with_extras)
      /\ UNCHANGED <<server_proc, proc, served, job>>
  BY DEF BeginSession, procVars
<1>2. first \in Seq(Runs)
  <2>1. << >> \in Seq(Runs)
    OBVIOUS
  <2>2. WARMUP_RUN \in Runs
    BY DEF Runs
  <2>3. <<WARMUP_RUN>> \in Seq(Runs)
    BY <2>2
  <2> QED BY <2>1, <2>3
<1> HIDE DEF first
<1>3. RUNS \in Seq(Runs) /\ EXTRA_RUNS \in Seq(Runs)
  <2>1. \A s \in Seq(Cells) : s \in Seq(Runs)
    BY DEF Runs
  <2> QED BY <2>1, ExperimentsAssumption
<1>4. /\ first \o RUNS \in Seq(Runs)
      /\ ToSet(RUNS) \subseteq ToSet(first \o RUNS)
  BY <1>2, <1>3, ConcatFacts
<1>5. todo' \in Seq(Runs) /\ Cells \subseteq ToSet(todo)'
  <2>1. /\ first \o RUNS \o EXTRA_RUNS \in Seq(Runs)
        /\ ToSet(first \o RUNS) \cup ToSet(EXTRA_RUNS) \subseteq ToSet(first \o RUNS \o EXTRA_RUNS)
    BY <1>3, <1>4, ConcatFacts
  <2>2. ToSet(todo)' = ToSet(first \o RUNS \o EXTRA_RUNS)
    BY <1>1 DEF ToSet
  <2> QED BY <1>1, <1>4, <2>1, <2>2 DEF Cells
<1>6. selected' \subseteq Cells
  BY <1>1 DEF Wanted, Cells
<1>7. \A q \in Procs : ~Alive(q)
  BY <1>1 DEF IInv, OnlyCurrent
<1>8. SessionType'
  BY <1>1, <1>5, <1>6 DEF IInv, SessionType
<1>9. OnlyCurrent' /\ OpenedIsFresh'
  BY <1>1, <1>7 DEF OnlyCurrent, OpenedIsFresh, Alive
<1>10. OverIsFresh'
  BY <1>1, <1>5, <1>6 DEF OverIsFresh
<1> QED BY <1>1, <1>8, <1>9, <1>10

LEMMA RunAllKeeps ==
    ASSUME IInv, RunAll
    PROVE  IInv'
<1>1. /\ results' = NoFiles /\ BeginSession(ResultsDir, {}, FALSE, FALSE)
      /\ script' = "running" /\ stage' = 0 /\ cellSession' = session + 1
  BY DEF RunAll
<1>2. ResultsDir \in Dirs /\ CELLS = ToSet(RUNS)
  BY PipelineAssumption
<1>3. results' \in [Dirs -> [Runs -> Files \cup {NoFile}]]
  BY <1>1 DEF NoFiles
<1>4. /\ SessionType' /\ OnlyCurrent' /\ OpenedIsFresh' /\ OverIsFresh'
      /\ pc' = "run" /\ dir' = ResultsDir /\ session' = session + 1
      /\ selected' = Wanted({}, FALSE)
  BY <1>1, <1>2, <1>3, BeginKeeps
<1>5. selected' = CELLS
  BY <1>2, <1>4 DEF Wanted
<1>6. 0 \in 0 .. Len(AsideOrder)
  BY PipelineAssumption
<1>7. ScriptInv' /\ SummaryIsFresh'
  BY <1>1, <1>4, <1>5, <1>6 DEF ScriptInv, SummaryIsFresh
<1> QED BY <1>4, <1>7 DEF IInv

LEMMA NextAsideKeeps ==
    ASSUME IInv, NextAside
    PROVE  IInv'
<1>1. /\ script = "running" /\ pc = "idle" /\ status = "ok" /\ stage < Len(AsideOrder)
      /\ BeginSession(AsideOrder[stage + 1], {AsideCell}, FALSE, FALSE)
      /\ stage' = stage + 1 /\ UNCHANGED <<results, script, cellSession>>
  BY DEF NextAside, SessionOver
<1>2. stage \in 0 .. Len(AsideOrder)
  BY <1>1 DEF IInv, ScriptInv
<1>3. stage + 1 \in 1 .. Len(AsideOrder) /\ stage + 1 # 0
  BY <1>1, <1>2, PipelineAssumption
<1>4. AsideOrder[stage + 1] \in Asides /\ Asides \subseteq Dirs
  <2>1. AsideOrder[stage + 1] \in ToSet(AsideOrder)
    <3>1. DOMAIN AsideOrder = 1 .. Len(AsideOrder)
      BY PipelineAssumption
    <3> QED BY <1>3, <3>1, Zenon DEF ToSet
  <2> QED BY <2>1, PipelineAssumption
<1>5. results' \in [Dirs -> [Runs -> Files \cup {NoFile}]]
  BY <1>1 DEF IInv, SessionType
<1>6. /\ SessionType' /\ OnlyCurrent' /\ OpenedIsFresh' /\ OverIsFresh'
      /\ pc' = "run" /\ dir' = AsideOrder[stage + 1]
  BY <1>1, <1>4, <1>5, BeginKeeps
<1>7. \A c \in CELLS : IsFresh(ResultsDir, c, cellSession)
  BY <1>1 DEF IInv, ScriptInv, OverIsFresh
<1>8. ScriptInv' /\ SummaryIsFresh'
  BY <1>1, <1>3, <1>4, <1>6, <1>7 DEF ScriptInv, SummaryIsFresh, IsFresh
<1> QED BY <1>6, <1>8 DEF IInv

LEMMA RunByHandKeeps ==
    ASSUME IInv, RunByHand
    PROVE  IInv'
<1>1. PICK o \in ByHand : BeginSession(ResultsDir, o.only, o.with_extras, TRUE)
  BY DEF RunByHand
<1>2. script' = "none" /\ results' = results
  BY DEF RunByHand
<1>3. results' \in [Dirs -> [Runs -> Files \cup {NoFile}]]
  BY <1>2 DEF IInv, SessionType
<1>4. ResultsDir \in Dirs
  BY PipelineAssumption
<1>5. SessionType' /\ OnlyCurrent' /\ OpenedIsFresh' /\ OverIsFresh'
  BY <1>1, <1>3, <1>4, BeginKeeps
<1>6. ScriptInv' /\ SummaryIsFresh'
  BY <1>2 DEF ScriptInv, SummaryIsFresh
<1> QED BY <1>5, <1>6 DEF IInv
-----------------------------------------------------------------------------
(* The scripts that only read the results, and the end of run_all.sh.      *)
LEMMA NothingChanges ==
    ASSUME IInv, UNCHANGED <<runnerVars, procVars, results>>
    PROVE  SessionType' /\ OnlyCurrent' /\ OpenedIsFresh' /\ OverIsFresh'
<1>1. /\ UNCHANGED <<pc, dir, todo, selected, failures, status, session, server_proc>>
      /\ UNCHANGED <<proc, job, served, results>>
  BY DEF runnerVars, procVars
<1>2. SessionType'
  BY <1>1 DEF IInv, SessionType
<1>3. OnlyCurrent' /\ OpenedIsFresh'
  BY <1>1 DEF IInv, OnlyCurrent, OpenedIsFresh, Alive, IsFresh
<1>4. OverIsFresh'
  BY <1>1 DEF IInv, OverIsFresh, IsFresh
<1> QED BY <1>2, <1>3, <1>4

LEMMA ReadingKeeps ==
    ASSUME IInv, UNCHANGED <<runnerVars, procVars, results, script, stage, cellSession>>
    PROVE  IInv'
<1>1. SessionType' /\ OnlyCurrent' /\ OpenedIsFresh' /\ OverIsFresh'
  BY NothingChanges
<1>2. ScriptInv' /\ SummaryIsFresh'
  BY DEF IInv, ScriptInv, SummaryIsFresh, IsFresh, runnerVars
<1> QED BY <1>1, <1>2 DEF IInv

LEMMA AbortKeeps ==
    ASSUME IInv, Abort
    PROVE  IInv'
<1>1. SessionType' /\ OnlyCurrent' /\ OpenedIsFresh' /\ OverIsFresh'
  BY NothingChanges DEF Abort, vars, fileVars
<1>2. ScriptInv' /\ SummaryIsFresh'
  BY DEF Abort, ScriptInv, SummaryIsFresh
<1> QED BY <1>1, <1>2 DEF IInv

(* A summary is printed only of cells that are there and have rows.        *)
LEMMA SummarizeKeeps ==
    ASSUME IInv, Summarize
    PROVE  IInv'
<1>1. /\ script = "running" /\ pc = "idle" /\ status = "ok"
      /\ UNCHANGED <<runnerVars, procVars, results, stage, cellSession>>
  BY DEF Summarize, SessionOver, vars, fileVars
<1>2. PICK d \in LoadAll : script' = IF SummarizeFails(d) THEN "raised" ELSE "summarized"
  BY DEF Summarize
<1>3. SessionType' /\ OnlyCurrent' /\ OpenedIsFresh' /\ OverIsFresh'
  BY <1>1, NothingChanges
<1>4. \A c \in CELLS : IsFresh(ResultsDir, c, cellSession)
  BY <1>1 DEF IInv, ScriptInv, OverIsFresh
<1>5. CASE SummarizeFails(d)
  <2>1. ScriptInv' /\ SummaryIsFresh'
    BY <1>2, <1>5 DEF ScriptInv, SummaryIsFresh
  <2> QED BY <1>3, <2>1 DEF IInv
<1>6. CASE ~SummarizeFails(d)
  <2>1. ASSUME NEW c \in CELLS
        PROVE  results[ResultsDir][c].rows # "header"
    <3>1. d.cells[c] # "raise"
      BY <1>6 DEF SummarizeFails, Raises
    <3>2. d.cells[c] \in Seen(results[ResultsDir][c])
      BY <1>2 DEF LoadAll
    <3>3. results[ResultsDir][c] # NoFile
      BY <1>4 DEF IsFresh
    <3> QED BY <3>1, <3>2, <3>3 DEF Seen
  <2>2. script' = "summarized" /\ pc' = "idle"
    BY <1>1, <1>2, <1>6 DEF runnerVars
  <2>3. ScriptInv'
    BY <2>2 DEF ScriptInv
  <2>4. SummaryIsFresh'
    BY <1>1, <1>4, <2>1 DEF SummaryIsFresh, IsFresh
  <2> QED BY <1>3, <2>3, <2>4 DEF IInv
<1> QED BY <1>5, <1>6
-----------------------------------------------------------------------------
LEMMA InitIInv == PipelineInit => IInv
<1> SUFFICES ASSUME PipelineInit
             PROVE  IInv
  OBVIOUS
<1>1. /\ pc = "idle" /\ todo = << >> /\ selected = {} /\ session = 0 /\ status = "none"
      /\ proc = [p \in Procs |-> "none"]
      /\ job = [p \in Procs |-> NoJob]
      /\ served = [p \in Procs |-> "header"]
      /\ results = NoFiles /\ script = "none"
  BY DEF PipelineInit, Init
<1>2. NoJob \in [dir : Dirs \cup {"none"}, cell : Runs \cup {"none"}, session : Nat]
  BY DEF NoJob
<1>3. results \in [Dirs -> [Runs -> Files \cup {NoFile}]]
  BY <1>1 DEF NoFiles
<1>4. SessionType
  BY <1>1, <1>2, <1>3 DEF SessionType
<1>5. OnlyCurrent /\ OpenedIsFresh
  BY <1>1 DEF OnlyCurrent, OpenedIsFresh, Alive
<1>6. OverIsFresh /\ ScriptInv /\ SummaryIsFresh
  BY <1>1 DEF OverIsFresh, ScriptInv, SummaryIsFresh
<1> QED BY <1>4, <1>5, <1>6 DEF IInv

LEMMA NextIInv == IInv /\ [Next]_pipeVars => IInv'
<1> SUFFICES ASSUME IInv, [Next]_pipeVars
             PROVE  IInv'
  OBVIOUS
<1>1. CASE RunAll
  BY <1>1, RunAllKeeps
<1>2. CASE NextAside
  BY <1>2, NextAsideKeeps
<1>3. CASE Abort
  BY <1>3, AbortKeeps
<1>4. CASE Summarize
  BY <1>4, SummarizeKeeps
<1>5. CASE RunByHand
  BY <1>5, RunByHandKeeps
<1>6. CASE Report
  <2>1. UNCHANGED <<runnerVars, procVars, results, script, stage, cellSession>>
    BY <1>6 DEF Report, MakeReport
  <2> QED BY <2>1, ReadingKeeps
<1>7. CASE Pack
  <2>1. UNCHANGED <<runnerVars, procVars, results, script, stage, cellSession>>
    BY <1>7 DEF Pack, WriteArchive
  <2> QED BY <2>1, ReadingKeeps
<1>8. CASE Runner
  BY <1>8, RunnerKeeps DEF Runner
<1>9. CASE Reporter
  <2>1. UNCHANGED <<runnerVars, procVars, results, script, stage, cellSession>>
    BY <1>9 DEF Reporter, ReportStep, DrawFigure, StepRaises, BuildPdf
  <2> QED BY <2>1, ReadingKeeps
<1>10. ASSUME NEW p \in Procs, Server(p)
       PROVE  IInv'
  BY <1>10, ServerKeeps DEF Server
<1>11. CASE UNCHANGED pipeVars
  <2>1. UNCHANGED <<runnerVars, procVars, results, script, stage, cellSession>>
    BY <1>11 DEF pipeVars, vars, fileVars
  <2> QED BY <2>1, ReadingKeeps
<1> QED
  BY <1>1, <1>2, <1>3, <1>4, <1>5, <1>6, <1>7, <1>8, <1>9, <1>10, <1>11 DEF Next

LEMMA AlwaysIInv == Spec => []IInv
<1> QED BY InitIInv, NextIInv, PTL DEF Spec

(* run_experiments.py never has two servers running: every way out of a    *)
(* run passes the end of its server, or a SIGKILL to it.                   *)
THEOREM OnlyOneServer == Spec => []OneServer
<1>1. IInv => OneServer
  <2> SUFFICES ASSUME IInv
               PROVE  OneServer
    OBVIOUS
  <2> DEFINE A == {p \in Procs : Alive(p)}
  <2>1. A \subseteq {server_proc}
    BY DEF IInv, OnlyCurrent
  <2> HIDE DEF A
  <2>2. IsFiniteSet({server_proc}) /\ Cardinality({server_proc}) = 1
    BY FS_Singleton
  <2>3. Cardinality(A) <= 1
    BY <2>1, <2>2, FS_Subset
  <2> QED BY <2>3 DEF OneServer, A
<1> QED BY <1>1, AlwaysIInv, PTL

(* A session that run_experiments.py reports as completed, and a summary   *)
(* that run_all.sh ends with, are about metrics files that those sessions  *)
(* have written, never about what an earlier one has left behind.          *)
THEOREM ReportedIsFresh == Spec => []ResultsFresh
<1>1. IInv => ResultsFresh
  BY DEF IInv, OverIsFresh, SummaryIsFresh, IsFresh, ResultsFresh
<1> QED BY <1>1, AlwaysIInv, PTL
-----------------------------------------------------------------------------
(* make_report.py and package.py.  The figures that the report script has  *)
(* passed show the version it has loaded, and while the script is marked   *)
(* as having ended well nothing of what it has left has changed.           *)
FigType == fig = [k \in Figures |-> fig[k]]
DrawnInv == rpc \in 0 .. 5 /\ \A k \in Figures : k < rpc => fig[k] = version
BuiltInv ==
    built => /\ rpc = 0
             /\ fig = pdf.figs
             /\ \A k \in Figures : fig[k] = pdf.text

ReportInv == FigType /\ DrawnInv /\ BuiltInv /\ ArchiveSound

(* What a figure's file shows once it has been written.                    *)
LEMMA DrawFigureKeeps ==
    ASSUME ReportInv, DrawFigure, archive' = archive
    PROVE  ReportInv'
<1>1. /\ rpc \in Figures /\ fig' = [fig EXCEPT ![rpc] = version] /\ rpc' = rpc + 1
      /\ UNCHANGED <<version, pdf, built>>
  BY DEF DrawFigure
<1>2. ~built
  BY <1>1 DEF ReportInv, BuiltInv, Figures
<1>3. DOMAIN fig = Figures
  BY DEF ReportInv, FigType
<1>4. \A k \in Figures : fig'[k] = IF k = rpc THEN version ELSE fig[k]
  BY <1>1, <1>3
<1>5. FigType'
  <2>1. fig' = [k \in Figures |-> IF k = rpc THEN version ELSE fig[k]]
    BY <1>1, <1>3
  <2> QED BY <2>1 DEF FigType
<1>6. DrawnInv'
  BY <1>1, <1>4 DEF ReportInv, DrawnInv, Figures
<1> QED BY <1>1, <1>2, <1>5, <1>6 DEF ReportInv, BuiltInv, ArchiveSound

(* The report is written from the figures' files when all four have been   *)
(* drawn from the version that its text is of.                             *)
LEMMA BuildPdfKeeps ==
    ASSUME ReportInv, BuildPdf, archive' = archive
    PROVE  ReportInv'
<1>1. /\ rpc = 5 /\ rpc' = 0 /\ fig' = fig
      /\ pdf' = [text |-> version, figs |-> [k \in Figures |-> fig[k]]]
  BY DEF BuildPdf, ScriptEnds, FigImg
<1>2. \A k \in Figures : fig[k] = version
  BY <1>1 DEF ReportInv, DrawnInv, Figures
<1>3. pdf'.figs = fig /\ pdf'.text = version
  BY <1>1 DEF ReportInv, FigType
<1>4. FigType' /\ BuiltInv'
  BY <1>1, <1>2, <1>3 DEF ReportInv, FigType, BuiltInv
<1>5. DrawnInv'
  BY <1>1 DEF DrawnInv, Figures
<1> QED BY <1>4, <1>5 DEF ReportInv, ArchiveSound

(* Of what is under results/ only required files are shipped, and without  *)
(* one of them nothing is.                                                 *)
LEMMA PackKeeps ==
    ASSUME ReportInv, WriteArchive
    PROVE  ReportInv'
<1>1. /\ REQUIRED_CSVS \subseteq Shipped
      /\ archive' = [files |-> Shipped, fig |-> fig, pdf |-> pdf, built |-> built]
      /\ UNCHANGED <<rpc, version, fig, pdf, built>>
  BY DEF WriteArchive, reportVars
<1>2. Shipped = REQUIRED_CSVS
  BY <1>1 DEF Shipped, Skip
<1>3. REQUIRED_CSVS' = REQUIRED_CSVS
  BY DEF REQUIRED_CSVS
<1>4. /\ archive'.files = REQUIRED_CSVS /\ archive'.fig = fig /\ archive'.pdf = pdf
      /\ archive'.built = built
  BY <1>1, <1>2
<1>5. ArchiveSound'
  BY <1>3, <1>4 DEF ReportInv, BuiltInv, ArchiveSound
<1> QED BY <1>1, <1>5 DEF ReportInv, FigType, DrawnInv, BuiltInv

(* Every step of the pipeline leaves the figures, the report and the       *)
(* archive consistent.                                                     *)
LEMMA NextReportInv == ReportInv /\ [Next]_pipeVars => ReportInv'
<1> SUFFICES ASSUME ReportInv, [Next]_pipeVars
             PROVE  ReportInv'
  OBVIOUS
<1>1. CASE UNCHANGED <<reportVars, archive>>
  BY <1>1 DEF reportVars, ReportInv, FigType, DrawnInv, BuiltInv, ArchiveSound, REQUIRED_CSVS
<1>2. CASE Report
  <2>1. /\ rpc = 0 /\ built' = FALSE /\ UNCHANGED <<fig, pdf, archive>>
        /\ rpc' = 0 \/ rpc' = 1
    BY <1>2 DEF Report, MakeReport
  <2>2. DrawnInv'
    BY <2>1 DEF DrawnInv, Figures
  <2> QED BY <2>1, <2>2 DEF ReportInv, FigType, BuiltInv, ArchiveSound, REQUIRED_CSVS
<1>3. CASE Pack
  BY <1>3, PackKeeps DEF Pack
<1>4. CASE Reporter
  <2>1. archive' = archive
    BY <1>4 DEF Reporter
  <2>2. CASE StepRaises
    <3>1. rpc \in Steps /\ rpc' = 0 /\ UNCHANGED <<fig, pdf, built>>
      BY <2>2 DEF StepRaises, ScriptEnds
    <3>2. ~built
      BY <3>1 DEF ReportInv, BuiltInv, Steps, Figures
    <3>3. DrawnInv'
      BY <3>1 DEF DrawnInv, Figures
    <3> QED BY <2>1, <3>1, <3>2, <3>3 DEF ReportInv, FigType, BuiltInv, ArchiveSound, REQUIRED_CSVS
  <2> QED BY <1>4, <2>1, <2>2, DrawFigureKeeps, BuildPdfKeeps DEF Reporter, ReportStep
<1>5. CASE RunAll \/ NextAside \/ Abort \/ Summarize \/ RunByHand \/ Runner
  BY <1>1, <1>5 DEF RunAll, NextAside, Abort, Summarize, RunByHand, Runner
<1>6. ASSUME NEW p \in Procs, Server(p)
      PROVE  ReportInv'
  BY <1>1, <1>6 DEF Server
<1>7. CASE UNCHANGED pipeVars
  BY <1>1, <1>7 DEF pipeVars
<1> QED BY <1>2, <1>3, <1>4, <1>5, <1>6, <1>7 DEF Next

(* Whatever the order in which the experiments, the report script and      *)
(* package.py were run and wherever one of them failed, an archive holds   *)
(* exactly the required metrics files, and with a report that was built    *)
(* the figures that are in it (package.py:34-54, make_report.py:415-421).  *)
THEOREM ArchiveIsSound == Spec => []ArchiveSound
<1>1. PipelineInit => ReportInv
  BY DEF PipelineInit, ReportInit, PackageInit, ReportInv, FigType, DrawnInv, BuiltInv,
         ArchiveSound, Figures
<1>2. ReportInv => ArchiveSound
  BY DEF ReportInv
<1> QED BY <1>1, <1>2, NextReportInv, PTL DEF Spec
=============================================================================
