---------------------------- MODULE Experiments -----------------------------
(***************************************************************************)
(* scripts/run_experiments.py and the server processes it starts: one cell *)
(* after the other, a server is started, asked for its health, put under   *)
(* load and stopped; if it does not stop it is killed.  A server is seen   *)
(* from outside: it opens its metrics file, listens, serves, and may end   *)
(* or hang at any moment.  What a metrics file holds is abstracted to     *)
(* what the analysis can tell apart:                                       *)
(*   header  no row of a counted request                                   *)
(*   torn    cut off somewhere, because the writer did not end by itself   *)
(*   gaps    rows, but none for some size class                            *)
(*   full    rows for every size class                                     *)
(***************************************************************************)
EXTENDS ResultFiles, Naturals, Sequences, SequencesExt, FiniteSets

CONSTANTS
    RUNS, EXTRA_RUNS,   \* the cells, as sequences of names
    WARMUP_RUN,         \* the name of the run that is thrown away
    Procs, NoProc,      \* server processes; one that has ended is used again
    MaxSessions         \* bound: sessions

Cells == ToSet(RUNS) \cup ToSet(EXTRA_RUNS)
Runs == Cells \cup {WARMUP_RUN}
Files == [session : Nat, rows : {"header", "torn", "gaps", "full"}]

ASSUME ExperimentsAssumption ==
    /\ RUNS \in Seq(Cells) /\ EXTRA_RUNS \in Seq(Cells)
    /\ WARMUP_RUN \notin Cells
    /\ NoFile \notin Files
    /\ Procs # {} /\ IsFiniteSet(Procs) /\ NoProc \notin Procs
    /\ MaxSessions \in Nat

VARIABLES
    pc,         \* where the script is; "idle" when it does not run
    dir, todo,  \* the --results-dir and the runs still to do
    selected,   \* the cells of this session
    failures,
    status,     \* the exit status of the last session
    session,    \* the sessions started so far
    server_proc,    \* the process started last
    proc,       \* proc[p]: how far process p is, "none" if it has ended, "hung" if it
                \*   does nothing any more
    term,       \* term[p]: SIGTERM was sent to it
    job,        \* job[p]: the run that p serves
    served      \* served[p]: the rows in the memory of p

runnerVars == <<pc, dir, todo, selected, failures, status, session, server_proc>>
procVars == <<proc, term, job, served>>
fileVars == <<results, begun>>
vars == <<runnerVars, procVars, fileVars>>

NoFiles == [d \in Dirs |-> [c \in Runs |-> NoFile]]
NoJob == [dir |-> "none", cell |-> "none", session |-> 0]

Init ==
    /\ pc = "idle" /\ dir = "none" /\ todo = << >>
    /\ selected = {} /\ failures = {} /\ status = "none"
    /\ session = 0 /\ server_proc = NoProc
    /\ proc = [p \in Procs |-> "none"]
    /\ term = [p \in Procs |-> FALSE]
    /\ job = [p \in Procs |-> NoJob]
    /\ served = [p \in Procs |-> "header"]
    /\ results = NoFiles /\ begun = {}
-----------------------------------------------------------------------------
(* main: the arguments, the warm-up, the cells.  only = {} is no --only.   *)
Wanted(only, with_extras) ==
    IF only = {} THEN ToSet(RUNS) \cup (IF with_extras THEN ToSet(EXTRA_RUNS) ELSE {})
    ELSE Cells \cap only

BeginSession(d, only, with_extras, no_warmup) ==
    /\ pc = "idle"
    /\ session < MaxSessions
    /\ pc' = "run" /\ dir' = d
    /\ todo' = (IF no_warmup THEN << >> ELSE <<WARMUP_RUN>>) \o RUNS \o EXTRA_RUNS
    /\ selected' = Wanted(only, with_extras)
    /\ failures' = {} /\ status' = "none"
    /\ session' = session + 1
    /\ UNCHANGED <<server_proc, procVars>>

SkipRun ==
    /\ pc = "run"
    /\ todo # << >>
    /\ Head(todo) \notin selected \cup {WARMUP_RUN}
    /\ todo' = Tail(todo)
    /\ UNCHANGED <<pc, dir, selected, failures, status, session, server_proc, procVars, fileVars>>

EndSession ==
    /\ pc = "run"
    /\ todo = << >>
    /\ pc' = "idle"
    /\ status' = IF failures = {} THEN "ok" ELSE "failed"
    /\ failures' = {}
    /\ UNCHANGED <<dir, todo, selected, session, server_proc, procVars, fileVars>>
-----------------------------------------------------------------------------
(* run_one                                                                 *)
Alive(p) == proc[p] # "none"

(* make_config, with the directories and the log beside the config.        *)
MakeConfig(run) == begun' = begun \cup {<<dir, run>>}

(* The port is one that no other run of the session uses.                  *)
StartServer ==
    LET p == CHOOSE q \in Procs : ~Alive(q) IN
    /\ pc = "run"
    /\ todo # << >>
    /\ Head(todo) \in selected \cup {WARMUP_RUN}
    /\ server_proc' = p
    /\ proc' = [proc EXCEPT ![p] = "starting"]
    /\ job' = [job EXCEPT ![p] = [dir |-> dir, cell |-> Head(todo), session |-> session]]
    /\ MakeConfig(Head(todo))
    /\ pc' = "health"
    /\ UNCHANGED <<dir, todo, selected, failures, status, session, term, served, results>>

Goto(step) ==
    /\ pc' = step
    /\ UNCHANGED <<dir, todo, selected, failures, status, session, server_proc, fileVars>>

(* wait_for_health: an answer in time, or the deadline.                    *)
Healthy ==
    /\ pc = "health"
    /\ proc[server_proc] = "serving"
    /\ Goto("load")
    /\ UNCHANGED procVars

NeverHealthy ==
    /\ pc = "health"
    /\ Goto("give_up")
    /\ UNCHANGED procVars

(* run_one returns; main drops what the warm-up has left and ignores its   *)
(* result.                                                                 *)
ReturnWith(failed) ==
    /\ pc' = "run"
    /\ todo' = Tail(todo)
    /\ IF Head(todo) = WARMUP_RUN
       THEN /\ results' = [results EXCEPT ![dir][WARMUP_RUN] = NoFile]
            /\ begun' = begun \ {<<dir, WARMUP_RUN>>}
            /\ UNCHANGED failures
       ELSE /\ failures' = failed
            /\ UNCHANGED fileVars
    /\ UNCHANGED <<dir, selected, status, session, server_proc>>

Return_Forgiving(ok) == ReturnWith(failures)    \* a run that failed is not reported

Return(ok) == ReturnWith(IF ok THEN failures ELSE failures \cup {Head(todo)})

(* A process that has ended has no memory left.                            *)
Gone(p) ==
    /\ proc' = [proc EXCEPT ![p] = "none"]
    /\ term' = [term EXCEPT ![p] = FALSE]
    /\ job' = [job EXCEPT ![p] = NoJob]
    /\ served' = [served EXCEPT ![p] = "header"]

(* The server has ended, by itself, after the SIGTERM or by the kill.      *)
Ended ==
    /\ pc \in {"give_up", "giving_up", "stop", "stopping", "reap"}
    /\ ~Alive(server_proc)
    /\ Return(pc \notin {"give_up", "giving_up"})
    /\ UNCHANGED procVars

Terminate ==
    /\ pc \in {"give_up", "stop"}
    /\ Alive(server_proc)
    /\ term' = [term EXCEPT ![server_proc] = TRUE]
    /\ Goto(IF pc = "stop" THEN "stopping" ELSE "giving_up")
    /\ UNCHANGED <<proc, job, served>>

(* 5 seconds after the signal to a server that never answered: a SIGKILL,  *)
(* after which the process does nothing more, and no wait.                 *)
GiveUp_Leave ==                 \* the time is up and nothing is done about it
    /\ pc = "giving_up"
    /\ Alive(server_proc)
    /\ Return(FALSE)
    /\ UNCHANGED procVars

GiveUp ==
    /\ pc = "giving_up"
    /\ Alive(server_proc)
    /\ Gone(server_proc)
    /\ Return(FALSE)

(* 10 seconds after the signal to a server that has been measured.         *)
Kill_WaitOn ==                  \* wait() without a timeout
    /\ pc = "stopping"
    /\ Alive(server_proc)
    /\ Goto("reap")
    /\ UNCHANGED procVars

Kill ==
    /\ pc = "stopping"
    /\ Alive(server_proc)
    /\ Gone(server_proc)
    /\ Goto("reap")

(* The load client ends, after what it could do; its exit status is not    *)
(* looked at.  A server that has gone keeps nothing.  If the server hangs  *)
(* the load may end, by the deadlines of its reads, or not (Blocked).      *)
LoadEnds ==
    /\ pc = "load"
    /\ \E rows \in {"header", "gaps", "full"} :
        served' = [served EXCEPT ![server_proc] = IF proc[server_proc] = "serving" THEN rows ELSE @]
    /\ Goto("stop")
    /\ UNCHANGED <<proc, term, job>>

RunnerStep ==
    \/ SkipRun \/ StartServer \/ Healthy \/ NeverHealthy \/ Ended \/ Terminate \/ GiveUp \/ Kill
    \/ LoadEnds \/ EndSession
-----------------------------------------------------------------------------
(* A server process.                                                       *)
Become(p, state) ==
    /\ proc' = [proc EXCEPT ![p] = state]
    /\ UNCHANGED <<runnerVars, term, job, served, begun>>

WriteCsv(p, rows) ==
    results' = [results EXCEPT ![job[p].dir][job[p].cell] = [session |-> job[p].session, rows |-> rows]]

(* The metrics file is opened, and emptied, before the server listens.     *)
OpenCsv(p) ==
    /\ proc[p] = "starting"
    /\ WriteCsv(p, "header")
    /\ Become(p, "opened")

Listen(p) ==
    /\ proc[p] = "opened"
    /\ Become(p, "serving")
    /\ UNCHANGED results

(* Rows of the load pile up in the stream's buffer; a full buffer is       *)
(* written out wherever its end falls.                                     *)
Flush(p) ==
    /\ proc[p] = "serving"
    /\ p = server_proc /\ pc = "load"
    /\ WriteCsv(p, "torn")
    /\ UNCHANGED <<runnerVars, procVars, begun>>

(* The shutdown sequence, to its end.                                      *)
ShutDown(p) ==
    /\ proc[p] = "serving" /\ term[p]
    /\ WriteCsv(p, served[p])
    /\ Gone(p)
    /\ UNCHANGED <<runnerVars, begun>>

(* A bad argument, a port in use, a signal before its handler is there, a  *)
(* crash: what is in the buffer is lost.                                   *)
Exit(p) ==
    /\ Alive(p)
    /\ Gone(p)
    /\ UNCHANGED <<runnerVars, fileVars>>

(* From here on it neither reads nor writes nor ends by itself: it is      *)
(* stopped, or its threads wait for ever.                                  *)
Hang(p) ==
    /\ proc[p] \in {"starting", "opened", "serving"}
    /\ Become(p, "hung")
    /\ UNCHANGED results

ServerStep(p) == OpenCsv(p) \/ Listen(p) \/ Flush(p) \/ ShutDown(p) \/ Exit(p) \/ Hang(p)

-----------------------------------------------------------------------------
(* No two servers run at the same time: whoever is measured has the        *)
(* machine alone, whatever the earlier servers did when they were asked to *)
(* stop.                                                                   *)
OneServer == Cardinality({p \in Procs : Alive(p)}) <= 1

(* `client load` runs without a time limit, and send_all of a PUT body     *)
(* without a deadline: once a server has said OK and reads no more, a body *)
(* that does not fit the socket buffers holds the client, and the script.  *)
Blocked == pc = "load" /\ proc[server_proc] = "hung"

(* Every session ends, even if servers never start, hang, ignore SIGTERM   *)
(* or crash, wherever the script is, with one exception: it may stay for   *)
(* ever in the load of a server that hangs (run_experiments.py:85-105).    *)
SessionEnds == pc # "idle" ~> (pc = "idle" \/ []Blocked)
=============================================================================
