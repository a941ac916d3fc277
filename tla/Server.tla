------------------------------- MODULE Server -------------------------------
(***************************************************************************)
(* The server process (server/main.cpp): the acceptor, one admission       *)
(* thread per connection, the workers and main with its shutdown sequence, *)
(* around the scheduler's queue, which is the atomic one of WorkQueue.     *)
(* Requests are the connections that clients may open: each carries one    *)
(* request and is identified with it.  What happens inside a slice is the  *)
(* subject of GetSlice; here it is one step with any of its results.       *)
(***************************************************************************)
EXTENDS WorkQueue, FiniteSets

CONSTANT NoConn     \* nothing in the acceptor's hands

ASSUME ServerAssumption == IsFiniteSet(Requests) /\ NoConn \notin Requests

VARIABLES
    g_shutdown,     \* set by the signal handler
    main,           \* where main is after starting the threads
    listener,       \* the listening socket: open, shut
    acceptor,       \* where the acceptor is
    current,        \* the connection in the acceptor's hands
    active,         \* g_active_admissions
    conn,           \* conn[c]: where connection c is, up to the end of its admission
    closes,         \* closes[c]: how often its socket was closed
    outcome,        \* outcome[c]: what its client was told in the end
    worker,         \* worker[w]: where worker w is in its loop
    rows,           \* connections with a row in the metrics file
    served          \* g_requests_served

(* The scheduler's variables, vars, are those of WorkQueue.                *)
mainVars == <<g_shutdown, main, listener>>
acceptVars == <<acceptor, current>>
resultVars == <<closes, outcome, rows, served>>
serverVars == <<mainVars, acceptVars, active, conn, worker, resultVars, vars>>

ServerInit ==
    /\ g_shutdown = FALSE /\ main = "polling" /\ listener = "open"
    /\ acceptor = "accept" /\ current = NoConn
    /\ active = 0
    /\ conn = [c \in Requests |-> "none"]
    /\ closes = [c \in Requests |-> 0]
    /\ outcome = [c \in Requests |-> "none"]
    /\ worker = [w \in Workers |-> "next"]
    /\ rows = {} /\ served = 0
    /\ Init
-----------------------------------------------------------------------------
(* A name with a suffix, such as SliceFailed_Closes, is that of a faulty   *)
(* variant, which the properties must tell from the real step.             *)
-----------------------------------------------------------------------------
(* The clients and the operator.                                           *)

Connect(c) ==
    /\ conn[c] = "none"
    /\ listener = "open"
    /\ conn' = [conn EXCEPT ![c] = "backlog"]
    /\ UNCHANGED <<mainVars, acceptVars, active, worker, resultVars, vars>>

Signal ==
    /\ ~g_shutdown
    /\ g_shutdown' = TRUE
    /\ UNCHANGED <<main, listener, acceptVars, active, conn, worker,
                   resultVars, vars>>
-----------------------------------------------------------------------------
(* acceptor_loop.                                                          *)

Accept(c) ==
    /\ acceptor = "accept"
    /\ listener = "open"
    /\ conn[c] = "backlog"
    /\ conn' = [conn EXCEPT ![c] = "accepted"]
    /\ current' = c
    /\ acceptor' = "count"
    /\ UNCHANGED <<mainVars, active, worker, resultVars, vars>>

(* accept() fails: always after main has shut the listener down, and now   *)
(* and then for other reasons.  Without g_shutdown the loop goes round.    *)
AcceptFails ==
    /\ acceptor = "accept"
    /\ g_shutdown
    /\ acceptor' = "exited"
    /\ UNCHANGED <<mainVars, current, active, conn, worker, resultVars, vars>>

CountAdmission ==
    /\ acceptor = "count"
    /\ active' = active + 1
    /\ acceptor' = "spawn"
    /\ UNCHANGED <<mainVars, current, conn, worker, resultVars, vars>>

Spawn ==
    /\ acceptor = "spawn"
    /\ conn' = [conn EXCEPT ![current] = "reading"]
    /\ current' = NoConn
    /\ acceptor' = "accept"
    /\ UNCHANGED <<mainVars, active, worker, resultVars, vars>>

(* The thread cannot be created; the client is told in a second step.      *)
SpawnFails ==
    /\ acceptor = "spawn"
    /\ active' = active - 1
    /\ acceptor' = "busy"
    /\ UNCHANGED <<mainVars, current, conn, worker, resultVars, vars>>

(* send_err_and_close: ends the connection of c with an ERR line.          *)
CloseWith(c, result) ==
    /\ closes' = [closes EXCEPT ![c] = @ + 1]
    /\ outcome' = [outcome EXCEPT ![c] = result]

RefuseBusy ==
    /\ acceptor = "busy"
    /\ CloseWith(current, "refused")
    /\ conn' = [conn EXCEPT ![current] = "left"]
    /\ current' = NoConn
    /\ acceptor' = "accept"
    /\ UNCHANGED <<mainVars, active, worker, rows, served, vars>>
-----------------------------------------------------------------------------
(* admit_connection, one thread per connection.                            *)

(* The header times out or is malformed, the name is unsafe or the size    *)
(* too large.                                                              *)
Refuse(c) ==
    /\ conn[c] = "reading"
    /\ CloseWith(c, "refused")
    /\ conn' = [conn EXCEPT ![c] = "leaving"]
    /\ UNCHANGED <<mainVars, acceptVars, active, worker, rows, served, vars>>

(* HEALTH: the reply carries queue_depth(), read under the queue's mutex.  *)
Health(c) ==
    /\ conn[c] = "reading"
    /\ CloseWith(c, "answered")
    /\ conn' = [conn EXCEPT ![c] = "leaving"]
    /\ UNCHANGED <<mainVars, acceptVars, active, worker, rows, served, vars>>

(* A GET or PUT: the Request is built and arrival_ns taken.                *)
StampArrival(c) ==
    /\ conn[c] = "reading"
    /\ conn' = [conn EXCEPT ![c] = "stamped"]
    /\ UNCHANGED <<mainVars, acceptVars, active, worker, resultVars, vars>>

FileNotFound(c) ==
    /\ conn[c] = "stamped"
    /\ CloseWith(c, "refused")
    /\ conn' = [conn EXCEPT ![c] = "leaving"]
    /\ UNCHANGED <<mainVars, acceptVars, active, worker, rows, served, vars>>

Admit(c) ==
    /\ conn[c] = "stamped"
    /\ Enqueue(c)
    /\ conn' = [conn EXCEPT ![c] = "leaving"]
    /\ UNCHANGED <<mainVars, acceptVars, active, worker, resultVars>>

(* ~AdmissionGuard, the last thing the thread does.                        *)
LeaveAdmission(c) ==
    /\ conn[c] = "leaving"
    /\ active' = active - 1
    /\ conn' = [conn EXCEPT ![c] = "left"]
    /\ UNCHANGED <<mainVars, acceptVars, worker, resultVars, vars>>
-----------------------------------------------------------------------------
(* server_worker_loop.                                                     *)

PickUp(w) ==
    /\ worker[w] = "next"
    /\ TakeNext(w)
    /\ worker' = [worker EXCEPT ![w] = "picked"]
    /\ UNCHANGED <<mainVars, acceptVars, active, conn, resultVars>>

(* The first pick-up sets start_ns, after the queue's mutex was released.  *)
StampStart(w) ==
    /\ worker[w] = "picked"
    /\ worker' = [worker EXCEPT ![w] = "serve"]
    /\ UNCHANGED <<mainVars, acceptVars, active, conn, resultVars, vars>>

(* serve_slice returns PREEMPTED, DONE or FAILED, or throws.               *)
SlicePreempted(w) ==
    /\ worker[w] = "serve"
    /\ Bounded(sched)
    /\ worker' = [worker EXCEPT ![w] = "requeue"]
    /\ UNCHANGED <<mainVars, acceptVars, active, conn, resultVars, vars>>

SliceDone(w) ==
    /\ worker[w] = "serve"
    /\ outcome' = [outcome EXCEPT ![hold[w]] = "done"]
    /\ worker' = [worker EXCEPT ![w] = "record"]
    /\ UNCHANGED <<mainVars, acceptVars, active, conn, closes, rows, served, vars>>

SliceFailed_With(w, closed, next) ==
    /\ worker[w] = "serve"
    /\ outcome' = [outcome EXCEPT ![hold[w]] = "failed"]
    /\ closes' = [closes EXCEPT ![hold[w]] = @ + closed]
    /\ worker' = [worker EXCEPT ![w] = next]
    /\ UNCHANGED <<mainVars, acceptVars, active, conn, rows, served, vars>>
SliceFailed_Closes(w) == SliceFailed_With(w, 1, "release")  \* serve_slice closes too
SliceFailed_Records(w) == SliceFailed_With(w, 0, "record")  \* a row for a failed one

SliceFailed(w) ==
    /\ worker[w] = "serve"
    /\ outcome' = [outcome EXCEPT ![hold[w]] = "failed"]
    /\ worker' = [worker EXCEPT ![w] = "release"]
    /\ UNCHANGED <<mainVars, acceptVars, active, conn, closes, rows, served, vars>>

PutBack(w) ==
    /\ worker[w] = "requeue"
    /\ Requeue(w)
    /\ worker' = [worker EXCEPT ![w] = "next"]
    /\ UNCHANGED <<mainVars, acceptVars, active, conn, resultVars>>

Record(w) ==
    /\ worker[w] = "record"
    /\ rows' = rows \cup {hold[w]}
    /\ served' = served + 1
    /\ worker' = [worker EXCEPT ![w] = "release"]
    /\ UNCHANGED <<mainVars, acceptVars, active, conn, closes, outcome, vars>>

(* release_request, close, delete.                                         *)
Release(w) ==
    /\ worker[w] = "release"
    /\ closes' = [closes EXCEPT ![hold[w]] = @ + 1]
    /\ Complete(w)
    /\ worker' = [worker EXCEPT ![w] = "next"]
    /\ UNCHANGED <<mainVars, acceptVars, active, conn, outcome, rows, served>>

LeaveWorker(w) ==
    /\ worker[w] = "next"
    /\ Leave(w)
    /\ worker' = [worker EXCEPT ![w] = "exited"]
    /\ UNCHANGED <<mainVars, acceptVars, active, conn, resultVars>>
-----------------------------------------------------------------------------
(* The shutdown sequence of main.                                          *)

MainStep(from, to) ==
    /\ main = from
    /\ main' = to
    /\ UNCHANGED <<g_shutdown, acceptVars, active, conn, worker, resultVars>>

SeeShutdown ==
    /\ MainStep("polling", "shut_listener")
    /\ g_shutdown
    /\ UNCHANGED <<listener, vars>>

ShutListener_CloseOnly ==       \* accept() sleeps on
    /\ MainStep("shut_listener", "join_acceptor")
    /\ UNCHANGED <<listener, vars>>

ShutListener ==
    /\ MainStep("shut_listener", "join_acceptor")
    /\ listener' = "shut"
    /\ UNCHANGED vars

JoinAcceptor ==
    /\ MainStep("join_acceptor", "drain")
    /\ acceptor = "exited"
    /\ UNCHANGED <<listener, vars>>

Drain_Skipped ==                \* no wait for the admissions
    /\ MainStep("drain", "stop")
    /\ UNCHANGED <<listener, vars>>

Drain ==
    /\ MainStep("drain", "stop")
    /\ active = 0
    /\ UNCHANGED <<listener, vars>>

StopScheduler ==
    /\ MainStep("stop", "join_workers")
    /\ Shutdown
    /\ UNCHANGED listener

JoinWorkers ==
    /\ MainStep("join_workers", "exited")
    /\ \A w \in Workers : worker[w] = "exited"
    /\ UNCHANGED <<listener, vars>>
-----------------------------------------------------------------------------
AcceptorStep == CountAdmission \/ Spawn \/ SpawnFails \/ RefuseBusy
Admission(c) ==
    \/ Refuse(c) \/ Health(c) \/ StampArrival(c) \/ FileNotFound(c)
    \/ Admit(c) \/ LeaveAdmission(c)
WorkerThread(w) ==
    \/ StampStart(w) \/ SlicePreempted(w) \/ SliceDone(w) \/ SliceFailed(w)
    \/ PutBack(w) \/ Record(w) \/ Release(w)
Main == SeeShutdown \/ ShutListener \/ JoinAcceptor \/ Drain \/ StopScheduler \/ JoinWorkers

ServerNext ==
    \/ Signal
    \/ \E c \in Requests : Connect(c) \/ Accept(c) \/ Admission(c)
    \/ AcceptFails \/ AcceptorStep
    \/ \E w \in Workers : PickUp(w) \/ WorkerThread(w) \/ LeaveWorker(w)
    \/ Main

ServerSpec == ServerInit /\ [][ServerNext]_serverVars

(* Every thread runs: reading the header ends by the header timeout at the *)
(* latest, accept() fails once the listener is shut, the queue is as fair  *)
(* as WorkQueue!Fairness says, and a request that keeps getting slices is  *)
(* done or fails in the end (GetSlice!Terminates).                         *)
ServerFairSpec ==
    /\ ServerSpec
    /\ WF_serverVars(Main)
    /\ WF_serverVars(AcceptorStep)
    /\ WF_serverVars(listener = "shut" /\ AcceptFails)
    /\ \A c \in Requests : WF_serverVars(Admission(c))
    /\ WF_serverVars(\E w \in Workers : PickUp(w))
    /\ \A w \in Workers : WF_serverVars(WorkerThread(w)) /\ WF_serverVars(LeaveWorker(w))
    /\ \A c \in Requests :
          SF_serverVars(\E w \in Workers : hold[w] = c /\ (SliceDone(w) \/ SliceFailed(w)))
-----------------------------------------------------------------------------
(* Every connection that was accepted gets an answer and is closed, on     *)
(* every path; none is left open or unserved when main returns.            *)
Accepted(c) == conn[c] \notin {"none", "backlog"}
NoneAbandoned ==
    main = "exited" => \A c \in Requests : Accepted(c) => outcome[c] # "none" /\ closes[c] = 1

(* A socket is never closed twice (the second close would hit whatever     *)
(* connection has got the number since) and not before the last thread     *)
(* that may use it is done with it.                                        *)
SocketLifecycle ==
    \A c \in Requests :
        /\ closes[c] <= 1
        /\ \/ conn[c] \in {"backlog", "accepted", "reading", "stamped"}
           \/ c \in Waiting
           \/ c \in Held
           => closes[c] = 0

(* The metrics file and the summary line agree with what clients saw: one  *)
(* row per request that was done, none for others (README.md:151).         *)
RowPerDone ==
    main = "exited" => /\ rows = {c \in Requests : outcome[c] = "done"}
                       /\ served = Cardinality(rows)

(* After SIGINT or SIGTERM the server exits.                               *)
ShutdownCompletes == g_shutdown ~> main = "exited"

(* A client whose connection was accepted is not kept waiting for ever,    *)
(* even if the signal comes while its request is being admitted: it gets   *)
(* its answer and the connection is closed.                                *)
EveryoneIsAnswered == \A c \in Requests : Accepted(c) ~> closes[c] = 1
=============================================================================
