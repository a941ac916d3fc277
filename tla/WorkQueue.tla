----------------------------- MODULE WorkQueue ------------------------------
(***************************************************************************)
(* What the scheduler interface promises its callers: a queue whose        *)
(* operations are atomic.  IScheduler::enqueue, next, requeue and shutdown *)
(* take effect in one step each; how the mutex and the condition variable  *)
(* of RequestQueue achieve that is the subject of module RequestQueue,     *)
(* which implements this one.                                              *)
(***************************************************************************)
EXTENDS SchedulingPolicy, SequencesExt

CONSTANTS
    Workers,    \* the server_threads worker threads
    Idle,       \* hold[w] of a worker that is inside, or about to call, next()
    Gone        \* hold[w] of a worker whose next() returned nullptr

ASSUME HoldAssumption ==
    /\ Workers # {}
    /\ Idle # Gone
    /\ {Idle, Gone} \cap Requests = {}

VARIABLES
    sched,          \* the policy of the scheduler main has made, fixed
    items,          \* RequestQueue::items_
    shutting_down,  \* RequestQueue::shutting_down_
    hold,           \* what each worker got from its last next()
    fresh           \* requests no admission thread has enqueued yet

vars == <<sched, items, shutting_down, hold, fresh>>

Waiting == ToSet(items)
Held == {r \in Requests : \E w \in Workers : hold[w] = r}

Init ==
    /\ sched \in Scheds
    /\ items = << >>
    /\ shutting_down = FALSE
    /\ hold = [w \in Workers |-> Idle]
    /\ fresh = Requests

(* Faulty variants of the operations below, which the properties must      *)
(* tell from the real ones.                                                *)
TakeNext_ErasesFront(w) ==      \* pop_pick erases index 0, not the one picked
    /\ hold[w] = Idle
    /\ \E i \in DOMAIN items :
          Picks(sched, items, i) /\ hold' = [hold EXCEPT ![w] = items[i]]
    /\ items' = Tail(items)
    /\ UNCHANGED <<sched, shutting_down, fresh>>

Leave_FlagOnly(w) ==            \* the loop ends as soon as the flag is set
    /\ hold[w] = Idle /\ shutting_down
    /\ hold' = [hold EXCEPT ![w] = Gone]
    /\ UNCHANGED <<sched, items, shutting_down, fresh>>

Leave_AllIdle(w) ==             \* a worker waits for the others to be idle
    /\ hold[w] = Idle /\ items = << >> /\ shutting_down
    /\ \A v \in Workers : hold[v] = Idle
    /\ hold' = [hold EXCEPT ![w] = Gone]
    /\ UNCHANGED <<sched, items, shutting_down, fresh>>

Requeue_Front(w) ==             \* a preempted request goes to the front
    /\ hold[w] \in Requests /\ Bounded(sched)
    /\ items' = <<hold[w]>> \o items
    /\ hold' = [hold EXCEPT ![w] = Idle]
    /\ UNCHANGED <<sched, shutting_down, fresh>>

(* An admission thread hands over a request it has just built.             *)
Enqueue(r) ==
    /\ r \in fresh
    /\ items' = Append(items, r)
    /\ fresh' = fresh \ {r}
    /\ UNCHANGED <<sched, shutting_down, hold>>

(* next() returns a request: the one the policy picks.                     *)
TakeNext(w) ==
    /\ hold[w] = Idle
    /\ \E i \in DOMAIN items :
          /\ Picks(sched, items, i)
          /\ hold' = [hold EXCEPT ![w] = items[i]]
          /\ items' = RemoveAt(items, i)
    /\ UNCHANGED <<sched, shutting_down, fresh>>

(* next() returns nullptr and the worker's loop ends.                      *)
Leave(w) ==
    /\ hold[w] = Idle
    /\ items = << >>
    /\ shutting_down
    /\ hold' = [hold EXCEPT ![w] = Gone]
    /\ UNCHANGED <<sched, items, shutting_down, fresh>>

(* The slice ended PREEMPTED: the request goes to the back of the queue.   *)
Requeue(w) ==
    /\ hold[w] \in Requests
    /\ Bounded(sched)
    /\ items' = Append(items, hold[w])
    /\ hold' = [hold EXCEPT ![w] = Idle]
    /\ UNCHANGED <<sched, shutting_down, fresh>>

(* The slice ended DONE or FAILED: the worker drops the request.           *)
Complete(w) ==
    /\ hold[w] \in Requests
    /\ hold' = [hold EXCEPT ![w] = Idle]
    /\ UNCHANGED <<sched, items, shutting_down, fresh>>

Shutdown ==
    /\ ~shutting_down
    /\ shutting_down' = TRUE
    /\ UNCHANGED <<sched, items, hold, fresh>>

WorkerStep(w) == TakeNext(w) \/ Leave(w) \/ Requeue(w) \/ Complete(w)

(* The callers' side of the contract: main shuts the scheduler down after  *)
(* the last admission thread is done.  Module Server shows that it does.   *)
Next ==
    \/ \E r \in Requests : ~shutting_down /\ Enqueue(r)
    \/ \E w \in Workers : WorkerStep(w)
    \/ Shutdown

(* A waiting request is taken as long as some worker is free, whichever    *)
(* worker that is, and a worker is always done with its slice after a      *)
(* while.  Nothing forces admissions or shutdown.                          *)
Fairness ==
    /\ WF_vars(\E w \in Workers : TakeNext(w))
    /\ \A w \in Workers : WF_vars(Leave(w))
    /\ \A w \in Workers : WF_vars(Requeue(w) \/ Complete(w))

Spec == Init /\ [][Next]_vars
FairSpec == Spec /\ Fairness
-----------------------------------------------------------------------------
TypeOK ==
    /\ sched \in Scheds
    /\ items \in Seq(Requests)
    /\ shutting_down \in BOOLEAN
    /\ hold \in [Workers -> Requests \cup {Idle, Gone}]
    /\ fresh \in SUBSET Requests

(* A request has one owner at a time: it is not yet enqueued, or at one    *)
(* position of the queue, or in the hands of one worker, or finished.  Two *)
(* workers serving the same Request object would race on its offset, free  *)
(* it twice and close its socket twice (main.cpp:260-274).                 *)
QueuedOnce == \A i, j \in DOMAIN items : items[i] = items[j] => i = j
HeldOnce == \A v, w \in Workers : hold[v] = hold[w] /\ hold[v] \in Requests => v = w
QueuedNotHeld == \A i \in DOMAIN items : \A w \in Workers : hold[w] # items[i]
FreshUnowned ==
    \A r \in fresh :
        (\A w \in Workers : hold[w] # r) /\ (\A i \in DOMAIN items : items[i] # r)
SingleOwner == QueuedOnce /\ HeldOnce /\ QueuedNotHeld /\ FreshUnowned

(* When the last worker has left there is no request in the queue, so main *)
(* can delete the scheduler after joining the workers (main.cpp:326-334).  *)
(* A worker that leaves sees an empty queue, but another one may still     *)
(* requeue after it: that one must stay to serve what it put back.         *)
GoneAfterShutdown == \A w \in Workers : hold[w] = Gone => shutting_down
NothingLeftBehind == (\A w \in Workers : hold[w] = Gone) => items = << >>

(* Every request that waits gets a worker, even if the requests before it  *)
(* are preempted and come back for ever: no policy loses a request, and    *)
(* requeued ones do not starve it (scheduler_rr.cpp:18, queue.h:17).       *)
WaitingIsTaken == \A r \in Requests : r \in Waiting ~> r \in Held

(* After shutdown every worker leaves: main's join loop terminates, the    *)
(* accepted requests having been served first (main.cpp:326-327).  That    *)
(* takes requests that are done after finitely many slices, which is what  *)
(* GetSlice!Terminates says of a GET.                                      *)
EveryRequestFinishes ==
    \A r \in Requests : SF_vars(\E w \in Workers : hold[w] = r /\ Complete(w))
ShutdownDrains ==
    EveryRequestFinishes => (shutting_down ~> \A w \in Workers : hold[w] = Gone)
=============================================================================
