---------------------------- MODULE RequestQueue ----------------------------
(***************************************************************************)
(* RequestQueue (server/queue.h) as the threads execute it: the critical   *)
(* sections of its mutex are the atomic steps, the notifications happen    *)
(* after the unlock, and a worker in cv_.wait may sleep, be woken and find *)
(* nothing.  Its users are the admission threads, one per request, the     *)
(* worker threads and main, which shuts the queue down.                    *)
(***************************************************************************)
EXTENDS SchedulingPolicy, SequencesExt, FiniteSets

CONSTANTS Workers, NoRequest

ASSUME ThreadsAssumption ==
    /\ IsFiniteSet(Requests)
    /\ IsFiniteSet(Workers)
    /\ Workers # {}
    /\ NoRequest \notin Requests

VARIABLES
    sched,          \* the policy of the scheduler main has made, fixed
    items,          \* items_
    shutting_down,  \* shutting_down_
    adm,            \* adm[r]: where the admission thread of request r is
    worker,         \* worker[w]: where worker w is
    req,            \* req[w]: the request worker w got from next()
    main            \* where main is in shutdown()

vars == <<sched, items, shutting_down, adm, worker, req, main>>

AdmStates == {"before", "notify", "done"}
WorkerStates == {"lock", "wait", "serve", "notify", "gone"}
MainStates == {"running", "notify_all", "done"}

WorkersAt(s) == {w \in Workers : worker[w] = s}
AdmAt(s) == {r \in Requests : adm[r] = s}

(* Every thread blocked in cv_.wait; only workers ever wait.               *)
Sleepers == WorkersAt("wait")

Init ==
    /\ sched \in Scheds
    /\ items = << >>
    /\ shutting_down = FALSE
    /\ adm = [r \in Requests |-> "before"]
    /\ worker = [w \in Workers |-> "lock"]
    /\ req = [w \in Workers |-> NoRequest]
    /\ main = "running"

(* Faulty variants of the operations below, which the properties must      *)
(* tell from the real ones.                                                *)
Push_NotifyIfEmpty(r) ==        \* notify only when the queue was empty
    /\ adm[r] = "before" /\ ~shutting_down
    /\ items' = Append(items, r)
    /\ adm' = [adm EXCEPT ![r] = IF items = << >> THEN "notify" ELSE "done"]
    /\ UNCHANGED <<sched, shutting_down, worker, req, main>>

PopNull_FlagFirst(w) ==         \* the flag is looked at before the queue
    /\ worker[w] = "lock" /\ shutting_down
    /\ worker' = [worker EXCEPT ![w] = "gone"]
    /\ UNCHANGED <<sched, items, shutting_down, adm, req, main>>

NotifyAll_One ==                \* notify_one in shutdown()
    /\ main = "notify_all"
    /\ worker' \in IF Sleepers = {} THEN {worker}
                   ELSE {[worker EXCEPT ![s] = "lock"] : s \in Sleepers}
    /\ main' = "done"
    /\ UNCHANGED <<sched, items, shutting_down, adm, req>>

(* notify_one: wakes one sleeper, any one, or nobody if there is none.  A  *)
(* woken worker goes back to the mutex and evaluates the predicate again.  *)
NotifyOne(wk) ==
    worker' \in IF Sleepers = {}
                THEN {wk}
                ELSE {[wk EXCEPT ![s] = "lock"] : s \in Sleepers}

(* push() by an admission thread, up to the unlock.  Admissions are over   *)
(* when main calls shutdown() (main.cpp:323-326).                          *)
Push(r) ==
    /\ adm[r] = "before"
    /\ ~shutting_down
    /\ items' = Append(items, r)
    /\ adm' = [adm EXCEPT ![r] = "notify"]
    /\ UNCHANGED <<sched, shutting_down, worker, req, main>>

PushNotify(r) ==
    /\ adm[r] = "notify"
    /\ NotifyOne(worker)
    /\ adm' = [adm EXCEPT ![r] = "done"]
    /\ UNCHANGED <<sched, items, shutting_down, req, main>>

(* pop_pick() under the lock, predicate true and the queue not empty.      *)
Pop(w) ==
    /\ worker[w] = "lock"
    /\ \E i \in DOMAIN items :
          /\ Picks(sched, items, i)
          /\ req' = [req EXCEPT ![w] = items[i]]
          /\ items' = RemoveAt(items, i)
    /\ worker' = [worker EXCEPT ![w] = "serve"]
    /\ UNCHANGED <<sched, shutting_down, adm, main>>

(* pop_pick() under the lock, predicate false: wait releases the mutex and *)
(* blocks in one step.                                                     *)
Sleep(w) ==
    /\ worker[w] = "lock"
    /\ items = << >> /\ ~shutting_down
    /\ worker' = [worker EXCEPT ![w] = "wait"]
    /\ UNCHANGED <<sched, items, shutting_down, adm, req, main>>

(* pop_pick() returns nullptr.                                             *)
PopNull(w) ==
    /\ worker[w] = "lock"
    /\ items = << >> /\ shutting_down
    /\ worker' = [worker EXCEPT ![w] = "gone"]
    /\ UNCHANGED <<sched, items, shutting_down, adm, req, main>>

(* A condition variable may wake a thread that nobody notified.            *)
SpuriousWake(w) ==
    /\ worker[w] = "wait"
    /\ worker' = [worker EXCEPT ![w] = "lock"]
    /\ UNCHANGED <<sched, items, shutting_down, adm, req, main>>

(* The worker's slice was preempted: push() by the worker, up to the       *)
(* unlock, and then its notification.                                      *)
PushBack(w) ==
    /\ worker[w] = "serve"
    /\ Bounded(sched)
    /\ items' = Append(items, req[w])
    /\ req' = [req EXCEPT ![w] = NoRequest]
    /\ worker' = [worker EXCEPT ![w] = "notify"]
    /\ UNCHANGED <<sched, shutting_down, adm, main>>

PushBackNotify(w) ==
    /\ worker[w] = "notify"
    /\ NotifyOne([worker EXCEPT ![w] = "lock"])
    /\ UNCHANGED <<sched, items, shutting_down, adm, req, main>>

(* The slice was the last one: the worker deletes the request.             *)
Finish(w) ==
    /\ worker[w] = "serve"
    /\ req' = [req EXCEPT ![w] = NoRequest]
    /\ worker' = [worker EXCEPT ![w] = "lock"]
    /\ UNCHANGED <<sched, items, shutting_down, adm, main>>

(* shutdown(), up to the unlock, and then notify_all.                      *)
SetShutdown ==
    /\ main = "running"
    /\ AdmAt("notify") = {}
    /\ shutting_down' = TRUE
    /\ main' = "notify_all"
    /\ UNCHANGED <<sched, items, adm, worker, req>>

NotifyAll ==
    /\ main = "notify_all"
    /\ worker' = [w \in Workers |-> IF w \in Sleepers THEN "lock" ELSE worker[w]]
    /\ main' = "done"
    /\ UNCHANGED <<sched, items, shutting_down, adm, req>>

Admission(r) == Push(r) \/ PushNotify(r)
Worker(w) ==
    \/ Pop(w) \/ Sleep(w) \/ PopNull(w) \/ SpuriousWake(w)
    \/ PushBack(w) \/ PushBackNotify(w) \/ Finish(w)
Main == SetShutdown \/ NotifyAll

Next ==
    \/ \E r \in Requests : Admission(r)
    \/ \E w \in Workers : Worker(w)
    \/ Main

(* A thread that can run runs: it gets the mutex (not ahead of the others, *)
(* which is why Pop is only weakly fair), returns from serve_slice, and    *)
(* delivers the notification it is about to make.  No wakeup is owed to a  *)
(* sleeper, and no admission and no shutdown need ever happen.             *)
Fairness ==
    /\ \A r \in Requests : WF_vars(PushNotify(r))
    /\ \A w \in Workers : WF_vars(Pop(w) \/ Sleep(w) \/ PopNull(w))
    /\ \A w \in Workers : WF_vars(PushBack(w) \/ Finish(w)) /\ WF_vars(PushBackNotify(w))
    /\ WF_vars(NotifyAll)

Spec == Init /\ [][Next]_vars
FairSpec == Spec /\ Fairness
-----------------------------------------------------------------------------
TypeOK ==
    /\ sched \in Scheds
    /\ items \in Seq(Requests)
    /\ shutting_down \in BOOLEAN
    /\ adm \in [Requests -> AdmStates]
    /\ worker \in [Workers -> WorkerStates]
    /\ req \in [Workers -> Requests \cup {NoRequest}]
    /\ main \in MainStates

(* No wakeup is lost although push() notifies after it released the mutex  *)
(* (queue.h:15-19): while a worker sleeps, every request in the queue is   *)
(* matched by a notification still to be made or by a worker that is going *)
(* to evaluate the predicate.                                              *)
Notifiers == Cardinality(AdmAt("notify")) + Cardinality(WorkersAt("notify"))
NoLostWakeup ==
    Sleepers # {} => Len(items) <= Notifiers + Cardinality(WorkersAt("lock"))

(* The same for shutdown(): a worker that sleeps although the flag is set  *)
(* has the notify_all still ahead of it (queue.h:37-43).                   *)
NoSleepThroughShutdown ==
    shutting_down /\ Sleepers # {} => main = "notify_all"

(* The queue behaves as the atomic queue of module WorkQueue: no request   *)
(* is lost, duplicated or reordered by the interleavings of push, pop_pick *)
(* and shutdown, and (with the fairness of FairSpec) no waiting one is     *)
(* forgotten.                                                              *)
HoldOf(w) ==
    CASE worker[w] = "serve" -> req[w]
      [] worker[w] = "gone"  -> "gone"
      [] OTHER               -> "idle"

atomic == INSTANCE WorkQueue WITH
    hold <- [w \in Workers |-> HoldOf(w)],
    fresh <- AdmAt("before"),
    Idle <- "idle",
    Gone <- "gone"

ImplementsWorkQueue == atomic!FairSpec
=============================================================================
