----------------------------- MODULE RoundRobin -----------------------------
(***************************************************************************)
(* The work queue with a history variable that records who overtook whom,  *)
(* to state that rr and drr really go round.                               *)
(***************************************************************************)
EXTENDS WorkQueue

VARIABLE passed     \* passed[y]: requests taken since y last joined the queue

rrVars == <<vars, passed>>

RRInit ==
    /\ Init
    /\ passed = [r \in Requests |-> {}]

(* Joining the queue starts a new wait, with nobody having overtaken yet.  *)
RREnqueue(r) ==
    /\ ~shutting_down
    /\ Enqueue(r)
    /\ passed' = [passed EXCEPT ![r] = {}]

RRRequeue(w) ==
    /\ Requeue(w)
    /\ passed' = [passed EXCEPT ![hold[w]] = {}]

(* The request taken has overtaken all those that go on waiting.           *)
RRTake(w) ==
    /\ TakeNext(w)
    /\ passed' = [y \in Requests |-> passed[y] \cup {hold'[w]}]

RRNext ==
    \/ \E r \in Requests : RREnqueue(r)
    \/ \E w \in Workers : RRTake(w) \/ RRRequeue(w)
    \/ /\ \E w \in Workers : Leave(w) \/ Complete(w)
       /\ UNCHANGED passed
    \/ Shutdown /\ UNCHANGED passed

RRSpec == RRInit /\ [][RRNext]_rrVars

RRFairSpec == RRSpec /\ Fairness
-----------------------------------------------------------------------------
(* Under fcfs, rr and drr no request is given to a worker twice while the  *)
(* same other request waits: between two slices of one request everybody   *)
(* who was waiting gets a slice.  This is the bound that makes rr a round  *)
(* robin, whatever the number of workers and however late each of them     *)
(* puts its preempted request back.                                        *)
NoSecondOvertake ==
    [][sched # "sjf" =>
          \A w \in Workers : \A y \in Waiting \cap ToSet(items') :
             (hold[w] = Idle /\ hold'[w] \in Requests) => hold'[w] \notin passed[y]]_rrVars

(* What makes it so: nobody ahead in the queue has overtaken yet.          *)
AheadHasNotPassed == sched # "sjf" =>
    \A i, j \in DOMAIN items : i < j => items[i] \notin passed[items[j]]
=============================================================================
