------------------------- MODULE RequestQueueProofs -------------------------
(***************************************************************************)
(* Proofs about the queue with its mutex and condition variable, for any   *)
(* number of requests and workers and for every policy.                    *)
(***************************************************************************)
EXTENDS RequestQueue, SequenceTheorems, FiniteSetTheorems, TLAPS

USE SchedsAssumption, BytesAssumption, ThreadsAssumption

(* Removing an element: what erase does to items.                          *)
LEMMA RemoveAtFacts ==
    ASSUME NEW S, NEW s \in Seq(S), NEW i \in 1 .. Len(s)
    PROVE  RemoveAt(s, i) \in Seq(S) /\ Len(RemoveAt(s, i)) = Len(s) - 1
<1> DEFINE a == SubSeq(s, 1, i - 1)
           b == SubSeq(s, i + 1, Len(s))
<1>0. Len(s) \in Nat /\ \A k \in 1 .. Len(s) : s[k] \in S
  BY LenProperties, ElementOfSeq
<1>1. a \in Seq(S) /\ Len(a) = i - 1
  <2>1. \A k \in 1 .. i - 1 : s[k] \in S
    BY <1>0
  <2>2. a \in Seq(S) /\ Len(a) = IF 1 <= i - 1 THEN (i - 1) - 1 + 1 ELSE 0
    BY <2>1, <1>0, SubSeqProperties
  <2> QED BY <2>2, <1>0
<1>2. b \in Seq(S) /\ Len(b) = Len(s) - i
  <2>1. \A k \in i + 1 .. Len(s) : s[k] \in S
    BY <1>0
  <2>2. b \in Seq(S) /\ Len(b) = IF i + 1 <= Len(s) THEN Len(s) - (i + 1) + 1 ELSE 0
    BY <2>1, <1>0, SubSeqProperties
  <2> QED BY <2>2, <1>0
<1>3. RemoveAt(s, i) = a \o b
  BY DEF RemoveAt
<1> HIDE DEF a, b
<1> QED BY <1>0, <1>1, <1>2, <1>3, ConcatProperties

(* Lower bounds on the size of a set after a change of one element.        *)
LEMMA SameOrMore ==
    ASSUME NEW A, NEW B, IsFiniteSet(B), A \subseteq B
    PROVE  Cardinality(A) <= Cardinality(B)
  BY FS_Subset

(* A set that gains an element.                                            *)
LEMMA OneMore ==
    ASSUME NEW A, NEW B, NEW x, IsFiniteSet(B), A \subseteq B, x \in B, x \notin A
    PROVE  Cardinality(A) + 1 <= Cardinality(B)
<1>1. IsFiniteSet(A) /\ IsFiniteSet(A \cup {x}) /\ A \cup {x} \subseteq B
  BY FS_Subset, FS_AddElement
<1>2. Cardinality(A \cup {x}) = Cardinality(A) + 1
  BY <1>1, FS_AddElement
<1> QED BY <1>1, <1>2, FS_Subset

(* A set that loses at most one element.                                   *)
LEMMA OneLess ==
    ASSUME NEW A, NEW B, NEW x, IsFiniteSet(A), IsFiniteSet(B), A \ {x} \subseteq B
    PROVE  Cardinality(A) <= Cardinality(B) + 1
<1>1. IsFiniteSet(A \ {x}) /\ Cardinality(A \ {x}) <= Cardinality(B)
  BY FS_RemoveElement, FS_Subset
<1>2. Cardinality(A) \in Nat /\ Cardinality(B) \in Nat
  BY FS_CardinalityType
<1>3. Cardinality(A \ {x}) = Cardinality(A) \/ Cardinality(A \ {x}) = Cardinality(A) - 1
  BY FS_RemoveElement
<1> QED BY <1>1, <1>2, <1>3

(* There are finitely many threads to count.                               *)
LEMMA FiniteThreads == IsFiniteSet(Requests) /\ IsFiniteSet(Workers)
  OBVIOUS

(* A notification wakes at most one thread, and one if any sleeps.         *)
LEMMA NotifyCases ==
    ASSUME NEW wk \in [Workers -> WorkerStates], NotifyOne(wk)
    PROVE  \/ Sleepers = {} /\ worker' = wk
           \/ \E s \in Sleepers : worker' = [wk EXCEPT ![s] = "lock"]
  BY DEF NotifyOne

(* Type correctness; a worker that serves has a request.                   *)
ServesRequest == \A w \in Workers : worker[w] = "serve" => req[w] \in Requests

(* No worker serves at the start.                                          *)
LEMMA QueueTypeInit == Init => TypeOK /\ ServesRequest
  BY EmptySeq DEF Init, TypeOK, ServesRequest, AdmStates, WorkerStates, MainStates

(* Only Pop makes a worker serve, and it gives it a request.               *)
LEMMA QueueTypeStep ==
    TypeOK /\ ServesRequest /\ [Next]_vars => TypeOK' /\ ServesRequest'
<1> SUFFICES ASSUME TypeOK, ServesRequest, [Next]_vars
             PROVE  TypeOK' /\ ServesRequest'
  OBVIOUS
<1> USE DEF TypeOK, ServesRequest, AdmStates, WorkerStates, MainStates
<1>1. ASSUME NEW r \in Requests, Push(r) PROVE TypeOK' /\ ServesRequest'
  BY <1>1, AppendProperties DEF Push
<1>2. ASSUME NEW r \in Requests, PushNotify(r) PROVE TypeOK' /\ ServesRequest'
  <2>1. \/ worker' = worker
        \/ \E s \in Workers : worker' = [worker EXCEPT ![s] = "lock"]
    BY <1>2, NotifyCases DEF PushNotify, Sleepers, WorkersAt
  <2> QED BY <1>2, <2>1 DEF PushNotify
<1>3. ASSUME NEW w \in Workers, Pop(w) PROVE TypeOK' /\ ServesRequest'
  <2>1. PICK i \in DOMAIN items :
           /\ req' = [req EXCEPT ![w] = items[i]]
           /\ items' = RemoveAt(items, i)
    BY <1>3 DEF Pop
  <2>2. i \in 1 .. Len(items)
    BY <2>1, LenProperties
  <2>3. items[i] \in Requests /\ items' \in Seq(Requests)
    BY <2>1, <2>2, ElementOfSeq, RemoveAtFacts
  <2> QED BY <1>3, <2>1, <2>3 DEF Pop
<1>4. ASSUME NEW w \in Workers, Sleep(w) \/ PopNull(w) \/ SpuriousWake(w)
      PROVE  TypeOK' /\ ServesRequest'
  BY <1>4 DEF Sleep, PopNull, SpuriousWake
<1>5. ASSUME NEW w \in Workers, PushBack(w) PROVE TypeOK' /\ ServesRequest'
  BY <1>5, AppendProperties DEF PushBack
<1>6. ASSUME NEW w \in Workers, PushBackNotify(w) PROVE TypeOK' /\ ServesRequest'
  <2>1. [worker EXCEPT ![w] = "lock"] \in [Workers -> WorkerStates]
    OBVIOUS
  <2>2. \/ worker' = [worker EXCEPT ![w] = "lock"]
        \/ \E s \in Workers : worker' = [[worker EXCEPT ![w] = "lock"] EXCEPT ![s] = "lock"]
    BY <1>6, <2>1, NotifyCases DEF PushBackNotify, Sleepers, WorkersAt
  <2> QED BY <1>6, <2>2 DEF PushBackNotify
<1>7. ASSUME NEW w \in Workers, Finish(w) PROVE TypeOK' /\ ServesRequest'
  BY <1>7 DEF Finish
<1>8. CASE Main
  BY <1>8 DEF Main, SetShutdown, NotifyAll
<1>9. CASE UNCHANGED vars
  BY <1>9 DEF vars
<1> QED BY <1>1, <1>2, <1>3, <1>4, <1>5, <1>6, <1>7, <1>8, <1>9
        DEF Next, Admission, Worker

(* The queue's state is always one the code can be in.                     *)
THEOREM QueueTypeCorrect == Spec => []TypeOK
<1> QED BY QueueTypeInit, QueueTypeStep, PTL DEF Spec
-----------------------------------------------------------------------------
(* A thread that sleeps when the flag is set has notify_all coming: the    *)
(* predicate is evaluated under the mutex under which the flag is set.     *)
LEMMA ShutdownStep ==
    TypeOK /\ NoSleepThroughShutdown /\ [Next]_vars => NoSleepThroughShutdown'
<1> SUFFICES ASSUME TypeOK, NoSleepThroughShutdown, [Next]_vars,
                    shutting_down', main' # "notify_all", NEW s \in Workers,
                    worker'[s] = "wait"
             PROVE  FALSE
  BY DEF NoSleepThroughShutdown, Sleepers, WorkersAt
<1> USE DEF TypeOK, NoSleepThroughShutdown, Sleepers, WorkersAt
<1>1. ASSUME NEW r \in Requests, Push(r) \/ PushNotify(r) PROVE FALSE
  <2>1. worker' = worker \/ \E v \in Workers : worker' = [worker EXCEPT ![v] = "lock"]
    BY <1>1, NotifyCases DEF Push, PushNotify
  <2> QED BY <1>1, <2>1 DEF Push, PushNotify
<1>2. ASSUME NEW w \in Workers, Pop(w) \/ Sleep(w) \/ PopNull(w) \/ SpuriousWake(w)
      PROVE  FALSE
  BY <1>2 DEF Pop, Sleep, PopNull, SpuriousWake
<1>3. ASSUME NEW w \in Workers, PushBack(w) \/ Finish(w) PROVE FALSE
  BY <1>3 DEF PushBack, Finish
<1>4. ASSUME NEW w \in Workers, PushBackNotify(w) PROVE FALSE
  <2>1. [worker EXCEPT ![w] = "lock"] \in [Workers -> WorkerStates]
    BY DEF WorkerStates
  <2>2. \/ worker' = [worker EXCEPT ![w] = "lock"]
        \/ \E v \in Workers : worker' = [[worker EXCEPT ![w] = "lock"] EXCEPT ![v] = "lock"]
    BY <1>4, <2>1, NotifyCases DEF PushBackNotify
  <2> QED BY <1>4, <2>2 DEF PushBackNotify
<1>5. CASE Main
  BY <1>5 DEF Main, SetShutdown, NotifyAll
<1>6. CASE UNCHANGED vars
  BY <1>6 DEF vars
<1> QED BY <1>1, <1>2, <1>3, <1>4, <1>5, <1>6 DEF Next, Admission, Worker

(* No worker sleeps through shutdown() (queue.h:24, queue.h:37-43).        *)
THEOREM NobodySleepsOn == Spec => []NoSleepThroughShutdown
<1>1. Init => NoSleepThroughShutdown
  BY DEF Init, NoSleepThroughShutdown
<1> QED BY <1>1, QueueTypeInit, QueueTypeStep, ShutdownStep, PTL DEF Spec
-----------------------------------------------------------------------------
(* The three sets NoLostWakeup counts, and lower bounds on their sizes     *)
(* after a step.                                                           *)
Locking == WorkersAt("lock")
Notifying == WorkersAt("notify")
Admitting == AdmAt("notify")

(* They are finite, before and after a step.                               *)
LEMMA FiniteSets ==
    /\ IsFiniteSet(Locking) /\ IsFiniteSet(Notifying) /\ IsFiniteSet(Admitting)
    /\ IsFiniteSet(Locking') /\ IsFiniteSet(Notifying') /\ IsFiniteSet(Admitting')
<1>1. /\ Locking \subseteq Workers /\ Notifying \subseteq Workers
      /\ Locking' \subseteq Workers /\ Notifying' \subseteq Workers
      /\ Admitting \subseteq Requests /\ Admitting' \subseteq Requests
  BY DEF Locking, Notifying, Admitting, WorkersAt, AdmAt
<1> QED BY <1>1, FS_Subset

Wakers == Cardinality(Admitting) + Cardinality(Notifying) + Cardinality(Locking)

(* So the number of those who will look at the queue is a number.          *)
LEMMA WakersAreNat == Wakers \in Nat /\ Wakers' \in Nat
<1>1. /\ Cardinality(Admitting) \in Nat /\ Cardinality(Admitting') \in Nat
      /\ Cardinality(Notifying) \in Nat /\ Cardinality(Notifying') \in Nat
      /\ Cardinality(Locking) \in Nat /\ Cardinality(Locking') \in Nat
  BY FiniteSets, FS_CardinalityType
<1> QED BY <1>1 DEF Wakers

(* What a step adds to the three sizes it adds to their sum.               *)
LEMMA WakersBound ==
    ASSUME NEW a \in Int, NEW n \in Int, NEW l \in Int,
           Cardinality(Admitting) + a <= Cardinality(Admitting'),
           Cardinality(Notifying) + n <= Cardinality(Notifying'),
           Cardinality(Locking) + l <= Cardinality(Locking')
    PROVE  Wakers + (a + n + l) <= Wakers'
<1>1. /\ Cardinality(Admitting) \in Nat /\ Cardinality(Admitting') \in Nat
      /\ Cardinality(Notifying) \in Nat /\ Cardinality(Notifying') \in Nat
      /\ Cardinality(Locking) \in Nat /\ Cardinality(Locking') \in Nat
  BY FiniteSets, FS_CardinalityType
<1> QED BY <1>1 DEF Wakers

(* A set that loses nobody.                                                *)
LEMMA Kept ==
    ASSUME NEW A, NEW B, IsFiniteSet(A), IsFiniteSet(B), A \subseteq B
    PROVE  Cardinality(A) + 0 <= Cardinality(B)
  BY SameOrMore, FS_CardinalityType

(* A set that loses at most x.                                             *)
LEMMA Lost ==
    ASSUME NEW A, NEW B, NEW x, IsFiniteSet(A), IsFiniteSet(B), A \ {x} \subseteq B
    PROVE  Cardinality(A) + (-1) <= Cardinality(B)
<1>1. Cardinality(A) <= Cardinality(B) + 1 /\ Cardinality(A) \in Nat /\ Cardinality(B) \in Nat
  BY OneLess, FS_CardinalityType
<1> QED BY <1>1

(* A push adds a request and a notification; a notification that finds a   *)
(* sleeper becomes a worker at the lock; the one who goes to sleep has     *)
(* seen the queue empty.                                                   *)
LEMMA WakeupStep == TypeOK /\ NoLostWakeup /\ [Next]_vars => NoLostWakeup'
<1> SUFFICES ASSUME TypeOK, NoLostWakeup, [Next]_vars, Sleepers' # {}
             PROVE  Len(items') <= Wakers'
  BY DEF NoLostWakeup, Notifiers, Wakers, Admitting, Notifying, Locking
<1>0. /\ Len(items) \in Nat /\ Wakers \in Nat /\ Wakers' \in Nat
      /\ worker \in [Workers -> WorkerStates]
  BY WakersAreNat, LenProperties DEF TypeOK
<1>s. ASSUME Sleepers # {} PROVE Len(items) <= Wakers
  BY <1>s DEF NoLostWakeup, Notifiers, Wakers, Admitting, Notifying, Locking
<1>a. ASSUME adm' = adm PROVE Cardinality(Admitting) + 0 <= Cardinality(Admitting')
  <2>1. Admitting \subseteq Admitting'
    BY <1>a DEF Admitting, AdmAt
  <2> QED BY <2>1, FiniteSets, Kept
<1>w. ASSUME worker' = worker
      PROVE  /\ Sleepers # {}
             /\ Cardinality(Notifying) + 0 <= Cardinality(Notifying')
             /\ Cardinality(Locking) + 0 <= Cardinality(Locking')
  <2>1. Notifying \subseteq Notifying' /\ Locking \subseteq Locking' /\ Sleepers # {}
    BY <1>w DEF Notifying, Locking, WorkersAt, Sleepers
  <2> QED BY <2>1, FiniteSets, Kept
<1>same. ASSUME UNCHANGED <<items, adm, worker>> PROVE Len(items') <= Wakers'
  <2>1. Wakers + (0 + 0 + 0) <= Wakers'
    BY <1>same, <1>a, <1>w, WakersBound
  <2> QED BY <1>0, <1>s, <1>w, <1>same, <2>1
<1>1. ASSUME NEW r \in Requests, Push(r) PROVE Len(items') <= Wakers'
  <2>1. /\ worker' = worker /\ items' = Append(items, r)
        /\ Admitting \subseteq Admitting' /\ r \notin Admitting /\ r \in Admitting'
    BY <1>1 DEF Push, TypeOK, Admitting, AdmAt
  <2>2. Cardinality(Admitting) + 1 <= Cardinality(Admitting')
    BY <2>1, FiniteSets, OneMore
  <2>3. Wakers + (1 + 0 + 0) <= Wakers'
    BY <1>w, <2>1, <2>2, WakersBound
  <2>4. Len(items') = Len(items) + 1
    BY <2>1, AppendProperties DEF TypeOK
  <2> QED BY <1>0, <1>s, <1>w, <2>1, <2>3, <2>4
<1>2. ASSUME NEW r \in Requests, PushNotify(r) PROVE Len(items') <= Wakers'
  <2>1. Admitting \ {r} \subseteq Admitting' /\ items' = items /\ NotifyOne(worker)
    BY <1>2 DEF PushNotify, TypeOK, Admitting, AdmAt
  <2>2. PICK s \in Workers : worker[s] = "wait" /\ worker' = [worker EXCEPT ![s] = "lock"]
    BY <1>0, <1>w, <2>1, NotifyCases DEF Sleepers, WorkersAt
  <2>3. /\ Notifying \subseteq Notifying' /\ Locking \subseteq Locking'
        /\ s \notin Locking /\ s \in Locking' /\ Sleepers # {}
    BY <1>0, <2>2 DEF Notifying, Locking, WorkersAt, Sleepers
  <2>4. /\ Cardinality(Admitting) + (-1) <= Cardinality(Admitting')
        /\ Cardinality(Notifying) + 0 <= Cardinality(Notifying')
        /\ Cardinality(Locking) + 1 <= Cardinality(Locking')
    BY <2>1, <2>3, FiniteSets, Kept, Lost, OneMore
  <2>5. Wakers + (-1 + 0 + 1) <= Wakers'
    BY <2>4, WakersBound
  <2> QED BY <1>0, <1>s, <2>1, <2>3, <2>5
<1>3. ASSUME NEW w \in Workers, Pop(w) PROVE Len(items') <= Wakers'
  <2>1. /\ worker[w] = "lock" /\ worker' = [worker EXCEPT ![w] = "serve"] /\ adm' = adm
        /\ \E i \in DOMAIN items : items' = RemoveAt(items, i)
    BY <1>3 DEF Pop
  <2>2. PICK i \in 1 .. Len(items) : items' = RemoveAt(items, i)
    BY <2>1, LenProperties DEF TypeOK
  <2>3. Len(items') = Len(items) - 1
    BY <2>2, RemoveAtFacts DEF TypeOK
  <2>4. Notifying \subseteq Notifying' /\ Locking \ {w} \subseteq Locking' /\ Sleepers # {}
    BY <1>0, <2>1 DEF Notifying, Locking, WorkersAt, Sleepers
  <2>5. /\ Cardinality(Notifying) + 0 <= Cardinality(Notifying')
        /\ Cardinality(Locking) + (-1) <= Cardinality(Locking')
    BY <2>4, FiniteSets, Kept, Lost
  <2>6. Wakers + (0 + 0 + -1) <= Wakers'
    BY <1>a, <2>1, <2>5, WakersBound
  <2> QED BY <1>0, <1>s, <2>3, <2>4, <2>6
<1>4. ASSUME NEW w \in Workers, Sleep(w) \/ PopNull(w) PROVE Len(items') <= Wakers'
  <2>1. items' = << >>
    BY <1>4 DEF Sleep, PopNull
  <2> QED BY <1>0, <2>1, EmptySeq
<1>5. ASSUME NEW w \in Workers, SpuriousWake(w) \/ Finish(w) PROVE Len(items') <= Wakers'
  <2>1. /\ worker[w] # "lock" /\ worker[w] # "notify"
        /\ worker' = [worker EXCEPT ![w] = "lock"]
        /\ items' = items /\ adm' = adm
    BY <1>5 DEF SpuriousWake, Finish
  <2>2. Notifying \subseteq Notifying' /\ Locking \subseteq Locking' /\ Sleepers # {}
    BY <1>0, <2>1 DEF Notifying, Locking, WorkersAt, Sleepers
  <2>3. /\ Cardinality(Notifying) + 0 <= Cardinality(Notifying')
        /\ Cardinality(Locking) + 0 <= Cardinality(Locking')
    BY <2>2, FiniteSets, Kept
  <2>4. Wakers + (0 + 0 + 0) <= Wakers'
    BY <1>a, <2>1, <2>3, WakersBound
  <2> QED BY <1>0, <1>s, <2>1, <2>2, <2>4
<1>6. ASSUME NEW w \in Workers, PushBack(w) PROVE Len(items') <= Wakers'
  <2>1. /\ worker[w] = "serve" /\ worker' = [worker EXCEPT ![w] = "notify"]
        /\ adm' = adm /\ items' = Append(items, req[w])
    BY <1>6 DEF PushBack
  <2>2. /\ Notifying \subseteq Notifying' /\ Locking \subseteq Locking'
        /\ w \notin Notifying /\ w \in Notifying' /\ Sleepers # {}
    BY <1>0, <2>1 DEF Notifying, Locking, WorkersAt, Sleepers
  <2>3. /\ Cardinality(Notifying) + 1 <= Cardinality(Notifying')
        /\ Cardinality(Locking) + 0 <= Cardinality(Locking')
    BY <2>2, FiniteSets, Kept, OneMore
  <2>4. Wakers + (0 + 1 + 0) <= Wakers'
    BY <1>a, <2>1, <2>3, WakersBound
  <2>5. Len(items') = Len(items) + 1
    BY <2>1, AppendProperties DEF TypeOK
  <2> QED BY <1>0, <1>s, <2>2, <2>4, <2>5
<1>7. ASSUME NEW w \in Workers, PushBackNotify(w) PROVE Len(items') <= Wakers'
  <2>1. /\ worker[w] = "notify" /\ NotifyOne([worker EXCEPT ![w] = "lock"])
        /\ items' = items /\ adm' = adm
    BY <1>7 DEF PushBackNotify
  <2>2. [worker EXCEPT ![w] = "lock"] \in [Workers -> WorkerStates]
    BY <1>0 DEF WorkerStates
  <2>3. \/ worker' = [worker EXCEPT ![w] = "lock"]
        \/ \E s \in Sleepers : worker' = [[worker EXCEPT ![w] = "lock"] EXCEPT ![s] = "lock"]
    BY <2>1, <2>2, NotifyCases
  <2>4. /\ worker'[w] = "lock"
        /\ \A v \in Workers \ {w} : worker'[v] = worker[v] \/ (worker[v] = "wait" /\ worker'[v] = "lock")
    BY <1>0, <2>1, <2>3 DEF Sleepers, WorkersAt
  <2>5. /\ Notifying \ {w} \subseteq Notifying' /\ Locking \subseteq Locking'
        /\ w \notin Locking /\ w \in Locking' /\ Sleepers # {}
    BY <2>1, <2>4 DEF Notifying, Locking, WorkersAt, Sleepers
  <2>6. /\ Cardinality(Notifying) + (-1) <= Cardinality(Notifying')
        /\ Cardinality(Locking) + 1 <= Cardinality(Locking')
    BY <2>5, FiniteSets, Lost, OneMore
  <2>7. Wakers + (0 + -1 + 1) <= Wakers'
    BY <1>a, <2>1, <2>6, WakersBound
  <2> QED BY <1>0, <1>s, <2>1, <2>5, <2>7
<1>8. CASE SetShutdown
  BY <1>same, <1>8 DEF SetShutdown
<1>9. CASE NotifyAll
  BY <1>9 DEF NotifyAll, Sleepers, WorkersAt
<1>10. CASE UNCHANGED vars
  BY <1>same, <1>10 DEF vars
<1> QED BY <1>1, <1>2, <1>3, <1>4, <1>5, <1>6, <1>7, <1>8, <1>9, <1>10
        DEF Next, Admission, Worker, Main

(* The notification after the unlock is never too late (queue.h:15-19).    *)
THEOREM WakeupsSuffice == Spec => []NoLostWakeup
<1>1. Init => NoLostWakeup
  BY DEF Init, NoLostWakeup, Sleepers, WorkersAt
<1> QED BY <1>1, QueueTypeInit, QueueTypeStep, WakeupStep, PTL DEF Spec
-----------------------------------------------------------------------------
(* The queue implements the atomic queue: Push, Pop, PopNull, PushBack,    *)
(* Finish and SetShutdown are the atomic operations, the notifications and *)
(* what the sleepers do are invisible.                                     *)
hold == [w \in Workers |-> HoldOf(w)]
fresh == AdmAt("before")

(* The queue starts as the atomic queue does.                              *)
LEMMA RefineInit == Init => atomic!Init
<1> SUFFICES ASSUME Init PROVE atomic!Init
  OBVIOUS
<1>1. fresh = Requests
  BY DEF Init, fresh, AdmAt
<1>2. hold = [w \in Workers |-> "idle"]
  BY DEF Init, hold, HoldOf
<1> QED BY <1>1, <1>2 DEF Init, atomic!Init, hold, fresh

(* What a worker's step does to the mapped hold.                           *)
LEMMA HoldStep ==
    ASSUME TypeOK, NEW w \in Workers, NEW s \in WorkerStates,
           worker' = [worker EXCEPT ![w] = s],
           \A v \in Workers \ {w} : req'[v] = req[v]
    PROVE  hold' = [hold EXCEPT ![w] = HoldOf(w)']
  BY DEF TypeOK, hold, HoldOf

(* Which requests are fresh depends on the admission threads only.         *)
LEMMA SameFresh == ASSUME adm' = adm PROVE fresh' = fresh
  BY DEF fresh, AdmAt

(* A notification does not touch what is held.                             *)
LEMMA NotifyHold ==
    ASSUME TypeOK, NEW wk \in [Workers -> WorkerStates], NotifyOne(wk), req' = req,
           \A v \in Workers : wk[v] = worker[v] \/ (worker[v] = "notify" /\ wk[v] = "lock")
    PROVE  hold' = hold
<1>1. \A v \in Workers : \/ worker'[v] = worker[v]
                         \/ worker[v] \in {"notify", "wait"} /\ worker'[v] = "lock"
  BY NotifyCases DEF Sleepers, WorkersAt
<1>2. ASSUME NEW v \in Workers PROVE HoldOf(v)' = HoldOf(v)
  BY <1>1, <1>2 DEF HoldOf
<1> QED BY <1>2 DEF hold

(* Main sets the flag once, with its first step in shutdown().             *)
FlagFollowsMain == shutting_down <=> main # "running"

(* Nobody but main touches the flag.                                       *)
LEMMA FlagStep == TypeOK /\ FlagFollowsMain /\ [Next]_vars => FlagFollowsMain'
<1> SUFFICES ASSUME FlagFollowsMain, [Next]_vars PROVE FlagFollowsMain'
  OBVIOUS
<1>1. CASE SetShutdown
  BY <1>1 DEF SetShutdown, FlagFollowsMain
<1>2. CASE NotifyAll
  BY <1>2 DEF NotifyAll, FlagFollowsMain
<1>3. CASE UNCHANGED <<shutting_down, main>>
  BY <1>3 DEF FlagFollowsMain
<1> QED
  BY <1>1, <1>2, <1>3
  DEF Next, Admission, Worker, Main, Push, PushNotify, Pop, Sleep, PopNull, SpuriousWake,
      PushBack, PushBackNotify, Finish, vars

(* Every critical section is one atomic operation, any other step none.    *)
LEMMA RefineStep ==
    TypeOK /\ ServesRequest /\ FlagFollowsMain /\ [Next]_vars
        => [atomic!Next]_(atomic!vars)
<1> SUFFICES ASSUME TypeOK, ServesRequest, FlagFollowsMain, [Next]_vars
             PROVE  atomic!Next \/ UNCHANGED <<sched, items, shutting_down, hold, fresh>>
  BY DEF atomic!vars, hold, fresh
<1>1. ASSUME NEW r \in Requests, Push(r)
      PROVE  ~shutting_down /\ atomic!Enqueue(r)
  <2>1. r \in fresh /\ fresh' = fresh \ {r}
    BY <1>1 DEF Push, TypeOK, fresh, AdmAt, AdmStates
  <2>2. hold' = hold
    BY <1>1 DEF Push, hold, HoldOf
  <2> QED BY <1>1, <2>1, <2>2 DEF Push, atomic!Enqueue, hold, fresh
<1>2. ASSUME NEW r \in Requests, PushNotify(r)
      PROVE  UNCHANGED <<sched, items, shutting_down, hold, fresh>>
  <2>1. hold' = hold
    BY <1>2, NotifyHold DEF PushNotify, TypeOK
  <2>2. fresh' = fresh
    BY <1>2 DEF PushNotify, TypeOK, fresh, AdmAt
  <2> QED BY <1>2, <2>1, <2>2 DEF PushNotify
<1>3. ASSUME NEW w \in Workers, Pop(w) PROVE atomic!TakeNext(w)
  <2>1. PICK i \in DOMAIN items :
           /\ Picks(sched, items, i)
           /\ req' = [req EXCEPT ![w] = items[i]]
           /\ items' = RemoveAt(items, i)
    BY <1>3 DEF Pop
  <2>2. hold[w] = "idle"
    BY <1>3 DEF Pop, hold, HoldOf
  <2>3. HoldOf(w)' = items[i]
    BY <1>3, <2>1 DEF Pop, TypeOK, HoldOf
  <2>4. hold' = [hold EXCEPT ![w] = items[i]]
    BY <1>3, <2>1, <2>3, HoldStep DEF Pop, TypeOK, WorkerStates
  <2>5. fresh' = fresh
    BY <1>3, SameFresh DEF Pop
  <2>6. atomic!Picks(sched, items, i)
    BY <2>1 DEF Picks, SjfPick, atomic!Picks, atomic!SjfPick
  <2>7. \E j \in DOMAIN items :
           /\ atomic!Picks(sched, items, j)
           /\ hold' = [hold EXCEPT ![w] = items[j]]
           /\ items' = atomic!RemoveAt(items, j)
    BY <2>1, <2>4, <2>6 DEF RemoveAt, atomic!RemoveAt
  <2>8. UNCHANGED <<sched, shutting_down, fresh>>
    BY <1>3, <2>5 DEF Pop
  <2> QED BY <2>2, <2>7, <2>8 DEF atomic!TakeNext, hold, fresh
<1>4. ASSUME NEW w \in Workers, Sleep(w) \/ SpuriousWake(w)
      PROVE  UNCHANGED <<sched, items, shutting_down, hold, fresh>>
  <2>1. /\ worker[w] \in {"lock", "wait"}
        /\ worker' = [worker EXCEPT ![w] = "wait"] \/ worker' = [worker EXCEPT ![w] = "lock"]
        /\ UNCHANGED <<sched, items, shutting_down, adm, req>>
    BY <1>4 DEF Sleep, SpuriousWake
  <2>2. ASSUME NEW v \in Workers PROVE HoldOf(v)' = HoldOf(v)
    BY <2>1, <2>2 DEF HoldOf, TypeOK
  <2> QED BY <2>1, <2>2, SameFresh DEF hold
<1>5. ASSUME NEW w \in Workers, PopNull(w) PROVE atomic!Leave(w)
  <2>1. hold[w] = "idle" /\ HoldOf(w)' = "gone"
    BY <1>5 DEF PopNull, hold, HoldOf, TypeOK
  <2>2. hold' = [hold EXCEPT ![w] = "gone"]
    BY <1>5, <2>1, HoldStep DEF PopNull, WorkerStates
  <2>3. fresh' = fresh
    BY <1>5, SameFresh DEF PopNull
  <2> QED BY <1>5, <2>1, <2>2, <2>3 DEF PopNull, atomic!Leave, hold, fresh
<1>6. ASSUME NEW w \in Workers, PushBack(w) PROVE atomic!Requeue(w)
  <2>1. hold[w] = req[w] /\ req[w] \in Requests /\ HoldOf(w)' = "idle"
    BY <1>6 DEF PushBack, hold, HoldOf, TypeOK, ServesRequest
  <2>2. hold' = [hold EXCEPT ![w] = "idle"]
    BY <1>6, <2>1, HoldStep DEF PushBack, WorkerStates, TypeOK
  <2>3. fresh' = fresh
    BY <1>6, SameFresh DEF PushBack
  <2> QED BY <1>6, <2>1, <2>2, <2>3 
          DEF PushBack, Bounded, atomic!Requeue, atomic!Bounded, hold, fresh
<1>7. ASSUME NEW w \in Workers, PushBackNotify(w)
      PROVE  UNCHANGED <<sched, items, shutting_down, hold, fresh>>
  <2>1. hold' = hold
    BY <1>7, NotifyHold DEF PushBackNotify, TypeOK, WorkerStates
  <2> QED BY <1>7, <2>1, SameFresh DEF PushBackNotify
<1>8. ASSUME NEW w \in Workers, Finish(w) PROVE atomic!Complete(w)
  <2>1. hold[w] = req[w] /\ req[w] \in Requests /\ HoldOf(w)' = "idle"
    BY <1>8 DEF Finish, hold, HoldOf, TypeOK, ServesRequest
  <2>2. hold' = [hold EXCEPT ![w] = "idle"]
    BY <1>8, <2>1, HoldStep DEF Finish, WorkerStates, TypeOK
  <2>3. fresh' = fresh
    BY <1>8, SameFresh DEF Finish
  <2> QED BY <1>8, <2>1, <2>2, <2>3 DEF Finish, atomic!Complete, hold, fresh
<1>9. CASE SetShutdown
  <2>1. ~shutting_down
    BY <1>9 DEF SetShutdown, FlagFollowsMain
  <2>2. hold' = hold
    BY <1>9 DEF SetShutdown, hold, HoldOf
  <2>3. atomic!Shutdown
    BY <1>9, <2>1, <2>2, SameFresh DEF SetShutdown, atomic!Shutdown, hold, fresh
  <2> QED BY <2>3 DEF atomic!Next
<1>10. CASE NotifyAll
  <2>1. ASSUME NEW v \in Workers PROVE HoldOf(v)' = HoldOf(v)
    BY <1>10, <2>1 DEF NotifyAll, Sleepers, WorkersAt, HoldOf, TypeOK
  <2> QED BY <1>10, <2>1, SameFresh DEF NotifyAll, hold
<1>11. CASE UNCHANGED vars
  <2>1. hold' = hold
    BY <1>11 DEF vars, hold, HoldOf
  <2> QED BY <1>11, <2>1, SameFresh DEF vars
<1> QED BY <1>1, <1>2, <1>3, <1>4, <1>5, <1>6, <1>7, <1>8, <1>9, <1>10, <1>11
        DEF Next, Admission, Worker, Main, atomic!Next, atomic!WorkerStep
(* Every behaviour of queue.h is a behaviour of the atomic queue: nothing  *)
(* is lost, duplicated or reordered, and nullptr is returned only when the *)
(* queue is empty and shut down (queue.h:14-43).                           *)
THEOREM QueueRefines == Spec => atomic!Spec
<1>1. Init => FlagFollowsMain
  BY DEF Init, FlagFollowsMain
<1> QED BY <1>1, QueueTypeInit, QueueTypeStep, FlagStep, RefineInit, RefineStep, PTL
        DEF Spec, atomic!Spec
=============================================================================
