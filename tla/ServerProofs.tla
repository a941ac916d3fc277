---------------------------- MODULE ServerProofs ----------------------------
(***************************************************************************)
(* Proofs about the scheduler's queue and about the threads that use it:   *)
(* admission, workers and the shutdown of the server, for any number of    *)
(* connections and workers and for every policy.                           *)
(***************************************************************************)
EXTENDS Server, RoundRobin, SequenceTheorems, FiniteSetTheorems, WellFoundedInduction, TLAPS

(* Appending, index by index: what push_back does to items_.               *)
LEMMA AppendFacts ==
    ASSUME NEW S, NEW s \in Seq(S), NEW e \in S
    PROVE  /\ Append(s, e) \in Seq(S)
           /\ Len(Append(s, e)) = Len(s) + 1
           /\ DOMAIN Append(s, e) = 1 .. Len(s) + 1
           /\ \A j \in 1 .. Len(s) : Append(s, e)[j] = s[j]
           /\ Append(s, e)[Len(s) + 1] = e
  OBVIOUS

(* Removing, index by index: what erase does to items_.                    *)
LEMMA RemoveAtFacts ==
    ASSUME NEW S, NEW s \in Seq(S), NEW i \in 1 .. Len(s)
    PROVE  /\ RemoveAt(s, i) \in Seq(S)
           /\ Len(RemoveAt(s, i)) = Len(s) - 1
           /\ DOMAIN RemoveAt(s, i) = 1 .. Len(s) - 1
           /\ \A j \in 1 .. Len(s) - 1 :
                 RemoveAt(s, i)[j] = IF j < i THEN s[j] ELSE s[j + 1]
<1> DEFINE a == SubSeq(s, 1, i - 1)
           b == SubSeq(s, i + 1, Len(s))
<1>0. Len(s) \in Nat /\ \A k \in 1 .. Len(s) : s[k] \in S
  BY LenProperties, ElementOfSeq
<1>1. /\ a \in Seq(S) /\ Len(a) = i - 1
      /\ \A j \in 1 .. i - 1 : a[j] = s[j]
  <2>1. \A k \in 1 .. i - 1 : s[k] \in S
    BY <1>0
  <2>2. /\ a \in Seq(S)
        /\ Len(a) = IF 1 <= i - 1 THEN (i - 1) - 1 + 1 ELSE 0
        /\ \A j \in 1 .. (i - 1) - 1 + 1 : a[j] = s[1 + j - 1]
    BY <2>1, <1>0, SubSeqProperties
  <2> QED BY <2>2, <1>0
<1>2. /\ b \in Seq(S) /\ Len(b) = Len(s) - i
      /\ \A j \in 1 .. Len(s) - i : b[j] = s[i + j]
  <2>1. \A k \in i + 1 .. Len(s) : s[k] \in S
    BY <1>0
  <2>2. /\ b \in Seq(S)
        /\ Len(b) = IF i + 1 <= Len(s) THEN Len(s) - (i + 1) + 1 ELSE 0
        /\ \A j \in 1 .. Len(s) - (i + 1) + 1 : b[j] = s[(i + 1) + j - 1]
    BY <2>1, <1>0, SubSeqProperties
  <2> QED BY <2>2, <1>0
<1>3. /\ a \o b \in Seq(S)
      /\ Len(a \o b) = Len(a) + Len(b)
      /\ \A j \in 1 .. Len(a) + Len(b) :
            (a \o b)[j] = IF j <= Len(a) THEN a[j] ELSE b[j - Len(a)]
  BY <1>1, <1>2, ConcatProperties
<1>4. RemoveAt(s, i) = a \o b
  BY DEF RemoveAt
<1>5. DOMAIN (a \o b) = 1 .. Len(a \o b)
  BY <1>3, LenProperties
<1> HIDE DEF a, b
<1>6. \A j \in 1 .. Len(s) - 1 : (a \o b)[j] = IF j < i THEN s[j] ELSE s[j + 1]
  <2> SUFFICES ASSUME NEW j \in 1 .. Len(s) - 1
               PROVE  (a \o b)[j] = IF j < i THEN s[j] ELSE s[j + 1]
    OBVIOUS
  <2>0. i \in Int /\ j \in Int /\ j \in 1 .. Len(a) + Len(b)
    BY <1>0, <1>1, <1>2
  <2>1. CASE j < i
    BY <2>0, <2>1, <1>0, <1>1, <1>2, <1>3
  <2>2. CASE ~(j < i)
    <3>1. (a \o b)[j] = b[j - (i - 1)]
      BY <2>0, <2>2, <1>1, <1>3
    <3>2. j - (i - 1) \in 1 .. Len(s) - i /\ i + (j - (i - 1)) = j + 1
      BY <2>0, <2>2, <1>0
    <3> QED BY <3>1, <3>2, <2>2, <1>2
  <2> QED BY <2>1, <2>2
<1> QED BY <1>0, <1>1, <1>2, <1>3, <1>4, <1>5, <1>6

(* The same as a map from the positions that remain to those before.       *)
LEMMA RemoveAtSource ==
    ASSUME NEW S, NEW s \in Seq(S), NEW i \in 1 .. Len(s)
    PROVE  \E k \in [1 .. Len(s) - 1 -> 1 .. Len(s)] :
              /\ \A j \in 1 .. Len(s) - 1 : RemoveAt(s, i)[j] = s[k[j]] /\ k[j] # i
              /\ \A j, l \in 1 .. Len(s) - 1 : j < l => k[j] < k[l]
<1> DEFINE k == [j \in 1 .. Len(s) - 1 |-> IF j < i THEN j ELSE j + 1]
<1>0. Len(s) \in Nat
  BY LenProperties
<1>1. k \in [1 .. Len(s) - 1 -> 1 .. Len(s)]
  BY <1>0
<1>2. \A j \in 1 .. Len(s) - 1 : RemoveAt(s, i)[j] = s[k[j]] /\ k[j] # i
  BY <1>0, RemoveAtFacts
<1>3. \A j, l \in 1 .. Len(s) - 1 : j < l => k[j] < k[l]
  BY <1>0
<1> QED BY <1>1, <1>2, <1>3

(* One owner per element: s is a queue of elements of R, h says what each  *)
(* of W holds, and f has the elements that have had no owner yet.          *)
Owned(R, W, s, h, f) ==
    /\ \A i, j \in DOMAIN s : s[i] = s[j] => i = j
    /\ \A v, w \in W : h[v] = h[w] /\ h[v] \in R => v = w
    /\ \A i \in DOMAIN s : \A w \in W : h[w] # s[i]
    /\ \A r \in f : (\A w \in W : h[w] # r) /\ (\A i \in DOMAIN s : s[i] # r)

(* A fresh element joins the queue.                                        *)
LEMMA OwnedJoin ==
    ASSUME NEW R, NEW W, NEW s \in Seq(R), NEW h, NEW f, NEW r \in f, r \in R,
           Owned(R, W, s, h, f)
    PROVE  Owned(R, W, Append(s, r), h, f \ {r})
<1> DEFINE t == Append(s, r)
<1>1. /\ Len(s) \in Nat /\ DOMAIN s = 1 .. Len(s)
      /\ DOMAIN t = 1 .. Len(s) + 1
      /\ \A j \in DOMAIN s : t[j] = s[j]
      /\ t[Len(s) + 1] = r
  BY AppendFacts, LenProperties
<1> HIDE DEF t
<1>2. \A j \in DOMAIN t :
         (j \in DOMAIN s /\ t[j] = s[j]) \/ (j = Len(s) + 1 /\ t[j] = r)
  BY <1>1
<1>3. Owned(R, W, t, h, f \ {r})
  BY <1>2 DEF Owned
<1> QED BY <1>3 DEF t

(* Somebody takes the element at a position.                               *)
LEMMA OwnedTake ==
    ASSUME NEW R, NEW W, NEW s \in Seq(R), NEW h, NEW f, NEW i \in DOMAIN s, NEW w \in W,
           DOMAIN h = W, Owned(R, W, s, h, f)
    PROVE  Owned(R, W, RemoveAt(s, i), [h EXCEPT ![w] = s[i]], f)
<1> DEFINE t == RemoveAt(s, i)
           g == [h EXCEPT ![w] = s[i]]
           Left == 1 .. Len(s) - 1
<1>1. Len(s) \in Nat /\ DOMAIN s = 1 .. Len(s) /\ i \in 1 .. Len(s) /\ s[i] \in R
  BY LenProperties, ElementOfSeq
<1>2. DOMAIN t = Left
  BY <1>1, RemoveAtFacts
<1>3. \E k \in [Left -> 1 .. Len(s)] :
         /\ \A j \in Left : RemoveAt(s, i)[j] = s[k[j]] /\ k[j] # i
         /\ \A j, l \in Left : j < l => k[j] < k[l]
  BY <1>1, RemoveAtSource
<1>4. PICK k \in [Left -> 1 .. Len(s)] :
         /\ \A j \in Left : t[j] = s[k[j]] /\ k[j] # i
         /\ \A j, l \in Left : j < l => k[j] < k[l]
  BY <1>3
<1>5. \A j, l \in Left : k[j] = k[l] => j = l
  <2>1. ASSUME NEW j \in Left, NEW l \in Left, k[j] = k[l] PROVE j = l
    <3>1. k[j] \in 1 .. Len(s) /\ k[l] \in 1 .. Len(s)
      OBVIOUS
    <3>2. ~ (k[j] < k[l]) /\ ~ (k[l] < k[j])
      BY <1>1, <2>1, <3>1
    <3> QED BY <1>1, <1>4, <3>2
  <2> QED BY <2>1
<1>6. \A v \in W : g[v] = IF v = w THEN s[i] ELSE h[v]
  OBVIOUS
<1> HIDE DEF t, g, Left
<1>7. /\ \A j \in DOMAIN t : k[j] \in DOMAIN s /\ t[j] = s[k[j]] /\ t[j] # s[i]
      /\ \A j, l \in DOMAIN t : k[j] = k[l] => j = l
  BY <1>1, <1>2, <1>4, <1>5 DEF Owned
<1>8. \A v \in W : h[v] # s[i]
  BY DEF Owned
<1>9. \A j, l \in DOMAIN t : t[j] = t[l] => j = l
  BY <1>7 DEF Owned
<1>10. \A v, u \in W : g[v] = g[u] /\ g[v] \in R => v = u
  BY <1>6, <1>8 DEF Owned
<1>11. \A j \in DOMAIN t : \A v \in W : g[v] # t[j]
  BY <1>6, <1>7 DEF Owned
<1>12. \A r \in f : (\A v \in W : g[v] # r) /\ (\A j \in DOMAIN t : t[j] # r)
  BY <1>6, <1>7 DEF Owned
<1>13. Owned(R, W, t, g, f)
  BY <1>9, <1>10, <1>11, <1>12 DEF Owned
<1> QED BY <1>13 DEF t, g

(* Somebody lets go of what it holds.                                      *)
LEMMA OwnedDrop ==
    ASSUME NEW R, NEW W, NEW s \in Seq(R), NEW h, NEW f, NEW w \in W, NEW none,
           DOMAIN h = W, none \notin R, f \subseteq R, Owned(R, W, s, h, f)
    PROVE  Owned(R, W, s, [h EXCEPT ![w] = none], f)
<1>1. \A i \in DOMAIN s : s[i] \in R
  BY LenProperties, ElementOfSeq
<1> QED BY <1>1 DEF Owned

(* Somebody puts what it holds back into the queue.                        *)
LEMMA OwnedReturn ==
    ASSUME NEW R, NEW W, NEW s \in Seq(R), NEW h, NEW f, NEW w \in W, NEW none,
           DOMAIN h = W, h[w] \in R, none \notin R, f \subseteq R, Owned(R, W, s, h, f)
    PROVE  Owned(R, W, Append(s, h[w]), [h EXCEPT ![w] = none], f)
<1> DEFINE g == [h EXCEPT ![w] = none]
           only == f \cup {h[w]}
<1>1. Owned(R, W, s, g, f)
  BY OwnedDrop
<1>2. \A v \in W : g[v] # h[w]
  BY DEF Owned
<1>3. \A i \in DOMAIN s : s[i] # h[w]
  BY DEF Owned
<1> HIDE DEF g
<1>4. Owned(R, W, s, g, only)
  BY <1>1, <1>2, <1>3 DEF Owned
<1>5. Owned(R, W, Append(s, h[w]), g, only \ {h[w]})
  BY <1>4, OwnedJoin
<1>6. only \ {h[w]} = f
  BY DEF Owned
<1> QED BY <1>5, <1>6 DEF g

USE SchedsAssumption, BytesAssumption, HoldAssumption, ServerAssumption

(* The queue by itself comes first, and with it the queue that remembers   *)
(* who overtook whom.                                                      *)

(* The queue starts empty.                                                 *)
LEMMA QueueInit ==
    Init => TypeOK /\ SingleOwner /\ GoneAfterShutdown /\ NothingLeftBehind
<1> SUFFICES ASSUME Init
             PROVE  TypeOK /\ SingleOwner /\ GoneAfterShutdown /\ NothingLeftBehind
  OBVIOUS
<1> USE DEF Init
<1>1. TypeOK
  BY EmptySeq DEF TypeOK
<1>2. SingleOwner
  BY DEF SingleOwner, QueuedOnce, HeldOnce, QueuedNotHeld,
     FreshUnowned
<1> QED BY <1>1, <1>2 DEF GoneAfterShutdown, NothingLeftBehind

(* The operations of the queue keep its types and its one owner per        *)
(* request.                                                                *)
LEMMA QueueTypeStep == TypeOK /\ [Next]_vars => TypeOK'
<1> SUFFICES ASSUME TypeOK, [Next]_vars PROVE TypeOK'
  OBVIOUS
<1> USE DEF TypeOK
<1>1. ASSUME NEW c \in Requests, Enqueue(c) PROVE TypeOK'
  BY <1>1, AppendFacts DEF Enqueue
<1>2. ASSUME NEW w \in Workers, TakeNext(w) PROVE TypeOK'
  <2>1. PICK i \in DOMAIN items :
           /\ hold' = [hold EXCEPT ![w] = items[i]]
           /\ items' = RemoveAt(items, i)
    BY <1>2 DEF TakeNext, RemoveAt
  <2>2. i \in 1 .. Len(items)
    BY <2>1, LenProperties
  <2>3. items[i] \in Requests /\ items' \in Seq(Requests)
    BY <2>1, <2>2, ElementOfSeq, RemoveAtFacts
  <2> QED BY <1>2, <2>1, <2>3 DEF TakeNext
<1>3. ASSUME NEW w \in Workers, Leave(w) \/ Complete(w) PROVE TypeOK'
  BY <1>3 DEF Leave, Complete
<1>4. ASSUME NEW w \in Workers, Requeue(w) PROVE TypeOK'
  BY <1>4, AppendFacts DEF Requeue
<1>5. CASE Shutdown
  BY <1>5 DEF Shutdown
<1>6. CASE UNCHANGED vars
  BY <1>6 DEF vars
<1> QED BY <1>1, <1>2, <1>3, <1>4, <1>5, <1>6 DEF Next, WorkerStep

(* One owner, by the lemmas about queues and hands.                        *)
LEMMA QueueOwnerStep ==
    TypeOK /\ SingleOwner /\ [Next]_vars => SingleOwner'
<1> SUFFICES ASSUME TypeOK, SingleOwner, [Next]_vars
             PROVE  SingleOwner'
  OBVIOUS
<1> DEFINE Own(s, h, f) == Owned(Requests, Workers, s, h, f)
<1>1. Own(items, hold, fresh)
  BY DEF SingleOwner, QueuedOnce, HeldOnce, QueuedNotHeld,
     FreshUnowned, Owned
<1>2. SUFFICES Own(items', hold', fresh')
  BY DEF SingleOwner, QueuedOnce, HeldOnce, QueuedNotHeld,
     FreshUnowned, Owned
<1>3. /\ items \in Seq(Requests) /\ fresh \subseteq Requests /\ DOMAIN hold = Workers
      /\ Idle \notin Requests /\ Gone \notin Requests
  BY DEF TypeOK
<1>4. ASSUME NEW c \in Requests, Enqueue(c) PROVE Own(items', hold', fresh')
  BY <1>1, <1>3, <1>4, OwnedJoin DEF Enqueue
<1>5. ASSUME NEW w \in Workers, TakeNext(w) PROVE Own(items', hold', fresh')
  <2>1. PICK i \in DOMAIN items :
           /\ hold' = [hold EXCEPT ![w] = items[i]]
           /\ items' = RemoveAt(items, i)
    BY <1>5 DEF TakeNext, RemoveAt
  <2>2. Own(RemoveAt(items, i), [hold EXCEPT ![w] = items[i]], fresh)
    BY <1>1, <1>3, OwnedTake
  <2> QED BY <1>5, <2>1, <2>2 DEF TakeNext
<1>6. ASSUME NEW w \in Workers, Leave(w) \/ Complete(w)
      PROVE  Own(items', hold', fresh')
  <2>1. /\ Own(items, [hold EXCEPT ![w] = Gone], fresh)
        /\ Own(items, [hold EXCEPT ![w] = Idle], fresh)
    BY <1>1, <1>3, OwnedDrop
  <2> QED BY <1>6, <2>1 DEF Leave, Complete
<1>7. ASSUME NEW w \in Workers, Requeue(w) PROVE Own(items', hold', fresh')
  <2>1. Own(Append(items, hold[w]), [hold EXCEPT ![w] = Idle], fresh)
    BY <1>1, <1>3, <1>7, OwnedReturn DEF Requeue
  <2> QED BY <1>7, <2>1 DEF Requeue
<1>8. CASE Shutdown \/ UNCHANGED vars
  BY <1>1, <1>8 DEF Shutdown, vars
<1> QED BY <1>4, <1>5, <1>6, <1>7, <1>8 DEF Next, WorkerStep

(* Nobody leaves a queue behind.                                           *)
LEMMA QueueLeaveStep ==
    TypeOK /\ GoneAfterShutdown /\ NothingLeftBehind
        /\ [Next]_vars
        => GoneAfterShutdown' /\ NothingLeftBehind'
<1> SUFFICES ASSUME TypeOK, GoneAfterShutdown, NothingLeftBehind,
                    [Next]_vars
             PROVE  GoneAfterShutdown' /\ NothingLeftBehind'
  OBVIOUS
<1> USE DEF TypeOK, GoneAfterShutdown, NothingLeftBehind
<1>1. ASSUME NEW c \in Requests, ~shutting_down, Enqueue(c)
      PROVE  GoneAfterShutdown' /\ NothingLeftBehind'
  BY <1>1 DEF Enqueue
<1>2. ASSUME NEW w \in Workers, TakeNext(w)
      PROVE  GoneAfterShutdown' /\ NothingLeftBehind'
  <2>1. hold'[w] \in Requests /\ \A v \in Workers : v # w => hold'[v] = hold[v]
    BY <1>2, LenProperties, ElementOfSeq DEF TakeNext
  <2> QED BY <1>2, <2>1 DEF TakeNext
<1>3. ASSUME NEW w \in Workers, Leave(w)
      PROVE  GoneAfterShutdown' /\ NothingLeftBehind'
  BY <1>3 DEF Leave
<1>4. ASSUME NEW w \in Workers, Requeue(w) \/ Complete(w)
      PROVE  GoneAfterShutdown' /\ NothingLeftBehind'
  <2>1. hold'[w] = Idle /\ \A v \in Workers : v # w => hold'[v] = hold[v]
    BY <1>4 DEF Requeue, Complete
  <2> QED BY <1>4, <2>1 DEF Requeue, Complete
<1>5. CASE Shutdown \/ UNCHANGED vars
  BY <1>5 DEF Shutdown, vars
<1> QED BY <1>1, <1>2, <1>3, <1>4, <1>5 DEF Next, WorkerStep

(* The queue holds requests, and a worker holds a request or nothing       *)
(* (queue.h:12-50, main.cpp:249-263).                                      *)
THEOREM QueueTypeCorrect == Spec => []TypeOK
<1> QED BY QueueInit, QueueTypeStep, PTL DEF Spec

(* No request is ever in two places (main.cpp:260-274).                    *)
THEOREM OneOwner == Spec => []SingleOwner
<1> QED BY QueueInit, QueueTypeStep, QueueOwnerStep, PTL DEF Spec

(* main may delete the scheduler once the workers are joined               *)
(* (main.cpp:326-334).                                                     *)
THEOREM EmptyAtTheEnd == Spec => []NothingLeftBehind
<1> QED BY QueueInit, QueueTypeStep, QueueLeaveStep, PTL DEF Spec
-----------------------------------------------------------------------------
(* SchedulerSjf's loop.  First(q, n, i): i is the first of the smallest    *)
(* among the first n requests of q, what the loop holds after n of them.   *)
First(q, n, i) ==
    /\ i \in 1 .. n
    /\ \A j \in 1 .. n : Bytes[q[i]] <= Bytes[q[j]]
    /\ \A j \in 1 .. i - 1 : Bytes[q[i]] < Bytes[q[j]]

(* The sizes compared are numbers.                                         *)
LEMMA BytesOfQueued ==
    ASSUME NEW q \in Seq(Requests), NEW j \in 1 .. Len(q)
    PROVE  Bytes[q[j]] \in Nat
<1>1. q[j] \in Requests
  BY LenProperties, ElementOfSeq
<1> QED BY <1>1, BytesAssumption

(* Only one place is the first of the smallest.                            *)
LEMMA FirstIsOne ==
    ASSUME NEW q \in Seq(Requests), NEW n \in 1 .. Len(q), NEW i, NEW k,
           First(q, n, i), First(q, n, k)
    PROVE  i = k
<1>0. Len(q) \in Nat
  BY LenProperties
<1>1. i \in 1 .. n /\ k \in 1 .. n /\ i \in 1 .. Len(q) /\ k \in 1 .. Len(q)
  BY <1>0 DEF First
<1>2. Bytes[q[i]] \in Nat /\ Bytes[q[k]] \in Nat
  BY <1>1, BytesOfQueued
<1>3. Bytes[q[i]] <= Bytes[q[k]] /\ Bytes[q[k]] <= Bytes[q[i]]
  BY <1>1 DEF First
<1>4. ~ (i < k)
  <2> SUFFICES ASSUME i < k PROVE FALSE
    OBVIOUS
  <2>1. i \in 1 .. k - 1
    BY <1>1
  <2>2. Bytes[q[k]] < Bytes[q[i]]
    BY <2>1 DEF First
  <2> QED BY <1>2, <1>3, <2>2
<1>5. ~ (k < i)
  <2> SUFFICES ASSUME k < i PROVE FALSE
    OBVIOUS
  <2>1. k \in 1 .. i - 1
    BY <1>1
  <2>2. Bytes[q[i]] < Bytes[q[k]]
    BY <2>1 DEF First
  <2> QED BY <1>2, <1>3, <2>2
<1> QED BY <1>1, <1>4, <1>5

(* One round of the loop keeps it so.                                      *)
LEMMA FirstStep ==
    ASSUME NEW q \in Seq(Requests), NEW n \in 2 .. Len(q), NEW b, First(q, n - 1, b)
    PROVE  First(q, n, IF Bytes[q[n]] < Bytes[q[b]] THEN n ELSE b)
<1>0. Len(q) \in Nat /\ n \in 1 .. Len(q)
  BY LenProperties
<1>1. b \in 1 .. n - 1 /\ b \in 1 .. Len(q) /\ b \in 1 .. n
  BY <1>0 DEF First
<1>2. \A j \in 1 .. n : Bytes[q[j]] \in Nat
  <2> SUFFICES ASSUME NEW j \in 1 .. n PROVE Bytes[q[j]] \in Nat
    OBVIOUS
  <2>1. j \in 1 .. Len(q)
    BY <1>0
  <2> QED BY <2>1, BytesOfQueued
<1>3. Bytes[q[n]] \in Nat /\ Bytes[q[b]] \in Nat
  BY <1>0, <1>1, <1>2
<1>4. \A j \in 1 .. n - 1 : Bytes[q[b]] <= Bytes[q[j]] /\ Bytes[q[j]] \in Nat
  BY <1>0, <1>2 DEF First
<1>5. CASE Bytes[q[n]] < Bytes[q[b]]
  <2>1. \A j \in 1 .. n - 1 : Bytes[q[n]] < Bytes[q[j]]
    BY <1>3, <1>4, <1>5
  <2>2. ASSUME NEW j \in 1 .. n PROVE Bytes[q[n]] <= Bytes[q[j]]
    <3>1. CASE j = n
      BY <1>3, <3>1
    <3>2. CASE j # n
      <4>1. j \in 1 .. n - 1
        BY <1>0, <3>2
      <4> QED BY <4>1, <2>1, <1>3, <1>4
    <3> QED BY <3>1, <3>2
  <2>3. n \in 1 .. n
    BY <1>0
  <2>4. First(q, n, n)
    BY <2>1, <2>2, <2>3 DEF First
  <2> QED BY <1>5, <2>4
<1>6. CASE ~ (Bytes[q[n]] < Bytes[q[b]])
  <2>1. ASSUME NEW j \in 1 .. n PROVE Bytes[q[b]] <= Bytes[q[j]]
    <3>1. CASE j = n
      BY <1>3, <1>6, <3>1
    <3>2. CASE j # n
      <4>1. j \in 1 .. n - 1
        BY <1>0, <3>2
      <4> QED BY <4>1, <1>4
    <3> QED BY <3>1, <3>2
  <2>2. First(q, n, b)
    BY <1>1, <2>1 DEF First
  <2> QED BY <1>6, <2>2
<1> QED BY <1>5, <1>6

(* 0 .. n by induction; what is shown of the numbers is given as a set.    *)
Less == {p \in Nat \X Nat : p[1] < p[2]}

LEMMA UpTo ==
    ASSUME NEW n \in Nat, NEW Good, 0 \in Good,
           \A k \in 0 .. n - 1 : k \in Good => k + 1 \in Good
    PROVE  \A k \in 0 .. n : k \in Good
<1> DEFINE Bad == {k \in 0 .. n : k \notin Good}
<1> SUFFICES ASSUME Bad # {} PROVE FALSE
  OBVIOUS
<1>1. Bad \in SUBSET Nat
  OBVIOUS
<1>2. PICK m \in Bad : \A k \in Bad : <<k, m>> \notin Less
  <2>1. IsWellFoundedOn(Less, Nat)
    BY NatLessThanWellFounded DEF OpToRel, Less
  <2> QED BY <1>1, <2>1, WFMin
<1>3. m \in 1 .. n /\ m \notin Good /\ m - 1 \in 0 .. n - 1 /\ m - 1 \in 0 .. n
  BY <1>2
<1>4. <<m - 1, m>> \in Less
  BY <1>3 DEF Less
<1>5. m - 1 \in Good
  BY <1>2, <1>3, <1>4
<1>6. (m - 1) + 1 \in Good
  BY <1>3, <1>5
<1>7. (m - 1) + 1 = m
  BY <1>3
<1> QED BY <1>3, <1>6, <1>7

(* The loop's equations have a solution, and so define the loop.           *)
LEMMA SjfLoop ==
    ASSUME NEW q \in Seq(Requests), q # << >>
    PROVE  \E h : /\ SjfPick(q) = h[Len(q)]
                  /\ h[1] = 1
                  /\ \A n \in 2 .. Len(q) :
                        h[n] = IF Bytes[q[n]] < Bytes[q[h[n - 1]]] THEN n ELSE h[n - 1]
<1> DEFINE N == Len(q)
           Def(f) == f = [n \in 1 .. N |->
                            IF n = 1 THEN 1
                            ELSE LET b == f[n - 1]
                                 IN  IF Bytes[q[n]] < Bytes[q[b]] THEN n ELSE b]
           g == [n \in 1 .. N |-> CHOOSE i : First(q, n, i)]
           h == CHOOSE f : Def(f)
           Good == {k \in Nat : \E i : First(q, k + 1, i)}
<1>0. N \in Nat /\ N - 1 \in Nat /\ 1 \in 1 .. N
  BY LenProperties, EmptySeq
<1>1. First(q, 1, 1)
  <2>1. Bytes[q[1]] \in Nat
    BY <1>0, BytesOfQueued
  <2> QED BY <2>1 DEF First
<1>2. \A k \in 0 .. N - 1 : k \in Good
  <2>1. 0 \in Good
    BY <1>1
  <2>2. ASSUME NEW k \in 0 .. (N - 1) - 1, k \in Good PROVE k + 1 \in Good
    <3>1. PICK b : First(q, k + 1, b)
      BY <2>2
    <3>2. k + 2 \in 2 .. Len(q) /\ (k + 2) - 1 = k + 1 /\ (k + 1) + 1 = k + 2 /\ k + 1 \in Nat
      BY <1>0
    <3>3. \E i : First(q, k + 2, i)
      BY <3>1, <3>2, FirstStep
    <3> QED BY <3>2, <3>3
  <2> HIDE DEF Good, N
  <2> QED BY <1>0, <2>1, <2>2, UpTo
<1>3. \A n \in 1 .. N : First(q, n, g[n])
  <2> SUFFICES ASSUME NEW n \in 1 .. N PROVE First(q, n, g[n])
    OBVIOUS
  <2>1. n - 1 \in 0 .. N - 1 /\ (n - 1) + 1 = n
    BY <1>0
  <2>2. n - 1 \in Good
    <3> HIDE DEF Good, N
    <3> QED BY <1>2, <2>1
  <2>3. \E i : First(q, n, i)
    BY <2>1, <2>2
  <2>4. g[n] = CHOOSE i : First(q, n, i)
    OBVIOUS
  <2> HIDE DEF g
  <2> QED BY <2>3, <2>4
<1>4. g[1] = 1
  <2>1. First(q, 1, g[1])
    BY <1>0, <1>3
  <2> HIDE DEF g
  <2> QED BY <2>1 DEF First
<1>5. ASSUME NEW n \in 1 .. N, n # 1
      PROVE  g[n] = IF Bytes[q[n]] < Bytes[q[g[n - 1]]] THEN n ELSE g[n - 1]
  <2>1. n \in 2 .. Len(q) /\ n - 1 \in 1 .. N /\ n \in 1 .. Len(q)
    BY <1>0, <1>5
  <2>2. First(q, n - 1, g[n - 1]) /\ First(q, n, g[n])
    BY <1>3, <2>1
  <2> HIDE DEF g
  <2>3. First(q, n, IF Bytes[q[n]] < Bytes[q[g[n - 1]]] THEN n ELSE g[n - 1])
    BY <2>1, <2>2, FirstStep
  <2> QED BY <2>1, <2>2, <2>3, FirstIsOne
<1>6. Def(g)
  <2>1. \A n \in 1 .. N : g[n] = IF n = 1 THEN 1
                                 ELSE LET b == g[n - 1]
                                      IN  IF Bytes[q[n]] < Bytes[q[b]] THEN n ELSE b
    <3> HIDE DEF g
    <3> QED BY <1>4, <1>5
  <2>2. g = [n \in 1 .. N |-> g[n]]
    OBVIOUS
  <2> HIDE DEF g
  <2> QED BY <2>1, <2>2
<1>7. Def(h)
  <2> HIDE DEF Def, g
  <2> QED BY <1>6
<1>8. SjfPick(q) = h[N]
  BY DEF SjfPick
<1> HIDE DEF h
<1>9. h[1] = 1
  BY <1>0, <1>7
<1>10. ASSUME NEW n \in 2 .. N
       PROVE  h[n] = IF Bytes[q[n]] < Bytes[q[h[n - 1]]] THEN n ELSE h[n - 1]
  <2>1. n \in 1 .. N /\ n # 1
    BY <1>0
  <2> QED BY <1>7, <2>1
<1> QED BY <1>8, <1>9, <1>10

(* The loop of SchedulerSjf::next, for a queue of any length: the index it *)
(* returns lies in the queue and is that of the first of the smallest      *)
(* requests, and of no other.                                              *)
THEOREM SjfPicksSmallest ==
    ASSUME NEW q \in Seq(Requests), q # << >>
    PROVE  /\ SmallestFirst(q, SjfPick(q))
           /\ \A i : SmallestFirst(q, i) => i = SjfPick(q)
<1>1. PICK h : /\ SjfPick(q) = h[Len(q)]
               /\ h[1] = 1
               /\ \A n \in 2 .. Len(q) :
                     h[n] = IF Bytes[q[n]] < Bytes[q[h[n - 1]]] THEN n ELSE h[n - 1]
  BY SjfLoop
<1> DEFINE N == Len(q)
           Good == {k \in Nat : First(q, k + 1, h[k + 1])}
<1>0. /\ N \in Nat /\ N - 1 \in Nat /\ 1 \in 1 .. N /\ N \in 1 .. N /\ N - 1 \in 0 .. N - 1
      /\ (N - 1) + 1 = N /\ DOMAIN q = 1 .. N
  BY LenProperties, EmptySeq
<1>2. \A k \in 0 .. N - 1 : k \in Good
  <2>1. 0 \in Good
    <3>1. Bytes[q[1]] \in Nat
      BY <1>0, BytesOfQueued
    <3>2. First(q, 1, 1)
      BY <3>1 DEF First
    <3> QED BY <1>1, <3>2
  <2>2. ASSUME NEW k \in 0 .. (N - 1) - 1, k \in Good PROVE k + 1 \in Good
    <3>1. First(q, k + 1, h[k + 1])
      BY <2>2
    <3>2. k + 2 \in 2 .. Len(q) /\ (k + 2) - 1 = k + 1 /\ (k + 1) + 1 = k + 2 /\ k + 1 \in Nat
      BY <1>0
    <3>3. First(q, k + 2, IF Bytes[q[k + 2]] < Bytes[q[h[k + 1]]] THEN k + 2 ELSE h[k + 1])
      BY <3>1, <3>2, FirstStep
    <3>4. h[k + 2] = IF Bytes[q[k + 2]] < Bytes[q[h[k + 1]]] THEN k + 2 ELSE h[k + 1]
      BY <1>1, <3>2
    <3> QED BY <3>2, <3>3, <3>4
  <2> HIDE DEF Good, N
  <2> QED BY <1>0, <2>1, <2>2, UpTo
<1>3. First(q, N, SjfPick(q))
  <2>1. N - 1 \in Good
    <3> HIDE DEF Good, N
    <3> QED BY <1>0, <1>2
  <2> QED BY <1>0, <1>1, <2>1
<1>4. \A i : SmallestFirst(q, i) => First(q, N, i)
  BY <1>0 DEF SmallestFirst, First
<1>5. SmallestFirst(q, SjfPick(q))
  BY <1>0, <1>3 DEF SmallestFirst, First
<1> QED BY <1>0, <1>3, <1>4, <1>5, FirstIsOne

(* What each policy hands out: next() always finds a request in a queue    *)
(* that is not empty, under sjf a smallest of those that wait, and the     *)
(* one that waited longest among the smallest.                             *)
TakesWhatPolicySays ==
    \A w \in Workers :
        hold'[w] \in Requests /\ hold'[w] # hold[w] =>
            \E i \in DOMAIN items :
                /\ hold'[w] = items[i]
                /\ IF sched = "sjf" THEN SmallestFirst(items, i) ELSE i = 1

(* next() under every policy, in every behaviour of the queue.             *)
THEOREM PolicyObeyed == Spec => [][TakesWhatPolicySays]_vars
<1>1. ASSUME TypeOK, [Next]_vars PROVE [TakesWhatPolicySays]_vars
  <2>1. CASE UNCHANGED vars
    BY <2>1
  <2>2. CASE Next
    <3>1. ASSUME NEW w \in Workers, hold'[w] \in Requests, hold'[w] # hold[w]
          PROVE  \E i \in DOMAIN items :
                    /\ hold'[w] = items[i]
                    /\ IF sched = "sjf" THEN SmallestFirst(items, i) ELSE i = 1
      <4>1. Idle \notin Requests /\ Gone \notin Requests
        BY HoldAssumption
      <4>2. PICK v \in Workers : TakeNext(v)
        BY <1>1, <2>2, <3>1, <4>1 DEF Next, WorkerStep, Enqueue, Leave, Requeue, Complete, Shutdown, TypeOK
      <4>3. PICK i \in DOMAIN items :
               Picks(sched, items, i) /\ hold' = [hold EXCEPT ![v] = items[i]]
        BY <4>2 DEF TakeNext
      <4>4. hold'[w] = items[i]
        BY <1>1, <3>1, <4>3, <4>1 DEF TypeOK
      <4>5. items \in Seq(Requests) /\ items # << >>
        BY <1>1, <4>3, LenProperties, EmptySeq DEF TypeOK
      <4>6. IF sched = "sjf" THEN SmallestFirst(items, i) ELSE i = 1
        BY <4>3, <4>5, SjfPicksSmallest DEF Picks
      <4> QED BY <4>4, <4>6
    <3> QED BY <3>1 DEF TakesWhatPolicySays
  <2> QED BY <1>1, <2>1, <2>2
<1> QED BY <1>1, QueueTypeCorrect, PTL DEF Spec
-----------------------------------------------------------------------------
(* The history variable observes the queue and does not restrict it.       *)
LEMMA HistoryStep == [RRNext]_rrVars => [Next]_vars
<1> QED BY DEF RRNext, RREnqueue, RRRequeue, RRTake, rrVars, Next, WorkerStep, vars

RRTypeOK == TypeOK /\ passed \in [Requests -> SUBSET Requests]

(* The history keeps its type as well.                                     *)
LEMMA HistoryType == RRTypeOK /\ [RRNext]_rrVars => RRTypeOK'
<1> SUFFICES ASSUME RRTypeOK, [RRNext]_rrVars PROVE RRTypeOK'
  OBVIOUS
<1>1. TypeOK'
  BY HistoryStep, QueueTypeStep DEF RRTypeOK
<1>2. passed' \in [Requests -> SUBSET Requests]
  <2> USE DEF RRTypeOK
  <2>1. ASSUME NEW w \in Workers, RRTake(w) PROVE passed' \in [Requests -> SUBSET Requests]
    <3>1. hold'[w] \in Requests
      BY <2>1, LenProperties, ElementOfSeq DEF RRTake, TakeNext, TypeOK
    <3> QED BY <2>1, <3>1 DEF RRTake
  <2>2. ASSUME NEW r \in Requests, RREnqueue(r) PROVE passed' \in [Requests -> SUBSET Requests]
    BY <2>2 DEF RREnqueue
  <2>3. ASSUME NEW w \in Workers, RRRequeue(w) PROVE passed' \in [Requests -> SUBSET Requests]
    BY <2>3 DEF RRRequeue
  <2> QED BY <2>1, <2>2, <2>3 DEF RRNext, rrVars
<1> QED BY <1>1, <1>2 DEF RRTypeOK

(* Under fcfs, rr and drr the request taken is the first one.              *)
LEMMA TakesFirst ==
    ASSUME RRTypeOK, sched # "sjf", NEW w \in Workers, RRTake(w)
    PROVE  /\ items # << >> /\ Len(items) >= 1
           /\ hold' = [hold EXCEPT ![w] = items[1]]
           /\ items' = RemoveAt(items, 1)
           /\ passed' = [y \in Requests |-> passed[y] \cup {items[1]}]
           /\ sched' = sched
<1>1. PICK i \in DOMAIN items :
         /\ Picks(sched, items, i)
         /\ hold' = [hold EXCEPT ![w] = items[i]]
         /\ items' = RemoveAt(items, i)
  BY DEF RRTake, TakeNext, RemoveAt
<1>2. i = 1
  BY <1>1 DEF Picks
<1>3. Len(items) >= 1 /\ items # << >>
  BY <1>1, <1>2, LenProperties DEF RRTypeOK, TypeOK
<1>4. hold'[w] = items[1]
  BY <1>1, <1>2 DEF RRTypeOK, TypeOK
<1> QED BY <1>1, <1>2, <1>3, <1>4 DEF RRTake, TakeNext

(* Requests join behind all others, and the one taken was ahead of all     *)
(* those it overtakes.                                                     *)
LEMMA OrderStep ==
    RRTypeOK /\ SingleOwner /\ AheadHasNotPassed /\ [RRNext]_rrVars
        => AheadHasNotPassed'
<1> SUFFICES ASSUME RRTypeOK, SingleOwner, AheadHasNotPassed, [RRNext]_rrVars,
                    sched' # "sjf"
             PROVE  \A i, j \in DOMAIN items' :
                       i < j => items'[i] \notin passed'[items'[j]]
  BY DEF AheadHasNotPassed
<1>0. /\ sched' = sched
      /\ \A i, j \in DOMAIN items : i < j => items[i] \notin passed[items[j]]
  <2>1. sched' = sched
    BY HistoryStep DEF vars, Next, WorkerStep, Enqueue, TakeNext,
                       Leave, Requeue, Complete, Shutdown
  <2> QED BY <2>1 DEF AheadHasNotPassed
<1>1. /\ Len(items) \in Nat /\ DOMAIN items = 1 .. Len(items)
      /\ items \in Seq(Requests)
      /\ \A j \in DOMAIN items : items[j] \in Requests
  BY LenProperties, ElementOfSeq DEF RRTypeOK, TypeOK
<1>2. ASSUME NEW r \in Requests, items' = Append(items, r),
             \A j \in DOMAIN items : items[j] # r,
             passed' = [passed EXCEPT ![r] = {}]
      PROVE  \A i, j \in DOMAIN items' :
                i < j => items'[i] \notin passed'[items'[j]]
  <2>1. /\ DOMAIN items' = 1 .. Len(items) + 1
        /\ \A j \in DOMAIN items : items'[j] = items[j]
        /\ items'[Len(items) + 1] = r
    BY <1>1, <1>2, AppendFacts
  <2>2. passed'[r] = {} /\ \A y \in Requests : y # r => passed'[y] = passed[y]
    BY <1>2 DEF RRTypeOK
  <2>3. ASSUME NEW i \in DOMAIN items', NEW j \in DOMAIN items', i < j
        PROVE  items'[i] \notin passed'[items'[j]]
    <3>1. CASE j = Len(items) + 1
      BY <2>1, <2>2, <3>1
    <3>2. CASE j # Len(items) + 1
      <4>1. i \in DOMAIN items /\ j \in DOMAIN items
        BY <1>1, <2>1, <2>3, <3>2
      <4>2. items'[i] = items[i] /\ items'[j] = items[j] /\ items[j] # r
        BY <1>2, <2>1, <4>1
      <4>3. passed'[items[j]] = passed[items[j]]
        BY <1>1, <2>2, <4>1, <4>2
      <4> QED BY <1>0, <2>3, <4>1, <4>2, <4>3
    <3> QED BY <3>1, <3>2
  <2> QED BY <2>3
<1>3. ASSUME NEW r \in Requests, RREnqueue(r)
      PROVE  \A i, j \in DOMAIN items' :
                i < j => items'[i] \notin passed'[items'[j]]
  <2>1. \A j \in DOMAIN items : items[j] # r
    BY <1>3 DEF RREnqueue, Enqueue, SingleOwner, FreshUnowned
  <2> QED BY <1>2, <1>3, <2>1 DEF RREnqueue, Enqueue
<1>4. ASSUME NEW w \in Workers, RRRequeue(w)
      PROVE  \A i, j \in DOMAIN items' :
                i < j => items'[i] \notin passed'[items'[j]]
  <2>1. hold[w] \in Requests /\ \A j \in DOMAIN items : items[j] # hold[w]
    BY <1>4 DEF RRRequeue, Requeue, SingleOwner, QueuedNotHeld
  <2> QED BY <1>2, <1>4, <2>1 DEF RRRequeue, Requeue
<1>5. ASSUME NEW w \in Workers, RRTake(w)
      PROVE  \A i, j \in DOMAIN items' :
                i < j => items'[i] \notin passed'[items'[j]]
  <2>1. /\ Len(items) >= 1 /\ items' = RemoveAt(items, 1)
        /\ passed' = [y \in Requests |-> passed[y] \cup {items[1]}]
    BY <1>0, <1>5, TakesFirst
  <2>2. 1 \in 1 .. Len(items)
    BY <1>1, <2>1
  <2>3. /\ DOMAIN items' = 1 .. Len(items) - 1
        /\ \A j \in 1 .. Len(items) - 1 :
              items'[j] = IF j < 1 THEN items[j] ELSE items[j + 1]
    BY <1>1, <2>1, <2>2, RemoveAtFacts
  <2>4. ASSUME NEW i \in DOMAIN items', NEW j \in DOMAIN items', i < j
        PROVE  items'[i] \notin passed'[items'[j]]
    <3>1. /\ i + 1 \in DOMAIN items /\ j + 1 \in DOMAIN items /\ 1 \in DOMAIN items
          /\ i + 1 < j + 1 /\ i + 1 # 1
          /\ items'[i] = items[i + 1] /\ items'[j] = items[j + 1]
      BY <1>1, <2>2, <2>3, <2>4
    <3>2. items[i + 1] # items[1]
      BY <3>1 DEF SingleOwner, QueuedOnce
    <3>3. passed'[items[j + 1]] = passed[items[j + 1]] \cup {items[1]}
      BY <1>1, <2>1, <3>1
    <3>4. items[i + 1] \notin passed[items[j + 1]]
      BY <1>0, <3>1
    <3> QED BY <3>1, <3>2, <3>3, <3>4
  <2> QED BY <2>4
<1>6. CASE UNCHANGED <<items, passed>>
  BY <1>0, <1>6
<1> QED BY <1>3, <1>4, <1>5, <1>6
        DEF RRNext, rrVars, vars, Leave, Complete, Shutdown

(* rr and drr go round (scheduler_rr.cpp:10-18, main.cpp:261): a request   *)
(* that goes on waiting is never overtaken twice by the same request.      *)
THEOREM RoundRobinOrder == RRSpec => NoSecondOvertake
<1> DEFINE RRInv == RRTypeOK /\ SingleOwner /\ AheadHasNotPassed
<1>1. RRInit => RRInv
  BY QueueInit DEF RRInit, Init, RRTypeOK, AheadHasNotPassed
<1>2. RRInv /\ [RRNext]_rrVars => RRInv'
  BY HistoryStep, HistoryType, QueueOwnerStep, OrderStep DEF RRTypeOK
<1>3. RRInv /\ [RRNext]_rrVars =>
         [sched # "sjf" =>
            \A w \in Workers : \A y \in Waiting \cap ToSet(items') :
               (hold[w] = Idle /\ hold'[w] \in Requests) => hold'[w] \notin passed[y]]_rrVars
  <2> SUFFICES ASSUME RRInv, RRNext, sched # "sjf",
                      NEW w \in Workers, NEW y \in Waiting \cap ToSet(items'),
                      hold[w] = Idle, hold'[w] \in Requests
               PROVE  hold'[w] \notin passed[y]
    OBVIOUS
  <2>1. Idle \notin Requests
    OBVIOUS
  <2>2. RRTake(w)
    BY <2>1 DEF RRNext, RRTake, RREnqueue, RRRequeue, Enqueue, TakeNext, Leave, Requeue,
                Complete, Shutdown, RRTypeOK, TypeOK
  <2>3. /\ Len(items) >= 1 /\ items' = RemoveAt(items, 1)
        /\ hold' = [hold EXCEPT ![w] = items[1]]
    BY <2>2, TakesFirst
  <2>4. /\ Len(items) \in Nat /\ DOMAIN items = 1 .. Len(items)
        /\ items \in Seq(Requests) /\ 1 \in 1 .. Len(items)
    BY <2>3, LenProperties DEF RRTypeOK, TypeOK
  <2>5. PICK j \in 1 .. Len(items) - 1 : y = items[j + 1]
    <3>1. /\ DOMAIN items' = 1 .. Len(items) - 1
          /\ \A j \in 1 .. Len(items) - 1 :
                items'[j] = IF j < 1 THEN items[j] ELSE items[j + 1]
      BY <2>3, <2>4, RemoveAtFacts
    <3>2. PICK j \in DOMAIN items' : y = items'[j]
      BY DEF ToSet
    <3> QED BY <2>4, <3>1, <3>2
  <2>6. j + 1 \in DOMAIN items /\ 1 \in DOMAIN items /\ 1 < j + 1
    BY <2>4
  <2>7. items[1] \notin passed[y]
    BY <2>5, <2>6 DEF AheadHasNotPassed
  <2>8. hold'[w] = items[1]
    BY <2>3 DEF RRTypeOK, TypeOK
  <2> QED BY <2>7, <2>8
<1> HIDE DEF RRInv
<1> QED BY <1>1, <1>2, <1>3, PTL DEF RRSpec, NoSecondOvertake
-----------------------------------------------------------------------------
(* Where everybody may be.                                                 *)
Untouched == {"none", "backlog", "accepted", "reading", "stamped"}
Admitting == {"reading", "stamped", "leaving"}
AtHand == {"count", "spawn", "busy"}

TypeInv ==
    /\ main \in {"polling", "shut_listener", "join_acceptor", "drain", "stop",
                 "join_workers", "exited"}
    /\ acceptor \in {"accept", "exited"} \cup AtHand
    /\ current \in Requests \cup {NoConn}
    /\ active \in Int
    /\ conn \in [Requests -> Untouched \cup {"leaving", "left"}]
    /\ closes \in [Requests -> Nat]
    /\ outcome \in [Requests -> {"none", "refused", "answered", "done", "failed"}]
    /\ worker \in [Workers -> {"next", "picked", "serve", "requeue", "record",
                               "release", "exited"}]
    /\ rows \subseteq Requests /\ served \in Nat

(* g_active_admissions counts the admission threads, and the one that is   *)
(* about to be started.  The acceptor has at most one connection in its    *)
(* hands, and that one has no thread yet.                                  *)
InAdmission == {c \in Requests : conn[c] \in Admitting}
AdmissionInv ==
    /\ active = Cardinality(InAdmission) + IF acceptor = "spawn" THEN 1 ELSE 0
    /\ acceptor \in AtHand => current \in Requests
    /\ \A c \in Requests : conn[c] = "accepted" <=> acceptor \in AtHand /\ current = c

(* How far main is in its shutdown sequence.  From "stop" on nobody admits *)
(* and nobody accepts, so nobody will.                                     *)
MainInv ==
    /\ main \in {"drain", "stop", "join_workers", "exited"} => acceptor = "exited"
    /\ main \in {"stop", "join_workers", "exited"} =>
          \A c \in Requests : conn[c] \notin Admitting
    /\ shutting_down <=> main \in {"join_workers", "exited"}
    /\ main = "exited" => \A w \in Workers : worker[w] = "exited"

(* The worker's place in its loop and what next() gave it.                 *)
QueueInv ==
    /\ TypeOK
    /\ SingleOwner
    /\ GoneAfterShutdown
    /\ NothingLeftBehind
    /\ \A w \in Workers : worker[w] = "next" <=> hold[w] = Idle
    /\ \A w \in Workers : worker[w] = "exited" <=> hold[w] = Gone

(* What has become of a connection, told from who owns it: nobody yet, an  *)
(* admission thread that has answered it itself, the queue, a worker, or   *)
(* nobody any more.                                                        *)
Open(c) == closes[c] = 0 /\ outcome[c] = "none" /\ c \notin rows
Answered(c) == closes[c] = 1 /\ outcome[c] \in {"refused", "answered"} /\ c \notin rows
Settled(c) ==
    \/ outcome[c] = "done" /\ c \in rows
    \/ outcome[c] = "failed" /\ c \notin rows
Loose(c) ==
    /\ c \notin fresh
    /\ \A i \in DOMAIN items : items[i] # c
    /\ \A w \in Workers : hold[w] # c

FreshInv == \A c \in fresh : IF conn[c] \in Untouched THEN Open(c) ELSE Answered(c)
QueuedInv == \A i \in DOMAIN items : Open(items[i])
HeldInv ==
    \A w \in Workers :
        /\ worker[w] \in {"picked", "serve", "requeue"} => Open(hold[w])
        /\ worker[w] = "record" =>
              closes[hold[w]] = 0 /\ outcome[hold[w]] = "done" /\ hold[w] \notin rows
        /\ worker[w] = "release" => closes[hold[w]] = 0 /\ Settled(hold[w])
LooseInv == \A c \in Requests : Loose(c) => closes[c] = 1 /\ Settled(c)
TicketInv ==
    /\ \A c \in Requests : conn[c] \in Untouched => c \in fresh
    /\ FreshInv /\ QueuedInv /\ HeldInv /\ LooseInv
    /\ IsFiniteSet(rows) /\ served = Cardinality(rows)

IInv == TypeInv /\ AdmissionInv /\ MainInv /\ QueueInv /\ TicketInv
(* A worker between next() calls holds a connection's request.             *)
LEMMA HoldsConn ==
    ASSUME TypeInv, QueueInv, NEW w \in Workers, worker[w] \notin {"next", "exited"}
    PROVE  hold[w] \in Requests
  BY DEF TypeInv, QueueInv, TypeOK
-----------------------------------------------------------------------------
(* The initial state.                                                      *)
LEMMA InitInv == ServerInit => IInv
<1> SUFFICES ASSUME ServerInit PROVE IInv
  OBVIOUS
<1> USE DEF ServerInit
<1>1. TypeInv
  BY DEF TypeInv, Untouched, AtHand
<1>2. AdmissionInv
  <2>1. InAdmission = {}
    BY DEF InAdmission, Admitting
  <2> QED BY <2>1, FS_EmptySet DEF AdmissionInv, AtHand
<1>3. MainInv
  BY DEF Init, MainInv
<1>4. QueueInv
  BY QueueInit DEF QueueInv, Init
<1>5. TicketInv
  BY FS_EmptySet DEF Init, TicketInv, FreshInv, QueuedInv, HeldInv, LooseInv, Loose, Open, Untouched
<1> QED BY <1>1, <1>2, <1>3, <1>4, <1>5 DEF IInv
-----------------------------------------------------------------------------
(* Types.                                                                  *)
LEMMA TypeStep == TypeInv /\ AdmissionInv /\ QueueInv /\ [ServerNext]_serverVars => TypeInv'
<1> SUFFICES ASSUME TypeInv, AdmissionInv, QueueInv, [ServerNext]_serverVars PROVE TypeInv'
  OBVIOUS
<1> USE DEF TypeInv, mainVars, acceptVars, resultVars, Untouched, AtHand
<1>1. ASSUME NEW c \in Requests, Connect(c) PROVE TypeInv'
  BY <1>1 DEF Connect
<1>2. ASSUME NEW c \in Requests, Accept(c) PROVE TypeInv'
  BY <1>2 DEF Accept
<1>3. CASE AcceptFails \/ CountAdmission \/ SpawnFails \/ Signal
  BY <1>3 DEF AcceptFails, CountAdmission, SpawnFails, Signal
<1>4. CASE Spawn
  BY <1>4 DEF Spawn
<1>5. CASE RefuseBusy
  <2>1. current \in Requests
    BY <1>5 DEF RefuseBusy, AdmissionInv
  <2> QED BY <1>5, <2>1 DEF RefuseBusy, CloseWith
<1>6. ASSUME NEW c \in Requests, Refuse(c) PROVE TypeInv'
  BY <1>6 DEF Refuse, CloseWith
<1>7. ASSUME NEW c \in Requests, Health(c) PROVE TypeInv'
  BY <1>7 DEF Health, CloseWith
<1>8. ASSUME NEW c \in Requests, FileNotFound(c) PROVE TypeInv'
  BY <1>8 DEF FileNotFound, CloseWith
<1>9. ASSUME NEW c \in Requests, StampArrival(c) PROVE TypeInv'
  BY <1>9 DEF StampArrival
<1>10. ASSUME NEW c \in Requests, Admit(c) PROVE TypeInv'
  BY <1>10 DEF Admit
<1>11. ASSUME NEW c \in Requests, LeaveAdmission(c) PROVE TypeInv'
  BY <1>11 DEF LeaveAdmission
<1>12. ASSUME NEW w \in Workers, PickUp(w) \/ StampStart(w) \/ SlicePreempted(w) PROVE TypeInv'
  BY <1>12 DEF PickUp, StampStart, SlicePreempted
<1>13. ASSUME NEW w \in Workers, SliceDone(w) \/ SliceFailed(w) PROVE TypeInv'
  BY <1>13 DEF SliceDone, SliceFailed
<1>14. ASSUME NEW w \in Workers, PutBack(w) \/ LeaveWorker(w) PROVE TypeInv'
  BY <1>14 DEF PutBack, LeaveWorker
<1>15. ASSUME NEW w \in Workers, Record(w) PROVE TypeInv'
  <2>1. hold[w] \in Requests
    BY <1>15, HoldsConn DEF Record
  <2> QED BY <1>15, <2>1 DEF Record
<1>16. ASSUME NEW w \in Workers, Release(w) PROVE TypeInv'
  BY <1>16 DEF Release, Complete
<1>17. CASE Main
  BY <1>17 DEF Main, MainStep, SeeShutdown, ShutListener, JoinAcceptor, Drain, StopScheduler,
     JoinWorkers
<1>18. CASE UNCHANGED serverVars
  BY <1>18 DEF serverVars
<1> QED BY <1>1, <1>2, <1>3, <1>4, <1>5, <1>6, <1>7, <1>8, <1>9, <1>10, <1>11, <1>12, <1>13,
           <1>14, <1>15, <1>16, <1>17, <1>18
        DEF ServerNext, Admission, AcceptorStep, WorkerThread
-----------------------------------------------------------------------------
(* The count of the admissions.                                            *)
LEMMA AdmissionStep == TypeInv /\ AdmissionInv /\ [ServerNext]_serverVars => AdmissionInv'
<1> SUFFICES ASSUME TypeInv, AdmissionInv, [ServerNext]_serverVars PROVE AdmissionInv'
  OBVIOUS
<1> USE DEF mainVars, acceptVars, resultVars, vars
<1>0. /\ IsFiniteSet(InAdmission) /\ Cardinality(InAdmission) \in Nat /\ active \in Int
      /\ conn \in [Requests -> Untouched \cup {"leaving", "left"}]
      /\ acceptor \in {"accept", "exited"} \cup AtHand
  <2>1. InAdmission \subseteq Requests
    BY DEF InAdmission
  <2> QED BY <2>1, FS_Subset, FS_CardinalityType DEF TypeInv
<1>1. ASSUME UNCHANGED <<acceptVars, active, conn>> PROVE AdmissionInv'
  BY <1>1 DEF AdmissionInv, InAdmission
<1>2. ASSUME NEW c \in Requests, Connect(c) \/ Accept(c) PROVE AdmissionInv'
  <2>1. InAdmission' = InAdmission
    BY <1>0, <1>2 DEF Connect, Accept, InAdmission, Admitting
  <2> QED BY <1>0, <1>2, <2>1 DEF Connect, Accept, AdmissionInv, AtHand
<1>3. CASE AcceptFails \/ CountAdmission \/ SpawnFails
  <2>1. InAdmission' = InAdmission
    BY <1>3 DEF AcceptFails, CountAdmission, SpawnFails, InAdmission
  <2> QED BY <1>0, <1>3, <2>1 DEF AcceptFails, CountAdmission, SpawnFails, AdmissionInv, AtHand
<1>4. CASE Spawn
  <2>1. current \in Requests /\ conn[current] = "accepted"
    BY <1>4 DEF Spawn, AdmissionInv, AtHand
  <2>2. InAdmission' = InAdmission \cup {current} /\ current \notin InAdmission
    BY <1>0, <1>4, <2>1 DEF Spawn, InAdmission, Admitting
  <2>3. Cardinality(InAdmission') = Cardinality(InAdmission) + 1
    BY <1>0, <2>2, FS_AddElement
  <2> QED BY <1>0, <1>4, <2>1, <2>3 DEF Spawn, AdmissionInv, AtHand
<1>5. CASE RefuseBusy
  <2>1. current \in Requests /\ conn[current] = "accepted"
    BY <1>5 DEF RefuseBusy, AdmissionInv, AtHand
  <2>2. InAdmission' = InAdmission
    BY <1>0, <1>5, <2>1 DEF RefuseBusy, InAdmission, Admitting
  <2> QED BY <1>0, <1>5, <2>1, <2>2 DEF RefuseBusy, AdmissionInv, AtHand
<1>6. ASSUME NEW c \in Requests,
             Refuse(c) \/ Health(c) \/ StampArrival(c) \/ FileNotFound(c) \/ Admit(c)
      PROVE  AdmissionInv'
  <2> USE DEF Refuse, Health, StampArrival, FileNotFound, Admit
  <2>1. InAdmission' = InAdmission
    BY <1>0, <1>6 DEF InAdmission, Admitting
  <2> QED BY <1>0, <1>6, <2>1 DEF AdmissionInv
<1>7. ASSUME NEW c \in Requests, LeaveAdmission(c) PROVE AdmissionInv'
  <2>1. InAdmission' = InAdmission \ {c} /\ c \in InAdmission
    BY <1>0, <1>7 DEF LeaveAdmission, InAdmission, Admitting
  <2>2. Cardinality(InAdmission') = Cardinality(InAdmission) - 1
    BY <1>0, <2>1, FS_RemoveElement
  <2> QED BY <1>0, <1>7, <2>2 DEF LeaveAdmission, AdmissionInv
<1>8. ASSUME NEW w \in Workers, PickUp(w) \/ WorkerThread(w) \/ LeaveWorker(w)
      PROVE  AdmissionInv'
  BY <1>1, <1>8 DEF PickUp, WorkerThread, StampStart, SlicePreempted, SliceDone, SliceFailed,
     PutBack, Record, Release, LeaveWorker
<1>9. CASE Signal \/ Main
  BY <1>1, <1>9 DEF Signal, Main, MainStep, SeeShutdown, ShutListener, JoinAcceptor, Drain,
     StopScheduler, JoinWorkers
<1>10. CASE UNCHANGED serverVars
  BY <1>1, <1>10 DEF serverVars
<1> QED BY <1>2, <1>3, <1>4, <1>5, <1>6, <1>7, <1>8, <1>9, <1>10
        DEF ServerNext, Admission, AcceptorStep
-----------------------------------------------------------------------------
(* The server keeps to the contract of its queue: whatever it does is an   *)
(* operation of WorkQueue, and no request is enqueued after shutdown.      *)
LEMMA QueueContract ==
    MainInv /\ [ServerNext]_serverVars => [Next]_vars
<1> SUFFICES ASSUME MainInv, [ServerNext]_serverVars PROVE [Next]_vars
  OBVIOUS
<1>1. ASSUME UNCHANGED vars PROVE UNCHANGED vars
  BY <1>1 DEF vars
<1>2. ASSUME NEW c \in Requests, Admit(c) PROVE Next
  <2>1. ~shutting_down
    BY <1>2 DEF Admit, MainInv, Admitting
  <2> QED BY <1>2, <2>1 DEF Admit, Next
<1>3. ASSUME NEW c \in Requests, Connect(c) \/ Accept(c) \/ Admission(c), ~Admit(c)
      PROVE  UNCHANGED vars
  BY <1>3 DEF Connect, Accept, Admission, Refuse, Health, StampArrival, FileNotFound, LeaveAdmission
<1>4. ASSUME NEW w \in Workers, PickUp(w) \/ PutBack(w) \/ Release(w) \/ LeaveWorker(w)
      PROVE  Next
  BY <1>4 DEF PickUp, PutBack, Release, LeaveWorker, Next, WorkerStep
<1>5. ASSUME NEW w \in Workers,
             StampStart(w) \/ SlicePreempted(w) \/ SliceDone(w) \/ SliceFailed(w) \/ Record(w)
      PROVE  UNCHANGED vars
  BY <1>5 DEF StampStart, SlicePreempted, SliceDone, SliceFailed, Record
<1>6. CASE StopScheduler
  BY <1>6 DEF StopScheduler, Next
<1>7. ASSUME Signal \/ AcceptFails \/ AcceptorStep \/ (Main /\ ~StopScheduler)
      PROVE  UNCHANGED vars
  BY <1>7 DEF Signal, AcceptFails, AcceptorStep, CountAdmission, Spawn, SpawnFails, RefuseBusy,
     Main, MainStep, SeeShutdown, ShutListener, JoinAcceptor, Drain, JoinWorkers
<1>8. ASSUME UNCHANGED serverVars PROVE UNCHANGED vars
  BY <1>8 DEF serverVars
<1> QED BY <1>1, <1>2, <1>3, <1>4, <1>5, <1>6, <1>7, <1>8 DEF ServerNext, Admission, WorkerThread

(* The queue as the server's threads use it.                               *)
LEMMA QueueStep == TypeInv /\ MainInv /\ QueueInv /\ [ServerNext]_serverVars => QueueInv'
<1> SUFFICES ASSUME TypeInv, MainInv, QueueInv, [ServerNext]_serverVars PROVE QueueInv'
  OBVIOUS
<1> DEFINE InStep == /\ \A w \in Workers : worker[w] = "next" <=> hold[w] = Idle
                     /\ \A w \in Workers : worker[w] = "exited" <=> hold[w] = Gone
<1>0. TypeOK /\ SingleOwner /\ GoneAfterShutdown /\ NothingLeftBehind
  BY DEF QueueInv
<1>1. /\ TypeOK' /\ SingleOwner'
      /\ GoneAfterShutdown' /\ NothingLeftBehind'
  BY <1>0, QueueContract, QueueTypeStep, QueueOwnerStep, QueueLeaveStep
<1>2. InStep'
  <2>0. /\ InStep /\ DOMAIN worker = Workers /\ DOMAIN hold = Workers
        /\ Idle # Gone /\ Idle \notin Requests /\ Gone \notin Requests
    BY DEF QueueInv, TypeInv, TypeOK
  <2>1. ASSUME worker' = worker, hold' = hold PROVE InStep'
    BY <2>0, <2>1
  <2>2. ASSUME NEW w \in Workers, PickUp(w) PROVE InStep'
    <3>1. PICK i \in DOMAIN items : hold' = [hold EXCEPT ![w] = items[i]]
      BY <2>2 DEF PickUp, TakeNext
    <3>2. items[i] \in Requests
      BY <1>0, <3>1, LenProperties, ElementOfSeq DEF TypeOK
    <3> QED BY <2>0, <2>2, <3>1, <3>2 DEF PickUp
  <2>3. ASSUME NEW w \in Workers, LeaveWorker(w) PROVE InStep'
    BY <2>0, <2>3 DEF LeaveWorker, Leave
  <2>4. ASSUME NEW w \in Workers, PutBack(w) \/ Release(w) PROVE InStep'
    BY <2>0, <2>4 DEF PutBack, Release, Requeue, Complete
  <2>5. ASSUME NEW w \in Workers,
               StampStart(w) \/ SlicePreempted(w) \/ SliceDone(w) \/ SliceFailed(w) \/ Record(w)
        PROVE  InStep'
    BY <2>0, <2>5 DEF StampStart, SlicePreempted, SliceDone, SliceFailed, Record, vars
  <2>6. ASSUME NEW c \in Requests, Connect(c) \/ Accept(c) \/ Admission(c)
        PROVE  worker' = worker /\ hold' = hold
    BY <2>6 DEF Connect, Accept, Admission, Refuse, Health, StampArrival, FileNotFound, Admit,
       LeaveAdmission, Enqueue, vars
  <2>7. ASSUME Signal \/ AcceptFails \/ AcceptorStep \/ Main \/ UNCHANGED serverVars
        PROVE  worker' = worker /\ hold' = hold
    BY <2>7 DEF Signal, AcceptFails, AcceptorStep, CountAdmission, Spawn, SpawnFails, RefuseBusy,
       Main, MainStep, SeeShutdown, ShutListener, JoinAcceptor, Drain, StopScheduler, JoinWorkers,
       Shutdown, serverVars, vars
  <2> QED BY <2>1, <2>2, <2>3, <2>4, <2>5, <2>6, <2>7 DEF ServerNext, WorkerThread
<1> QED BY <1>1, <1>2 DEF QueueInv
-----------------------------------------------------------------------------
(* The shutdown sequence.                                                  *)
LEMMA ShutdownStep == TypeInv /\ AdmissionInv /\ MainInv /\ [ServerNext]_serverVars => MainInv'
<1> SUFFICES ASSUME TypeInv, AdmissionInv, MainInv, [ServerNext]_serverVars PROVE MainInv'
  OBVIOUS
<1> USE DEF mainVars, acceptVars, vars
<1>1. ASSUME NEW c \in Requests, Connect(c) PROVE MainInv'
  BY <1>1 DEF Connect, MainInv, TypeInv, Admitting
<1>2. ASSUME NEW c \in Requests, Accept(c) PROVE MainInv'
  BY <1>2 DEF Accept, MainInv
<1>3. CASE Signal \/ AcceptFails
  BY <1>3 DEF Signal, AcceptFails, MainInv
<1>4. CASE AcceptorStep
  BY <1>4 DEF AcceptorStep, CountAdmission, Spawn, SpawnFails, RefuseBusy, MainInv
<1>5. ASSUME NEW c \in Requests, Admission(c) PROVE MainInv'
  <2>1. conn[c] \in Admitting /\ UNCHANGED <<main, acceptor, worker, shutting_down>>
    BY <1>5 DEF Admission, Refuse, Health, StampArrival, FileNotFound, Admit, LeaveAdmission,
       Admitting, Enqueue
  <2> QED BY <2>1 DEF MainInv
<1>6. ASSUME NEW w \in Workers, PickUp(w) \/ WorkerThread(w) \/ LeaveWorker(w) PROVE MainInv'
  <2>1. worker[w] # "exited" /\ UNCHANGED <<main, acceptor, conn, shutting_down>>
    BY <1>6 DEF PickUp, WorkerThread, StampStart, SlicePreempted, SliceDone, SliceFailed,
       PutBack, Record, Release, LeaveWorker, TakeNext, Requeue, Complete,
       Leave
  <2> QED BY <2>1 DEF MainInv
<1>7. CASE SeeShutdown \/ ShutListener \/ JoinAcceptor
  BY <1>7 DEF MainStep, SeeShutdown, ShutListener, JoinAcceptor, MainInv
<1>8. CASE Drain
  <2>1. acceptor = "exited" /\ active = 0
    BY <1>8 DEF Drain, MainStep, MainInv
  <2>2. InAdmission \subseteq Requests
    BY DEF InAdmission
  <2>3. IsFiniteSet(InAdmission) /\ Cardinality(InAdmission) \in Nat
    BY <2>2, FS_Subset, FS_CardinalityType
  <2>4. Cardinality(InAdmission) = 0
    BY <2>1, <2>3 DEF AdmissionInv
  <2>5. InAdmission = {}
    BY <2>3, <2>4, FS_EmptySet
  <2>6. \A c \in Requests : conn[c] \notin Admitting
    BY <2>5 DEF InAdmission
  <2> QED BY <1>8, <2>1, <2>6 DEF Drain, MainStep, MainInv
<1>9. CASE StopScheduler
  BY <1>9 DEF StopScheduler, MainStep, MainInv, Shutdown
<1>10. CASE JoinWorkers
  BY <1>10 DEF JoinWorkers, MainStep, MainInv
<1>11. CASE UNCHANGED serverVars
  BY <1>11 DEF serverVars, MainInv
<1> QED BY <1>1, <1>2, <1>3, <1>4, <1>5, <1>6, <1>7, <1>8, <1>9, <1>10, <1>11 DEF ServerNext, Main
-----------------------------------------------------------------------------
(* What becomes of a connection.  First the facts about who owns what.     *)
LEMMA OwnerFacts ==
    ASSUME TypeInv, QueueInv
    PROVE  /\ items \in Seq(Requests) /\ fresh \subseteq Requests
           /\ Len(items) \in Nat /\ DOMAIN items = 1 .. Len(items)
           /\ \A i \in DOMAIN items : items[i] \in Requests
           /\ DOMAIN hold = Workers /\ DOMAIN worker = Workers
           /\ \A w \in Workers : worker[w] \notin {"next", "exited"} => hold[w] \in Requests
           /\ \A v, w \in Workers : hold[v] = hold[w] /\ hold[v] \in Requests => v = w
           /\ \A i \in DOMAIN items : \A w \in Workers : hold[w] # items[i]
           /\ \A c \in fresh : \A w \in Workers : hold[w] # c
           /\ \A c \in fresh : \A i \in DOMAIN items : items[i] # c
           /\ Idle \notin Requests /\ Gone \notin Requests
<1>1. items \in Seq(Requests)
  BY DEF QueueInv, TypeOK
<1>2. /\ Len(items) \in Nat /\ DOMAIN items = 1 .. Len(items)
      /\ \A i \in DOMAIN items : items[i] \in Requests
  BY <1>1, LenProperties, ElementOfSeq
<1>3. \A w \in Workers : worker[w] \notin {"next", "exited"} => hold[w] \in Requests
  BY HoldsConn
<1> QED BY <1>1, <1>2, <1>3 DEF TypeInv, QueueInv, TypeOK, SingleOwner, HeldOnce,
        QueuedNotHeld, FreshUnowned

(* The steps before the request is in the queue.                           *)
LEMMA TicketConn ==
    ASSUME TypeInv, QueueInv, TicketInv, NEW c \in Requests, NEW to,
           conn' = [conn EXCEPT ![c] = to],
           \/ conn[c] \in Untouched /\ to \in Untouched
           \/ conn[c] \notin Untouched /\ to \notin Untouched,
           UNCHANGED <<closes, outcome, rows, served, worker, items, hold, fresh>>
    PROVE  TicketInv'
<1>1. \A d \in Requests : conn'[d] \in Untouched <=> conn[d] \in Untouched
  BY DEF TypeInv
<1>2. \A d \in Requests : conn'[d] \in Untouched => d \in fresh'
  BY <1>1 DEF TicketInv
<1>3. FreshInv'
  BY <1>1, OwnerFacts DEF TicketInv, FreshInv, Open, Answered
<1> QED BY <1>2, <1>3 DEF TicketInv, QueuedInv, HeldInv, LooseInv, Loose, Settled, Open

(* A connection is answered and closed by the acceptor or by its admission *)
(* thread.                                                                 *)
LEMMA TicketRefused ==
    ASSUME TypeInv, QueueInv, TicketInv, NEW c \in Requests, NEW to, NEW result,
           conn[c] \in Untouched, to \notin Untouched, result \in {"refused", "answered"},
           conn' = [conn EXCEPT ![c] = to], CloseWith(c, result),
           UNCHANGED <<rows, served, worker, items, hold, fresh>>
    PROVE  TicketInv'
<1>0. c \in fresh /\ Open(c)
  BY DEF TicketInv, FreshInv
<1>1. \A d \in Requests : d # c => conn'[d] = conn[d] /\ closes'[d] = closes[d] /\ outcome'[d] = outcome[d]
  BY DEF CloseWith, TypeInv
<1>2. conn'[c] = to /\ closes'[c] = 1 /\ outcome'[c] = result
  BY <1>0 DEF CloseWith, TypeInv, Open
<1>3. \A d \in Requests : conn'[d] \in Untouched => d \in fresh'
  BY <1>1, <1>2 DEF TicketInv
<1>4. FreshInv'
  BY <1>0, <1>1, <1>2, OwnerFacts DEF TicketInv, FreshInv, Open, Answered
<1>5. QueuedInv'
  BY <1>0, <1>1, OwnerFacts DEF TicketInv, QueuedInv, Open
<1>6. HeldInv'
  BY <1>0, <1>1, OwnerFacts DEF TicketInv, HeldInv, Open, Settled
<1>7. LooseInv'
  BY <1>0, <1>1 DEF TicketInv, LooseInv, Loose, Settled
<1> QED BY <1>3, <1>4, <1>5, <1>6, <1>7 DEF TicketInv

(* The request joins the queue, from its admission thread or from a        *)
(* worker, or the worker takes it.  The sockets are not touched.           *)
LEMMA TicketEnqueue ==
    ASSUME TypeInv, QueueInv, TicketInv, NEW c \in Requests, Admit(c)
    PROVE  TicketInv'
<1> USE DEF Admit, Enqueue, resultVars
<1>0. c \in fresh /\ Open(c)
  BY DEF TicketInv, FreshInv, Untouched
<1>1. /\ DOMAIN items' = 1 .. Len(items) + 1
      /\ \A j \in DOMAIN items : j \in DOMAIN items' /\ items'[j] = items[j]
      /\ Len(items) + 1 \in DOMAIN items' /\ items'[Len(items) + 1] = c
  BY OwnerFacts, AppendFacts
<1>2. \A j \in DOMAIN items' : (j \in DOMAIN items /\ items'[j] = items[j]) \/ items'[j] = c
  BY <1>1, OwnerFacts
<1>3. UNCHANGED <<closes, outcome, rows, served, worker, hold>> /\ fresh' = fresh \ {c}
  OBVIOUS
<1>4. \A d \in Requests : d # c => conn'[d] = conn[d]
  BY DEF TypeInv
<1>5. conn'[c] \notin Untouched
  BY DEF TypeInv, Untouched
<1> HIDE DEF Admit, Enqueue, resultVars
<1>6. \A d \in Requests : conn'[d] \in Untouched => d \in fresh'
  BY <1>3, <1>4, <1>5 DEF TicketInv
<1>7. FreshInv'
  BY <1>3, <1>4, OwnerFacts DEF TicketInv, FreshInv, Open, Answered
<1>8. QueuedInv'
  BY <1>0, <1>2, <1>3 DEF TicketInv, QueuedInv, Open
<1>9. HeldInv'
  BY <1>3 DEF TicketInv, HeldInv, Open, Settled
<1>10. LooseInv'
  <2>1. \A d \in Requests : Loose(d)' => Loose(d)
    BY <1>1, <1>3 DEF Loose
  <2> QED BY <1>3, <2>1 DEF TicketInv, LooseInv, Settled
<1> QED BY <1>3, <1>6, <1>7, <1>8, <1>9, <1>10 DEF TicketInv

LEMMA TicketTake ==
    ASSUME TypeInv, QueueInv, TicketInv, NEW w \in Workers, PickUp(w)
    PROVE  TicketInv'
<1>1. PICK i \in DOMAIN items :
         /\ hold' = [hold EXCEPT ![w] = items[i]]
         /\ items' = RemoveAt(items, i)
  BY DEF PickUp, TakeNext, RemoveAt
<1>2. /\ worker' = [worker EXCEPT ![w] = "picked"] /\ worker[w] = "next" /\ hold[w] = Idle
      /\ UNCHANGED <<closes, outcome, rows, served, conn, fresh>>
  BY DEF PickUp, TakeNext, resultVars
<1>3. /\ DOMAIN items' = 1 .. Len(items) - 1
      /\ \A j \in 1 .. Len(items) - 1 : items'[j] = IF j < i THEN items[j] ELSE items[j + 1]
  <2>1. items \in Seq(Requests) /\ i \in 1 .. Len(items)
    BY <1>1, OwnerFacts
  <2> QED BY <1>1, <2>1, RemoveAtFacts
<1>4. \A j \in DOMAIN items' : \E k \in DOMAIN items : items'[j] = items[k]
  <2>1. ASSUME NEW j \in DOMAIN items' PROVE \E k \in DOMAIN items : items'[j] = items[k]
    <3>1. j \in DOMAIN items /\ j + 1 \in DOMAIN items
      BY <1>3, <2>1, OwnerFacts
    <3> QED BY <1>3, <2>1, <3>1
  <2> QED BY <2>1
<1>5. \A k \in DOMAIN items : k # i => \E j \in DOMAIN items' : items'[j] = items[k]
  <2>1. ASSUME NEW k \in DOMAIN items, k # i
        PROVE  \E j \in DOMAIN items' : items'[j] = items[k]
    <3>0. i \in 1 .. Len(items) /\ k \in 1 .. Len(items) /\ Len(items) \in Nat
      BY <1>1, OwnerFacts
    <3>1. CASE k < i
      <4>1. k \in DOMAIN items' /\ items'[k] = items[k]
        BY <1>3, <3>0, <3>1
      <4> QED BY <4>1
    <3>2. CASE ~ (k < i)
      <4>1. k - 1 \in 1 .. Len(items) - 1 /\ ~ (k - 1 < i) /\ (k - 1) + 1 = k
        BY <2>1, <3>0, <3>2
      <4>2. k - 1 \in DOMAIN items' /\ items'[k - 1] = items[k]
        BY <1>3, <4>1
      <4> QED BY <4>2
    <3> QED BY <3>1, <3>2
  <2> QED BY <2>1
<1>6. /\ \A v \in Workers : v # w => hold'[v] = hold[v] /\ worker'[v] = worker[v]
      /\ hold'[w] = items[i] /\ worker'[w] = "picked"
  BY <1>1, <1>2, OwnerFacts
<1>7. FreshInv' /\ \A d \in Requests : conn'[d] \in Untouched => d \in fresh'
  BY <1>2 DEF TicketInv, FreshInv, Open, Answered
<1>8. QueuedInv'
  BY <1>2, <1>4 DEF TicketInv, QueuedInv, Open
<1>9. HeldInv'
  BY <1>1, <1>2, <1>6 DEF TicketInv, HeldInv, QueuedInv, Open, Settled
<1>10. LooseInv'
  <2>1. ASSUME NEW d \in Requests, Loose(d)' PROVE Loose(d)
    <3>1. d \notin fresh /\ (\A v \in Workers : hold'[v] # d) /\ (\A j \in DOMAIN items' : items'[j] # d)
      BY <1>2, <2>1 DEF Loose
    <3>2. \A k \in DOMAIN items : items[k] # d
      BY <1>5, <1>6, <3>1
    <3>3. \A v \in Workers : hold[v] # d
      BY <1>2, <1>6, <3>1, OwnerFacts
    <3> QED BY <3>1, <3>2, <3>3 DEF Loose
  <2> QED BY <1>2, <2>1 DEF TicketInv, LooseInv, Settled
<1> QED BY <1>2, <1>7, <1>8, <1>9, <1>10 DEF TicketInv

(* A worker moves on, or drops or returns its request, without a word to   *)
(* the client.                                                             *)
LEMMA TicketRequeue ==
    ASSUME TypeInv, QueueInv, TicketInv, NEW w \in Workers, PutBack(w)
    PROVE  TicketInv'
<1>1. /\ worker[w] = "requeue" /\ worker' = [worker EXCEPT ![w] = "next"]
      /\ hold[w] \in Requests /\ hold' = [hold EXCEPT ![w] = Idle]
      /\ items' = Append(items, hold[w])
      /\ UNCHANGED <<closes, outcome, rows, served, conn, fresh>>
  BY DEF PutBack, Requeue, resultVars
<1>2. /\ DOMAIN items' = 1 .. Len(items) + 1
      /\ \A j \in DOMAIN items : j \in DOMAIN items' /\ items'[j] = items[j]
      /\ Len(items) + 1 \in DOMAIN items' /\ items'[Len(items) + 1] = hold[w]
  BY <1>1, OwnerFacts, AppendFacts
<1>3. \A j \in DOMAIN items' : (j \in DOMAIN items /\ items'[j] = items[j]) \/ items'[j] = hold[w]
  BY <1>2, OwnerFacts
<1>4. /\ \A v \in Workers : v # w => hold'[v] = hold[v] /\ worker'[v] = worker[v]
      /\ worker'[w] = "next"
  BY <1>1, OwnerFacts
<1>5. Open(hold[w])
  BY <1>1 DEF TicketInv, HeldInv
<1>6. FreshInv' /\ \A d \in Requests : conn'[d] \in Untouched => d \in fresh'
  BY <1>1 DEF TicketInv, FreshInv, Open, Answered
<1>7. QueuedInv'
  BY <1>1, <1>3, <1>5 DEF TicketInv, QueuedInv, Open
<1>8. HeldInv'
  BY <1>1, <1>4 DEF TicketInv, HeldInv, Open, Settled
<1>9. LooseInv'
  <2>1. ASSUME NEW d \in Requests, Loose(d)' PROVE Loose(d)
    <3>1. d \notin fresh /\ (\A v \in Workers : hold'[v] # d) /\ (\A j \in DOMAIN items' : items'[j] # d)
      BY <1>1, <2>1 DEF Loose
    <3>2. \A k \in DOMAIN items : items[k] # d
      BY <1>2, <3>1
    <3>3. \A v \in Workers : hold[v] # d
      BY <1>2, <1>4, <3>1
    <3> QED BY <3>1, <3>2, <3>3 DEF Loose
  <2> QED BY <1>1, <2>1 DEF TicketInv, LooseInv, Settled
<1> QED BY <1>1, <1>6, <1>7, <1>8, <1>9 DEF TicketInv

LEMMA TicketMove ==
    ASSUME TypeInv, QueueInv, TicketInv, NEW w \in Workers,
           StampStart(w) \/ SlicePreempted(w) \/ LeaveWorker(w)
    PROVE  TicketInv'
<1>1. /\ UNCHANGED <<closes, outcome, rows, served, conn, fresh, items>>
      /\ \A v \in Workers : v # w => hold'[v] = hold[v] /\ worker'[v] = worker[v]
      /\ \/ hold'[w] = hold[w]
         \/ hold'[w] = Gone /\ hold[w] = Idle
      /\ \/ worker[w] \in {"picked", "serve"} /\ worker'[w] \in {"serve", "requeue"} /\ hold'[w] = hold[w]
         \/ worker'[w] = "exited"
  BY OwnerFacts DEF StampStart, SlicePreempted, LeaveWorker, Leave, resultVars, vars
<1>2. FreshInv' /\ QueuedInv' /\ \A d \in Requests : conn'[d] \in Untouched => d \in fresh'
  BY <1>1 DEF TicketInv, FreshInv, QueuedInv, Open, Answered
<1>3. HeldInv'
  BY <1>1 DEF TicketInv, HeldInv, Open, Settled
<1>4. LooseInv'
  <2>1. \A d \in Requests : Loose(d)' => Loose(d)
    BY <1>1, OwnerFacts DEF Loose
  <2> QED BY <1>1, <2>1 DEF TicketInv, LooseInv, Settled
<1> QED BY <1>1, <1>2, <1>3, <1>4 DEF TicketInv

(* The end of a request: the slice's verdict, the row, the close.          *)
LEMMA TicketVerdict ==
    ASSUME TypeInv, QueueInv, TicketInv, NEW w \in Workers,
           SliceDone(w) \/ SliceFailed(w) \/ Record(w)
    PROVE  TicketInv'
<1> DEFINE x == hold[w]
<1>0. x \in Requests
  BY OwnerFacts DEF SliceDone, SliceFailed, Record
<1>1. /\ UNCHANGED <<closes, conn, fresh, items, hold>>
      /\ \A v \in Workers : v # w => worker'[v] = worker[v]
      /\ \A d \in Requests : d # x => outcome'[d] = outcome[d] /\ (d \in rows' <=> d \in rows)
  BY OwnerFacts DEF SliceDone, SliceFailed, Record, vars, TypeInv
<1>2. \/ /\ worker[w] = "serve" /\ worker'[w] = "record" /\ outcome'[x] = "done"
         /\ rows' = rows /\ served' = served
      \/ /\ worker[w] = "serve" /\ worker'[w] = "release" /\ outcome'[x] = "failed"
         /\ rows' = rows /\ served' = served
      \/ /\ worker[w] = "record" /\ worker'[w] = "release" /\ outcome' = outcome
         /\ rows' = rows \cup {x} /\ served' = served + 1
  BY <1>0, OwnerFacts DEF SliceDone, SliceFailed, Record, TypeInv
<1>3. /\ worker[w] = "serve" => Open(x)
      /\ worker[w] = "record" => closes[x] = 0 /\ outcome[x] = "done" /\ x \notin rows
  BY DEF TicketInv, HeldInv
<1>4. /\ \A v \in Workers : v # w => hold[v] # x
      /\ \A i \in DOMAIN items : items[i] \in Requests /\ items[i] # x
      /\ \A c \in fresh : c \in Requests /\ c # x
  BY <1>0, OwnerFacts
<1>5. \A v \in Workers : worker[v] \notin {"next", "exited"} => hold[v] \in Requests
  BY OwnerFacts
<1> HIDE DEF x
<1>6. FreshInv' /\ \A d \in Requests : conn'[d] \in Untouched => d \in fresh'
  BY <1>1, <1>4 DEF TicketInv, FreshInv, Open, Answered
<1>7. QueuedInv'
  BY <1>1, <1>4 DEF TicketInv, QueuedInv, Open
<1>8. HeldInv'
  <2>1. ASSUME NEW v \in Workers, v # w
        PROVE  /\ worker'[v] \in {"picked", "serve", "requeue"} => Open(hold[v])'
               /\ worker'[v] = "record" =>
                     closes'[hold[v]] = 0 /\ outcome'[hold[v]] = "done" /\ hold[v] \notin rows'
               /\ worker'[v] = "release" => closes'[hold[v]] = 0 /\ Settled(hold[v])'
    BY <1>1, <1>4, <1>5, <2>1 DEF TicketInv, HeldInv, Open, Settled
  <2>2. /\ worker'[w] \notin {"picked", "serve", "requeue"}
        /\ worker'[w] = "record" =>
              closes'[hold[w]] = 0 /\ outcome'[hold[w]] = "done" /\ hold[w] \notin rows'
        /\ worker'[w] = "release" => closes'[hold[w]] = 0 /\ Settled(hold[w])'
    BY <1>1, <1>2, <1>3 DEF Open, Settled, x
  <2> QED BY <1>1, <2>1, <2>2 DEF HeldInv, Open, Settled
<1>9. LooseInv'
  <2>1. \A d \in Requests : Loose(d)' => Loose(d) /\ d # x
    BY <1>1 DEF Loose, x
  <2> QED BY <1>1, <2>1 DEF TicketInv, LooseInv, Settled
<1>10. IsFiniteSet(rows') /\ served' = Cardinality(rows')
  BY <1>2, <1>3, FS_AddElement DEF TicketInv
<1> QED BY <1>6, <1>7, <1>8, <1>9, <1>10 DEF TicketInv

LEMMA TicketRelease ==
    ASSUME TypeInv, QueueInv, TicketInv, NEW w \in Workers, Release(w)
    PROVE  TicketInv'
<1> DEFINE x == hold[w]
<1>0. x \in Requests
  BY OwnerFacts DEF Release
<1>1. /\ UNCHANGED <<outcome, rows, served, conn, fresh, items>>
      /\ \A v \in Workers : v # w => worker'[v] = worker[v] /\ hold'[v] = hold[v]
      /\ worker[w] = "release" /\ worker'[w] = "next" /\ hold'[w] = Idle
      /\ \A d \in Requests : d # x => closes'[d] = closes[d]
      /\ closes'[x] = closes[x] + 1
  BY <1>0, OwnerFacts DEF Release, Complete, TypeInv
<1>2. closes[x] = 0 /\ Settled(x)
  BY <1>1 DEF TicketInv, HeldInv
<1>3. /\ \A v \in Workers : v # w => hold[v] # x
      /\ \A i \in DOMAIN items : items[i] \in Requests /\ items[i] # x
      /\ \A c \in fresh : c \in Requests /\ c # x
  BY <1>0, OwnerFacts
<1>4. \A v \in Workers : worker[v] \notin {"next", "exited"} => hold[v] \in Requests
  BY OwnerFacts
<1>5. \A d \in Requests : Loose(d)' => d = x \/ Loose(d)
  BY <1>1 DEF Loose
<1> HIDE DEF x
<1>6. FreshInv' /\ \A d \in Requests : conn'[d] \in Untouched => d \in fresh'
  BY <1>1, <1>3 DEF TicketInv, FreshInv, Open, Answered
<1>7. QueuedInv'
  BY <1>1, <1>3 DEF TicketInv, QueuedInv, Open
<1>8. HeldInv'
  BY <1>1, <1>3, <1>4 DEF TicketInv, HeldInv, Open, Settled
<1>9. LooseInv'
  BY <1>1, <1>2, <1>5 DEF TicketInv, LooseInv, Settled
<1> QED BY <1>1, <1>6, <1>7, <1>8, <1>9 DEF TicketInv

(* Every step of the server.                                               *)
LEMMA TicketStep ==
    TypeInv /\ AdmissionInv /\ QueueInv /\ TicketInv /\ [ServerNext]_serverVars => TicketInv'
<1> SUFFICES ASSUME TypeInv, AdmissionInv, QueueInv, TicketInv, [ServerNext]_serverVars PROVE TicketInv'
  OBVIOUS
<1> USE DEF resultVars, vars
<1>1. ASSUME UNCHANGED <<closes, outcome, rows, served, conn, worker, items, hold, fresh>>
      PROVE  TicketInv'
  BY <1>1 DEF TicketInv, FreshInv, QueuedInv, HeldInv, LooseInv, Loose, Settled, Open, Answered
<1>2. ASSUME NEW c \in Requests, Connect(c) \/ Accept(c) \/ StampArrival(c) \/ LeaveAdmission(c)
      PROVE  TicketInv'
  BY <1>2, TicketConn DEF Connect, Accept, StampArrival, LeaveAdmission, Untouched
<1>3. ASSUME NEW c \in Requests, Refuse(c) \/ Health(c) \/ FileNotFound(c) PROVE TicketInv'
  BY <1>3, TicketRefused DEF Refuse, Health, FileNotFound, Untouched
<1>4. ASSUME Spawn \/ RefuseBusy PROVE TicketInv'
  <2>1. current \in Requests /\ conn[current] = "accepted"
    BY <1>4 DEF Spawn, RefuseBusy, AdmissionInv, AtHand
  <2>2. CASE Spawn
    BY <2>1, <2>2, TicketConn DEF Spawn, Untouched
  <2>3. CASE RefuseBusy
    <3>1. /\ conn[current] \in Untouched /\ "left" \notin Untouched
          /\ conn' = [conn EXCEPT ![current] = "left"] /\ CloseWith(current, "refused")
          /\ UNCHANGED <<rows, served, worker, items, hold, fresh>>
      BY <2>1, <2>3 DEF RefuseBusy, Untouched
    <3> QED BY <2>1, <3>1, TicketRefused
  <2> QED BY <1>4, <2>2, <2>3
<1>5. CASE Signal \/ AcceptFails \/ CountAdmission \/ SpawnFails
  BY <1>1, <1>5 DEF Signal, AcceptFails, CountAdmission, SpawnFails
<1>6. CASE Main
  BY <1>1, <1>6 DEF Main, MainStep, SeeShutdown, ShutListener, JoinAcceptor, Drain, StopScheduler,
     JoinWorkers, Shutdown
<1>7. CASE UNCHANGED serverVars
  BY <1>1, <1>7 DEF serverVars
<1> QED BY <1>2, <1>3, <1>4, <1>5, <1>6, <1>7, TicketEnqueue, TicketTake, TicketMove, TicketVerdict,
           TicketRequeue, TicketRelease
        DEF ServerNext, Admission, AcceptorStep, WorkerThread
-----------------------------------------------------------------------------
(* The inductive invariant.                                                *)
LEMMA ServerInv == ServerSpec => []IInv
<1>1. IInv /\ [ServerNext]_serverVars => IInv'
  BY TypeStep, AdmissionStep, ShutdownStep, QueueStep, TicketStep DEF IInv
<1> QED BY <1>1, InitInv, PTL DEF ServerSpec

(* The threads of the server use the scheduler as WorkQueue assumes: main  *)
(* shuts it down only when no admission thread can enqueue any more        *)
(* (main.cpp:320-326), so all that is proved of the queue holds in the     *)
(* server.                                                                 *)
THEOREM ServerUsesQueue == ServerSpec => Spec
<1>1. ServerInit => Init
  BY DEF ServerInit
<1>2. IInv /\ [ServerNext]_serverVars => [Next]_vars
  BY QueueContract DEF IInv
<1> QED BY <1>1, <1>2, ServerInv, PTL DEF ServerSpec, Spec

(* When main returns every connection that was accepted has had an answer  *)
(* and its socket was closed once (main.cpp:299-334).                      *)
THEOREM NobodyIsAbandoned == ServerSpec => []NoneAbandoned
<1>1. IInv => NoneAbandoned
  <2> SUFFICES ASSUME IInv, main = "exited", NEW c \in Requests, Accepted(c)
               PROVE  outcome[c] # "none" /\ closes[c] = 1
    BY DEF NoneAbandoned
  <2>1. \A w \in Workers : hold[w] = Gone
    BY DEF IInv, MainInv, QueueInv
  <2>2. items = << >>
    BY <2>1 DEF IInv, QueueInv, NothingLeftBehind
  <2>3. conn[c] \notin Untouched
    BY DEF IInv, MainInv, AdmissionInv, AtHand, Admitting, Untouched, Accepted
  <2>4. CASE c \in fresh
    BY <2>3, <2>4 DEF IInv, TicketInv, FreshInv, Answered
  <2>5. CASE c \notin fresh
    <3>1. Loose(c)
      BY <2>1, <2>2, <2>5 DEF Loose
    <3> QED BY <3>1 DEF IInv, TicketInv, LooseInv, Settled
  <2> QED BY <2>4, <2>5
<1> QED BY <1>1, ServerInv, PTL

(* No socket is closed twice, nor while a thread may still use it          *)
(* (main.cpp:225-275).                                                     *)
THEOREM SocketsClosedOnce == ServerSpec => []SocketLifecycle
<1>1. IInv => SocketLifecycle
  <2> SUFFICES ASSUME IInv, NEW c \in Requests
               PROVE  /\ closes[c] <= 1
                      /\ \/ conn[c] \in {"backlog", "accepted", "reading", "stamped"}
                         \/ c \in Waiting
                         \/ c \in Held
                         => closes[c] = 0
    BY DEF SocketLifecycle
  <2>0. TypeInv /\ QueueInv /\ TicketInv
    BY DEF IInv
  <2>1. c \in fresh => closes[c] \in {0, 1}
    BY <2>0 DEF TicketInv, FreshInv, Open, Answered
  <2>2. conn[c] \in {"backlog", "accepted", "reading", "stamped"} => closes[c] = 0
    BY <2>0 DEF TicketInv, FreshInv, Open, Untouched
  <2>3. (\E i \in DOMAIN items : items[i] = c) => closes[c] = 0
    BY <2>0 DEF TicketInv, QueuedInv, Open
  <2>4. (\E w \in Workers : hold[w] = c) => closes[c] = 0
    <3> SUFFICES ASSUME NEW w \in Workers, hold[w] = c PROVE closes[c] = 0
      OBVIOUS
    <3>1. hold[w] # Idle /\ hold[w] # Gone
      BY <2>0, OwnerFacts
    <3>2. worker[w] \in {"picked", "serve", "requeue", "record", "release"}
      BY <2>0, <3>1 DEF QueueInv, TypeInv
    <3> QED BY <2>0, <3>2 DEF TicketInv, HeldInv, Open
  <2>5. Loose(c) => closes[c] = 1
    BY <2>0 DEF TicketInv, LooseInv
  <2>6. closes[c] \in {0, 1}
    BY <2>1, <2>3, <2>4, <2>5 DEF Loose
  <2>7. c \in Waiting => closes[c] = 0
    BY <2>3 DEF Waiting, ToSet
  <2>8. c \in Held => closes[c] = 0
    BY <2>4 DEF Held
  <2> QED BY <2>2, <2>6, <2>7, <2>8
<1> QED BY <1>1, ServerInv, PTL

(* The metrics file has one row for each request that was done and no      *)
(* other, and the summary counts them (main.cpp:264-272).                  *)
THEOREM OneRowPerDone == ServerSpec => []RowPerDone
<1>1. IInv => RowPerDone
  <2> SUFFICES ASSUME IInv, main = "exited"
               PROVE  rows = {c \in Requests : outcome[c] = "done"} /\ served = Cardinality(rows)
    BY DEF RowPerDone
  <2>1. \A w \in Workers : hold[w] = Gone
    BY DEF IInv, MainInv, QueueInv
  <2>2. items = << >>
    BY <2>1 DEF IInv, QueueInv, NothingLeftBehind
  <2>3. \A c \in Requests : c \in rows <=> outcome[c] = "done"
    <3> SUFFICES ASSUME NEW c \in Requests PROVE c \in rows <=> outcome[c] = "done"
      OBVIOUS
    <3>1. CASE c \in fresh
      BY <3>1 DEF IInv, TicketInv, FreshInv, Open, Answered
    <3>2. CASE c \notin fresh
      <4>1. Loose(c)
        BY <2>1, <2>2, <3>2 DEF Loose
      <4> QED BY <4>1 DEF IInv, TicketInv, LooseInv, Settled
    <3> QED BY <3>1, <3>2
  <2> QED BY <2>3 DEF IInv, TicketInv, TypeInv
<1> QED BY <1>1, ServerInv, PTL
=============================================================================
