-------------------------- MODULE PutExchangeProofs --------------------------
(***************************************************************************)
(* Proofs about the slices of a PUT, and about put_file against them, for  *)
(* every body and its split between the header's segment and later ones,   *)
(* every quantum and chunk size.                                           *)
(***************************************************************************)
EXTENDS PutExchange, TLAPS

USE PutAssumption

(* The bytes off the connection are in the file or in leftover, the rest   *)
(* of a round is within the declared size, and the file has an order.      *)
BytesInv ==
    /\ BodyInOrder
    /\ NothingBeyond
    /\ ~started => offset = 0
    /\ leftover > 0 /\ pc # "failed" => taken = body.early
    /\ pc = "reading" => started /\ offset + (take - done) <= body.declared
    /\ pc \in {"queued", "reading"} => stored = NoFile
    /\ pc \in {"renamed", "done"} => stored = offset /\ offset = body.declared

(* What the client was told so far.                                        *)
NoErr == \A i \in 1 .. Len(replies) : replies[i] = "OK"
RepliesInv ==
    /\ pc # "failed" \/ stored # NoFile => NoErr
    /\ pc \in {"queued", "reading"} /\ ~started => Len(replies) = 0
    /\ pc \in {"queued", "reading"} /\ started => Len(replies) = 1
    /\ pc = "renamed" => Len(replies) = 1
    /\ pc = "failed" => Len(replies) < 2 \/ replies[2] = "ERR"
    /\ pc = "done" => Len(replies) = 2
    /\ pc = "failed" => Len(replies) <= 2

IInv == TypeOK /\ BytesInv /\ RepliesInv

(* What TypeOK says of the parameters.                                     *)
LEMMA ParamFacts ==
    ASSUME TypeOK
    PROVE  /\ sp.policy \in Policies /\ sp.quantum \in Nat
           /\ Bounded(sp.policy) => sp.quantum > 0
           /\ body.declared \in Nat /\ body.sent \in Nat /\ body.early \in Nat
           /\ body.early <= body.sent
           /\ offset \in Nat /\ offset <= body.declared
           /\ leftover \in Nat /\ leftover <= body.early
           /\ taken \in Nat /\ body.early <= taken /\ taken <= body.sent
           /\ take \in Nat /\ take <= body.declared /\ done \in Nat /\ done <= take
           /\ rounds \in Nat
<1>1. sp \in [policy : Policies, quantum : Nat] /\ sp \in Params
  BY DEF TypeOK
<1>2. body \in [declared : Nat, sent : Nat, early : Nat] /\ body \in Bodies
  BY DEF TypeOK
<1> QED BY <1>1, <1>2 DEF TypeOK

(* A round takes what is left of the body, or its quantum of it.           *)
LEMMA TakeFacts ==
    ASSUME TypeOK
    PROVE  Take \in Nat /\ offset + Take <= body.declared
  BY ParamFacts DEF Take, Lesser

(* A chunk is within the round and is read from two places.                *)
LEMMA ChunkFacts ==
    ASSUME TypeOK, InLoop
    PROVE  /\ N \in Nat /\ N > 0 /\ done + N <= take
           /\ Kept \in Nat /\ Kept <= leftover
           /\ FromSocket \in Nat /\ Kept + FromSocket = N
           /\ FromSocket > 0 => Kept = leftover
<1>1. N \in Nat /\ N > 0 /\ done + N <= take
  BY ParamFacts DEF N, Lesser, InLoop
<1> QED BY <1>1, ParamFacts DEF Kept, FromSocket, Lesser

(* One more reply.                                                         *)
LEMMA ReplyFacts ==
    ASSUME TypeOK, NEW line \in {"OK", "ERR"}, Reply(line)
    PROVE  /\ replies' \in Seq({"OK", "ERR"})
           /\ Len(replies) \in Nat /\ Len(replies') = Len(replies) + 1
           /\ replies'[Len(replies')] = line
           /\ \A i \in 1 .. Len(replies) : replies'[i] = replies[i]
<1>1. replies \in Seq({"OK", "ERR"})
  BY DEF TypeOK
<1> QED BY <1>1 DEF Reply

(* What that does to the absence of an ERR.                                *)
LEMMA NoErrFacts ==
    ASSUME TypeOK
    PROVE  /\ replies' = replies => (NoErr' <=> NoErr)
           /\ Reply("OK") /\ NoErr => NoErr'
           /\ Reply("ERR") /\ Len(replies) <= 1 => Len(replies') < 2 \/ replies'[2] = "ERR"
<1>1. ASSUME replies' = replies PROVE NoErr' <=> NoErr
  BY <1>1 DEF NoErr
<1>2. ASSUME Reply("OK"), NoErr PROVE NoErr'
  BY <1>2, ReplyFacts DEF NoErr
<1>3. ASSUME Reply("ERR"), Len(replies) <= 1 PROVE Len(replies') < 2 \/ replies'[2] = "ERR"
  BY <1>3, ReplyFacts
<1> QED BY <1>1, <1>2, <1>3

(* How many lines there are.                                               *)
LEMMA LenFacts ==
    ASSUME TypeOK, RepliesInv
    PROVE  /\ Len(replies) \in Nat /\ Len(replies) <= 2
           /\ pc \notin {"done", "failed"} => Len(replies) <= 1
<1>1. Len(replies) \in Nat /\ pc \in {"queued", "reading", "renamed", "done", "failed"}
  BY DEF TypeOK
<1>2. \A n \in Nat : (n = 0 \/ n = 1 => n <= 1 /\ n <= 2) /\ (n = 2 => n <= 2)
  OBVIOUS
<1>3. pc \in {"queued", "reading", "renamed"} => Len(replies) = 0 \/ Len(replies) = 1
  BY DEF RepliesInv
<1>4. pc = "done" => Len(replies) = 2
  BY DEF RepliesInv
<1>5. pc = "failed" => Len(replies) <= 2
  BY DEF RepliesInv
<1> QED BY <1>1, <1>2, <1>3, <1>4, <1>5

(* In which order the bytes of a chunk are written.                        *)
LEMMA ChunkInOrder ==
    ASSUME TypeOK, BytesInv, InLoop
    PROVE  FileAfterRead = offset + N
<1>1. temp = offset /\ taken - leftover = offset /\ (leftover > 0 => taken = body.early)
  BY DEF BytesInv, BodyInOrder, InLoop
<1>2. Written(temp, body.early - leftover, Kept) = offset + Kept
  BY <1>1, ChunkFacts, ParamFacts DEF Written
<1>3. FromSocket > 0 => taken = offset + Kept
  BY <1>1, ChunkFacts, ParamFacts
<1>4. Written(offset + Kept, taken, FromSocket) = offset + N
  BY <1>3, ChunkFacts, ParamFacts DEF Written
<1> QED BY <1>2, <1>4 DEF FileAfterRead
(* The initial states.                                                     *)
LEMMA InvInit == Init => IInv
<1> SUFFICES ASSUME Init PROVE IInv
  OBVIOUS
<1>1. body \in [declared : Nat, sent : Nat, early : Nat] /\ body.early <= body.sent
  BY DEF Init
<1>2. TypeOK
  BY <1>1 DEF Init, TypeOK, NoFile
<1>3. BytesInv
  BY <1>1 DEF Init, BytesInv, BodyInOrder, NothingBeyond, started, NoFile
<1>4. RepliesInv
  BY DEF Init, RepliesInv, NoErr, started
<1> QED BY <1>2, <1>3, <1>4 DEF IInv

(* Every step keeps the ranges.                                            *)
LEMMA TypeStep == IInv /\ [Next]_vars => TypeOK'
<1> SUFFICES ASSUME IInv, [Next]_vars PROVE TypeOK'
  OBVIOUS
<1> USE DEF IInv
<1>1. CASE StartRound
  BY <1>1, TakeFacts, ParamFacts, ReplyFacts DEF StartRound, StartRoundWith, TypeOK
<1>2. CASE OpenFails
  BY <1>2, ParamFacts, ReplyFacts DEF OpenFails, Refuse, Return, TypeOK
<1>3. CASE FirstOkFails
  BY <1>3, ParamFacts DEF FirstOkFails, Return, TypeOK
<1>4. CASE ReadChunk
  <2>1. InLoop
    BY <1>4 DEF ReadChunk, ReadChunkKeeping
  <2>2. offset' \in 0 .. body.declared /\ temp' \in Nat
    BY <1>4, <2>1, ChunkInOrder, ChunkFacts, ParamFacts
       DEF ReadChunk, ReadChunkKeeping, BytesInv, InLoop
  <2>3. leftover' \in 0 .. body.early /\ taken' \in body.early .. body.sent /\ done' \in 0 .. take
    BY <1>4, <2>1, ChunkFacts, ParamFacts DEF ReadChunk, ReadChunkKeeping
  <2> QED BY <1>4, <2>2, <2>3 DEF ReadChunk, ReadChunkKeeping, TypeOK
<1>5. CASE ReadFails
  <2>1. leftover' \in 0 .. body.early /\ taken' \in body.early .. body.sent
    BY <1>5, ChunkFacts, ParamFacts DEF ReadFails
  <2> QED BY <1>5, <2>1, ParamFacts, ReplyFacts DEF ReadFails, Refuse, Return, TypeOK
<1>6. CASE WriteFails
  <2>1. leftover' \in 0 .. body.early /\ taken' \in body.early .. body.sent
    BY <1>6, ChunkFacts, ParamFacts DEF WriteFails
  <2> QED BY <1>6, <2>1, ParamFacts, ReplyFacts DEF WriteFails, Refuse, Return, TypeOK
<1>7. CASE EndRound
  BY <1>7, ParamFacts DEF EndRound, Return, request, TypeOK
<1>8. CASE Install
  BY <1>8, ParamFacts DEF Install, Install_Anytime, Return, request, TypeOK
<1>9. CASE RenameFails
  BY <1>9, ParamFacts, ReplyFacts DEF RenameFails, Refuse, Return, request, TypeOK
<1>10. CASE Confirm
  BY <1>10, ParamFacts, ReplyFacts DEF Confirm, Return, request, TypeOK
<1>11. CASE LastOkFails
  BY <1>11, ParamFacts DEF LastOkFails, Return, request, TypeOK
<1>12. CASE UNCHANGED vars
  BY <1>12 DEF vars, request, TypeOK
<1> QED BY <1>1, <1>2, <1>3, <1>4, <1>5, <1>6, <1>7, <1>8, <1>9, <1>10, <1>11, <1>12
        DEF Next, SliceStep, Failure

(* Every step keeps the bytes in order and within the declared size.       *)
LEMMA BytesStep == IInv /\ [Next]_vars => BytesInv'
<1> SUFFICES ASSUME IInv, [Next]_vars PROVE BytesInv'
  OBVIOUS
<1> USE DEF IInv, BytesInv, BodyInOrder, NothingBeyond, started, NoFile
<1>1. CASE StartRound
  BY <1>1, TakeFacts, ParamFacts DEF StartRound, StartRoundWith
<1>2. CASE OpenFails
  BY <1>2, ParamFacts DEF OpenFails, Refuse, Return
<1>3. CASE FirstOkFails
  BY <1>3, ParamFacts DEF FirstOkFails, Return
<1>4. CASE ReadChunk
  <2>1. InLoop
    BY <1>4 DEF ReadChunk, ReadChunkKeeping
  <2>2. temp' = offset' /\ temp' \in Nat
    BY <1>4, <2>1, ChunkInOrder, ChunkFacts, ParamFacts DEF ReadChunk, ReadChunkKeeping
  <2>3. taken' - leftover' = offset' /\ (leftover' > 0 => taken' = body.early)
    BY <1>4, <2>1, ChunkFacts, ParamFacts DEF ReadChunk, ReadChunkKeeping, InLoop
  <2>4. offset' + (take - done') <= body.declared
    BY <1>4, <2>1, ChunkFacts, ParamFacts DEF ReadChunk, ReadChunkKeeping, InLoop
  <2>5. offset' <= body.declared
    BY <1>4, <2>1, ChunkFacts, ParamFacts DEF ReadChunk, ReadChunkKeeping, InLoop
  <2>6. NothingBeyond'
    BY <1>4, <2>1, <2>3, <2>5, ChunkFacts, ParamFacts DEF ReadChunk, ReadChunkKeeping, InLoop
  <2> QED BY <1>4, <2>1, <2>2, <2>3, <2>4, <2>6, ParamFacts
          DEF ReadChunk, ReadChunkKeeping, InLoop
<1>5. CASE ReadFails
  <2>1. InLoop /\ leftover' = 0 /\ taken' < taken + FromSocket
    BY <1>5, ChunkFacts, ParamFacts DEF ReadFails
  <2>2. taken + FromSocket <= body.declared
    BY <2>1, <1>5, ChunkFacts, ParamFacts DEF ReadFails, InLoop
  <2> QED BY <1>5, <2>1, <2>2, ChunkFacts, ParamFacts DEF ReadFails, Refuse, Return
<1>6. CASE WriteFails
  <2>1. InLoop /\ taken' - leftover' <= body.declared /\ (leftover' > 0 => taken' = body.early)
    BY <1>6, ChunkFacts, ParamFacts DEF WriteFails, InLoop
  <2> QED BY <1>6, <2>1, ChunkFacts, ParamFacts DEF WriteFails, Refuse, Return
<1>7. CASE EndRound
  BY <1>7, ParamFacts DEF EndRound, LoopEnds, Return, request
<1>8. CASE Install
  BY <1>8, ParamFacts DEF Install, Install_Anytime, LoopEnds, Return, request
<1>9. CASE RenameFails
  BY <1>9, ParamFacts DEF RenameFails, Refuse, Return, request
<1>10. CASE Confirm
  BY <1>10, ParamFacts DEF Confirm, Return, request
<1>11. CASE LastOkFails
  BY <1>11, ParamFacts DEF LastOkFails, Return, request
<1>12. CASE UNCHANGED vars
  BY <1>12 DEF vars, request
<1> QED BY <1>1, <1>2, <1>3, <1>4, <1>5, <1>6, <1>7, <1>8, <1>9, <1>10, <1>11, <1>12
        DEF Next, SliceStep, Failure

(* Every step keeps what the replies say true.                             *)
LEMMA RepliesStep == IInv /\ [Next]_vars => RepliesInv'
<1> SUFFICES ASSUME IInv, [Next]_vars PROVE RepliesInv'
  OBVIOUS
<1>1. TypeOK /\ RepliesInv /\ Len(replies) \in Nat
  BY DEF IInv, TypeOK
<1>2. pc \in {"queued", "reading"} => stored = NoFile
  BY DEF IInv, BytesInv
<1>3. pc = "reading" => started
  BY DEF IInv, BytesInv
<1> USE <1>1, <1>2, <1>3 DEF RepliesInv, started, NoFile
<1>0. ASSUME Refuse, Len(replies) <= 1, stored = NoFile, stored' = stored
      PROVE  RepliesInv'
  <2>1. pc' = "failed" /\ Reply("ERR")
    BY <1>0 DEF Refuse, Return
  <2>2. Len(replies') < 2 \/ replies'[2] = "ERR"
    BY <2>1, <1>0, NoErrFacts
  <2>3. Len(replies') <= 2
    BY <2>1, <1>0, ReplyFacts
  <2> QED BY <2>1, <2>2, <2>3, <1>0
<1>4. CASE StartRound
  <2>1. pc' = "reading" /\ temp' # NoFile /\ NoErr
    BY <1>4 DEF StartRound, StartRoundWith
  <2>2. NoErr' /\ Len(replies') = 1
    <3>1. CASE started
      <4>1. pc = "queued" /\ replies' = replies
        BY <1>4, <3>1 DEF StartRound, StartRoundWith
      <4> QED BY <4>1, <3>1, <2>1, NoErrFacts
    <3>2. CASE ~started
      <4>1. pc = "queued" /\ Reply("OK")
        BY <1>4, <3>2 DEF StartRound, StartRoundWith
      <4> QED BY <4>1, <3>2, <2>1, ReplyFacts, NoErrFacts
    <3> QED BY <3>1, <3>2
  <2> QED BY <2>1, <2>2
<1>5. CASE OpenFails
  BY <1>0, <1>5 DEF OpenFails
<1>6. CASE FirstOkFails
  BY <1>6, NoErrFacts DEF FirstOkFails, Return
<1>7. CASE ReadChunk
  <2>1. InLoop
    BY <1>7 DEF ReadChunk, ReadChunkKeeping
  <2>2. temp' \in Nat
    <3>1. FileAfterRead = offset + N /\ N \in Nat /\ offset \in Nat
      BY <2>1, ChunkInOrder, ChunkFacts, ParamFacts DEF IInv
    <3> QED BY <1>7, <3>1 DEF ReadChunk, ReadChunkKeeping
  <2> QED BY <1>7, <2>1, <2>2, NoErrFacts DEF ReadChunk, ReadChunkKeeping, InLoop
<1>8. CASE ReadFails
  <2>1. pc = "reading" /\ Refuse /\ stored' = stored
    BY <1>8 DEF ReadFails, InLoop
  <2> QED BY <1>0, <2>1, LenFacts
<1>9. CASE WriteFails
  <2>1. pc = "reading" /\ Refuse /\ stored' = stored
    BY <1>9 DEF WriteFails, InLoop
  <2> QED BY <1>0, <2>1, LenFacts
<1>10. CASE EndRound
  BY <1>10, NoErrFacts DEF EndRound, LoopEnds, Return, request
<1>11. CASE Install
  BY <1>11, NoErrFacts DEF Install, Install_Anytime, LoopEnds, Return, request
<1>12. CASE RenameFails
  <2>1. pc = "reading" /\ Refuse /\ stored' = stored
    BY <1>12 DEF RenameFails, LoopEnds
  <2> QED BY <1>0, <2>1, LenFacts
<1>13. CASE Confirm
  <2>1. pc = "renamed" /\ pc' = "done" /\ Reply("OK")
    BY <1>13 DEF Confirm, Return
  <2>2. NoErr /\ Len(replies) = 1
    BY <2>1
  <2>3. NoErr' /\ Len(replies') = 2
    BY <2>1, <2>2, ReplyFacts, NoErrFacts
  <2> QED BY <2>1, <2>3
<1>14. CASE LastOkFails
  <2>1. pc' = "failed" /\ replies' = replies /\ Len(replies) = 1 /\ NoErr
    BY <1>14 DEF LastOkFails, Return
  <2>2. NoErr' /\ Len(replies') = 1
    BY <2>1, NoErrFacts
  <2> QED BY <2>1, <2>2
<1>15. CASE UNCHANGED vars
  BY <1>15, NoErrFacts DEF vars, request
<1> QED BY <1>4, <1>5, <1>6, <1>7, <1>8, <1>9, <1>10, <1>11, <1>12, <1>13, <1>14, <1>15
        DEF Next, SliceStep, Failure

(* The invariant is inductive.                                             *)
THEOREM InvHolds == Spec => []IInv
<1>1. IInv /\ [Next]_vars => IInv'
  BY TypeStep, BytesStep, RepliesStep DEF IInv
<1> QED BY <1>1, InvInit, PTL DEF Spec

(* Type correctness of the slices of a PUT.                                *)
THEOREM PutTypeCorrect == Spec => []TypeOK
<1>1. IInv => TypeOK
  BY DEF IInv
<1> QED BY <1>1, InvHolds, PTL

(* The file gets the bytes of the body once and in order, whatever the     *)
(* split between header, chunks and rounds.                                *)
THEOREM PutBodyInOrder == Spec => []BodyInOrder
<1>1. IInv => BodyInOrder
  BY DEF IInv, BytesInv
<1> QED BY <1>1, InvHolds, PTL

(* No slice reads beyond the declared bytes.                               *)
THEOREM PutNothingBeyond == Spec => []NothingBeyond
<1>1. IInv => NothingBeyond
  BY DEF IInv, BytesInv
<1> QED BY <1>1, InvHolds, PTL

(* The second OK means that the body is in place, an ERR that nothing is.  *)
THEOREM PutVerdictIsTrue == Spec => []VerdictIsTrue
<1>1. IInv => VerdictIsTrue
  <2> SUFFICES ASSUME IInv PROVE VerdictIsTrue
    OBVIOUS
  <2>1. replies \in Seq({"OK", "ERR"}) /\ Len(replies) \in Nat
    BY DEF IInv, TypeOK
  <2>2. ASSUME replies = <<"OK", "OK">> PROVE stored = body.declared
    <3>1. Len(replies) = 2 /\ replies[2] = "OK"
      BY <2>2
    <3>2. pc = "done"
      BY <3>1 DEF IInv, TypeOK, RepliesInv
    <3> QED BY <3>2 DEF IInv, BytesInv
  <2>3. ASSUME NEW i \in DOMAIN replies, replies[i] = "ERR" PROVE stored = NoFile
    BY <2>1, <2>3 DEF IInv, RepliesInv, NoErr
  <2> QED BY <2>2, <2>3 DEF VerdictIsTrue
<1> QED BY <1>1, InvHolds, PTL
-----------------------------------------------------------------------------
(* The number of rounds.                                                   *)
RoundCount ==
    IF Bounded(sp.policy) /\ body.declared > 0
    THEN (rounds - 1) * sp.quantum < body.declared /\ body.declared <= rounds * sp.quantum
    ELSE rounds = 1

(* A round starts at a multiple of the quantum; only a round that left     *)
(* something is followed by another one.                                   *)
RoundsInv ==
    /\ pc = "queued" =>
          IF Bounded(sp.policy)
          THEN offset = rounds * sp.quantum /\ (rounds > 0 => offset < body.declared)
          ELSE rounds = 0 /\ offset = 0
    /\ pc = "reading" => rounds > 0
    /\ pc = "reading" /\ Bounded(sp.policy) =>
          /\ offset - done = (rounds - 1) * sp.quantum
          /\ take = Lesser(sp.quantum, body.declared - (offset - done))
          /\ rounds > 1 => offset - done < body.declared
    /\ pc = "reading" /\ ~Bounded(sp.policy) =>
          rounds = 1 /\ offset = done /\ take = body.declared
    /\ pc \in {"renamed", "done"} => RoundCount

(* Multiples.                                                              *)
LEMMA Multiples ==
    \A n, q \in Nat : /\ n * q \in Nat /\ (n + 1) * q = n * q + q
                     /\ n > 0 => (n - 1) * q \in Nat /\ n * q = (n - 1) * q + q
  OBVIOUS

(* When a round ends, what it has read is its quantum or the rest.         *)
LEMMA RoundEnd ==
    ASSUME TypeOK, RoundsInv, LoopEnds, Bounded(sp.policy)
    PROVE  /\ offset < body.declared => offset = rounds * sp.quantum
           /\ offset >= body.declared => RoundCount
<1> DEFINE base == (rounds - 1) * sp.quantum
           next == rounds * sp.quantum
<1>1. rounds > 0 /\ offset - take = base /\ take = Lesser(sp.quantum, body.declared - base)
  BY DEF RoundsInv, LoopEnds
<1>2. base \in Nat /\ next \in Nat /\ next = base + sp.quantum
  BY <1>1, Multiples, ParamFacts
<1>3. (rounds > 1 => base < body.declared) /\ (rounds = 1 => base = 0)
  BY <1>1, ParamFacts DEF RoundsInv, LoopEnds
<1> HIDE DEF base, next
<1>4. offset = base + take
  BY <1>1, <1>2, ParamFacts
<1>5. offset < body.declared => offset = next
  BY <1>1, <1>2, <1>4, ParamFacts DEF Lesser
<1>6. offset >= body.declared => body.declared <= next
  <2>1. take <= sp.quantum
    BY <1>1, <1>2, ParamFacts DEF Lesser
  <2> QED BY <1>2, <1>4, <2>1, ParamFacts
<1>7. body.declared > 0 => base < body.declared
  BY <1>1, <1>2, <1>3, ParamFacts
<1>8. body.declared = 0 => rounds = 1
  BY <1>1, <1>2, <1>3, ParamFacts
<1> QED BY <1>5, <1>6, <1>7, <1>8, ParamFacts DEF RoundCount, base, next

(* The number of rounds is inductive with the other invariants.            *)
LEMMA RoundsStep == IInv /\ RoundsInv /\ [Next]_vars => RoundsInv'
<1> SUFFICES ASSUME IInv, RoundsInv, [Next]_vars PROVE RoundsInv'
  OBVIOUS
<1>1. TypeOK
  BY DEF IInv
<1>2. CASE StartRound
  <2>1. /\ pc = "queued" /\ pc' = "reading" /\ rounds' = rounds + 1
        /\ offset' = offset /\ done' = 0 /\ take' = Take /\ sp' = sp /\ body' = body
    BY <1>2 DEF StartRound, StartRoundWith
  <2>2. rounds \in Nat /\ offset \in Nat /\ rounds + 1 - 1 = rounds
    BY <1>1, ParamFacts
  <2>3. CASE Bounded(sp.policy)
    BY <2>1, <2>2, <2>3 DEF RoundsInv, Take
  <2>4. CASE ~Bounded(sp.policy)
    BY <2>1, <2>2, <2>4, <1>1, ParamFacts DEF RoundsInv, Take
  <2> QED BY <2>3, <2>4
<1>3. CASE ReadChunk
  <2>1. InLoop
    BY <1>3 DEF ReadChunk, ReadChunkKeeping
  <2>2. /\ pc = "reading" /\ pc' = "reading" /\ rounds' = rounds /\ take' = take
        /\ sp' = sp /\ body' = body /\ offset' = offset + N /\ done' = done + N
    BY <1>3 DEF ReadChunk, ReadChunkKeeping, InLoop
  <2>3. N \in Nat /\ offset \in Nat /\ done \in Nat
    BY <1>1, <2>1, ChunkFacts, ParamFacts
  <2>4. offset' - done' = offset - done
    BY <2>2, <2>3
  <2>5. offset = done => offset' = done'
    BY <2>2
  <2> QED BY <2>2, <2>4, <2>5 DEF RoundsInv
<1>4. CASE EndRound
  <2>1. /\ LoopEnds /\ offset < body.declared /\ pc' = "queued"
        /\ rounds' = rounds /\ offset' = offset /\ sp' = sp /\ body' = body
    BY <1>4 DEF EndRound, Return, request
  <2>2. Bounded(sp.policy)
    BY <2>1, <1>1, ParamFacts DEF RoundsInv, LoopEnds
  <2> QED BY <2>1, <2>2, <1>1, RoundEnd DEF RoundsInv
<1>5. CASE Install
  <2>1. /\ LoopEnds /\ offset >= body.declared /\ pc' = "renamed"
        /\ rounds' = rounds /\ sp' = sp /\ body' = body
    BY <1>5 DEF Install, Install_Anytime, Return, request
  <2>2. RoundCount
    <3>1. CASE Bounded(sp.policy)
      BY <3>1, <2>1, <1>1, RoundEnd
    <3>2. CASE ~Bounded(sp.policy)
      BY <3>2, <2>1 DEF RoundsInv, LoopEnds, RoundCount
    <3> QED BY <3>1, <3>2
  <2> QED BY <2>1, <2>2 DEF RoundsInv, RoundCount
<1>6. CASE Confirm
  BY <1>6 DEF Confirm, Return, request, RoundsInv, RoundCount
<1>7. CASE Failure
  <2>1. pc' = "failed"
    BY <1>7 DEF Failure, OpenFails, FirstOkFails, ReadFails, WriteFails, RenameFails,
                LastOkFails, Refuse, Return
  <2> QED BY <2>1 DEF RoundsInv
<1>8. CASE UNCHANGED vars
  BY <1>8 DEF vars, request, RoundsInv, RoundCount
<1> QED BY <1>2, <1>3, <1>4, <1>5, <1>6, <1>7, <1>8 DEF Next, SliceStep

(* A9, A13: every preempted round has read its quantum to the byte, so the *)
(* size and the quantum determine the number of rounds.                    *)
THEOREM PutRoundsExact == Spec => []RoundsExact
<1>1. Init => RoundsInv
  <2> SUFFICES ASSUME Init PROVE RoundsInv
    OBVIOUS
  <2>1. sp.quantum \in Nat
    BY InvInit, ParamFacts DEF IInv
  <2> QED BY <2>1, Multiples DEF Init, RoundsInv
<1>2. IInv /\ RoundsInv => RoundsExact
  <2> SUFFICES ASSUME IInv, RoundsInv PROVE RoundsExact
    OBVIOUS
  <2> QED BY DEF RoundsInv, RoundCount, RoundsExact
<1> QED BY <1>1, <1>2, RoundsStep, InvHolds, PTL DEF Spec
-----------------------------------------------------------------------------
(* How long a transfer can take: three steps for each byte still to come,  *)
(* and those that end it.  A slice with something left to read reads some. *)
TakesSome == pc = "reading" => take > 0 \/ offset >= body.declared

StepsLeft ==
    LET bytes == body.declared - offset
    IN  CASE pc = "queued"  -> 3 * bytes + 3
          [] pc = "reading" -> 3 * bytes + (IF done > 0 THEN 4 ELSE 2)
          [] pc = "renamed" -> 3 * bytes + 1
          [] OTHER          -> 0

(* The weight of a step that ends the slice, or of one that reads.         *)
LEMMA StepsFacts ==
    ASSUME TypeOK
    PROVE  /\ StepsLeft \in Nat
           /\ pc \in {"queued", "reading", "renamed"} => StepsLeft > 0
<1>0. body.declared - offset \in Nat /\ done \in Nat
  BY ParamFacts
<1> DEFINE rest == body.declared - offset
<1> HIDE DEF rest
<1>1. rest \in Nat
  BY <1>0 DEF rest
<1>2. CASE pc = "queued"
  <2>1. StepsLeft = 3 * rest + 3
    BY <1>2 DEF StepsLeft, rest
  <2> QED BY <1>1, <2>1
<1>3. CASE pc = "reading"
  <2>1. StepsLeft = 3 * rest + (IF done > 0 THEN 4 ELSE 2)
    BY <1>3 DEF StepsLeft, rest
  <2> QED BY <1>0, <1>1, <2>1
<1>4. CASE pc = "renamed"
  <2>1. StepsLeft = 3 * rest + 1
    BY <1>4 DEF StepsLeft, rest
  <2> QED BY <1>1, <2>1
<1>5. CASE pc \in {"done", "failed"}
  <2>1. StepsLeft = 0
    BY <1>5 DEF StepsLeft
  <2> QED BY <1>5, <2>1
<1> QED BY <1>2, <1>3, <1>4, <1>5 DEF TypeOK

(* A slice that starts has bytes to read, unless none are left.            *)
LEMMA TakesSomeStep == TypeOK /\ TakesSome /\ [Next]_vars => TakesSome'
<1> SUFFICES ASSUME TypeOK, TakesSome, [Next]_vars, pc' = "reading"
             PROVE  take' > 0 \/ offset' >= body'.declared
  BY DEF TakesSome
<1>1. CASE StartRound
  <2>1. take' = Take /\ offset' = offset /\ body' = body
    BY <1>1 DEF StartRound, StartRoundWith
  <2>2. Take > 0 \/ offset >= body.declared
    BY ParamFacts DEF Take, Lesser
  <2> QED BY <2>1, <2>2
<1>2. CASE ReadChunk
  <2>1. take' = take /\ take > 0
    BY <1>2, ParamFacts DEF ReadChunk, ReadChunkKeeping, InLoop
  <2> QED BY <2>1
<1>3. CASE UNCHANGED vars
  BY <1>3 DEF vars, request, TakesSome
<1>4. CASE EndRound \/ Install \/ Confirm \/ Failure
  BY <1>4 DEF EndRound, Install, Install_Anytime, Confirm, Failure, OpenFails, FirstOkFails,
              ReadFails, WriteFails, RenameFails, LastOkFails, Refuse, Return
<1> QED BY <1>1, <1>2, <1>3, <1>4 DEF Next, SliceStep

(* Every step of a slice is paid for.                                      *)
LEMMA StepIsPaid ==
    ASSUME TypeOK, TakesSome, Next
    PROVE  StepsLeft' < StepsLeft
<1>0. /\ body.declared \in Nat /\ offset \in Nat /\ offset <= body.declared
      /\ done \in Nat /\ take \in Nat
  BY ParamFacts
<1> DEFINE rest == body.declared - offset
<1>r. rest \in Nat
  BY <1>0
<1>1. CASE StartRound
  <2>1. pc = "queued" /\ pc' = "reading" /\ done' = 0 /\ offset' = offset /\ body' = body
    BY <1>1 DEF StartRound, StartRoundWith
  <2>2. StepsLeft = 3 * rest + 3
    BY <2>1 DEF StepsLeft
  <2>3. StepsLeft' = 3 * rest + 2
    BY <2>1 DEF StepsLeft
  <2> HIDE DEF rest
  <2> QED BY <1>r, <2>2, <2>3
<1>2. CASE ReadChunk
  <2>1. /\ InLoop /\ pc = "reading" /\ pc' = "reading" /\ done' = done + N
        /\ offset' = offset + N /\ body' = body
    BY <1>2 DEF ReadChunk, ReadChunkKeeping, InLoop
  <2>2. N \in Nat /\ N > 0
    BY <2>1, ChunkFacts
  <2>3. done' > 0
    BY <1>0, <2>1, <2>2
  <2>4. StepsLeft = 3 * (body.declared - offset) + (IF done > 0 THEN 4 ELSE 2)
    BY <2>1 DEF StepsLeft
  <2>5. StepsLeft' = 3 * (body.declared - (offset + N)) + 4
    BY <2>1, <2>3 DEF StepsLeft
  <2> QED BY <1>0, <2>2, <2>4, <2>5
<1>3. CASE EndRound
  <2>1. /\ pc = "reading" /\ pc' = "queued" /\ offset < body.declared /\ done = take
        /\ offset' = offset /\ body' = body
    BY <1>3 DEF EndRound, LoopEnds, Return, request
  <2>2. done > 0
    BY <1>0, <2>1 DEF TakesSome
  <2>3. StepsLeft = 3 * rest + 4
    BY <2>1, <2>2 DEF StepsLeft
  <2>4. StepsLeft' = 3 * rest + 3
    BY <2>1 DEF StepsLeft
  <2> HIDE DEF rest
  <2> QED BY <1>r, <2>3, <2>4
<1>4. CASE Install
  <2>1. pc = "reading" /\ pc' = "renamed" /\ offset' = offset /\ body' = body
    BY <1>4 DEF Install, Install_Anytime, LoopEnds, Return, request
  <2>2. StepsLeft = 3 * rest + (IF done > 0 THEN 4 ELSE 2)
    BY <2>1 DEF StepsLeft
  <2>3. StepsLeft' = 3 * rest + 1
    BY <2>1 DEF StepsLeft
  <2> HIDE DEF rest
  <2> QED BY <1>0, <1>r, <2>2, <2>3
<1>5. CASE Confirm \/ Failure
  <2>1. pc \in {"queued", "reading", "renamed"} /\ pc' \in {"done", "failed"}
    BY <1>5 DEF Confirm, Failure, OpenFails, FirstOkFails, ReadFails, WriteFails, RenameFails,
                LastOkFails, Refuse, Return, InLoop, LoopEnds
  <2>2. StepsLeft > 0
    BY <2>1, StepsFacts
  <2>3. StepsLeft' = 0
    BY <2>1 DEF StepsLeft
  <2> QED BY <2>2, <2>3
<1> QED BY <1>1, <1>2, <1>3, <1>4, <1>5 DEF Next, SliceStep

(* A PUT cannot go on for ever: whatever the body, the policy, the quantum *)
(* and the chunk size, each step of its slices takes at least one from a   *)
(* number that starts at three times the declared size and three           *)
(* (slice.cpp:169-203).                                                    *)
THEOREM PutStepsCount ==
    Spec => [](StepsLeft \in Nat) /\ [][StepsLeft' < StepsLeft]_vars
<1>1. Init => TakesSome
  BY DEF Init, TakesSome
<1>2. TypeOK => StepsLeft \in Nat
  BY StepsFacts
<1>3. TypeOK /\ TakesSome /\ [Next]_vars => [StepsLeft' < StepsLeft]_vars
  BY StepIsPaid
<1> QED BY <1>1, <1>2, <1>3, TakesSomeStep, PutTypeCorrect, PTL DEF Spec
-----------------------------------------------------------------------------
(* The exchange of put_file with the slices of its request.                *)

(* The client sends the body only after the first line, and has then taken *)
(* one line only, unless the PUT has failed or has no body.                *)
ExInv ==
    /\ client \in {"wait_first", "sending", "wait_second", "ok", "failed"}
    /\ got \in Nat
    /\ body.early = 0
    /\ ~body_sent => taken = 0
    /\ client \in {"wait_first", "sending"} => ~body_sent
    /\ client = "wait_second" => body_sent
    /\ client \in {"sending", "wait_second"} =>
          got >= 1 /\ (got = 1 \/ pc = "failed" \/ body.declared = 0)
    /\ client = "ok" => pc = "done"
    /\ client = "failed" /\ body.declared > 0 => late \/ pc = "failed"

(* A server step is a step of the slices.                                  *)
LEMMA ServerStepIsNext == ServerStep => Next /\ UNCHANGED exchange
  BY DEF ServerStep, Next

(* The invariant of the slices holds of the exchange.                      *)
LEMMA ExIInv == ExSpec => []IInv
<1>1. ExInit => IInv
  BY InvInit DEF ExInit
<1>2. IInv /\ [ExNext]_allvars => IInv'
  <2>1. [ExNext]_allvars => [Next]_vars
    BY ServerStepIsNext DEF ExNext, ClientStep, ReadFirst, FirstTimesOut, SendBody,
       SendFails, ReadSecond, NoSecond, allvars
  <2> QED BY <2>1, TypeStep, BytesStep, RepliesStep DEF IInv
<1> QED BY <1>1, <1>2, PTL DEF ExSpec

(* Before the body is sent nothing of it is stored, and at most one line   *)
(* has been sent unless the PUT has failed.                                *)
LEMMA BeforeTheBody ==
    ASSUME IInv, ExInv, ~body_sent, body.declared > 0
    PROVE  pc \notin {"renamed", "done"} /\ (pc # "failed" => Len(replies) <= 1)
<1>1. pc # "failed" => taken - leftover = offset
  BY DEF IInv, BytesInv, BodyInOrder
<1>2. pc # "failed" => offset = 0
  BY <1>1, ParamFacts DEF ExInv, IInv
<1>3. pc \notin {"renamed", "done"}
  BY <1>2 DEF IInv, BytesInv
<1> QED BY <1>3, LenFacts DEF IInv

(* An OK is never the line of a failure, an ERR never one of a success.    *)
LEMMA Verdicts ==
    ASSUME IInv
    PROVE  /\ Len(replies) \in Nat
           /\ \A i \in 1 .. Len(replies) :
                 /\ replies[i] # "OK" => pc = "failed"
                 /\ i > 1 /\ replies[i] = "OK" => pc = "done"
<1>1. replies \in Seq({"OK", "ERR"}) /\ Len(replies) \in Nat
      /\ pc \in {"queued", "reading", "renamed", "done", "failed"}
  BY DEF IInv, TypeOK
<1>2. pc \notin {"done", "failed"} => Len(replies) <= 1
  BY LenFacts DEF IInv
<1>3. ASSUME NEW i \in 1 .. Len(replies)
      PROVE  /\ replies[i] # "OK" => pc = "failed"
             /\ i > 1 /\ replies[i] = "OK" => pc = "done"
  <2>1. replies[i] # "OK" => pc = "failed"
    BY <1>3 DEF IInv, RepliesInv, NoErr
  <2>2. ASSUME i > 1, replies[i] = "OK" PROVE pc = "done"
    <3>1. pc \in {"done", "failed"}
      BY <1>1, <1>2, <1>3, <2>2
    <3>2. ASSUME pc = "failed" PROVE FALSE
      <4>1. i = 2 /\ Len(replies) = 2
        BY <1>1, <1>3, <2>2, <3>2 DEF IInv, RepliesInv
      <4> QED BY <4>1, <2>2, <3>2 DEF IInv, RepliesInv
    <3> QED BY <3>1, <3>2
  <2> QED BY <2>1, <2>2
<1> QED BY <1>1, <1>3

(* The invariant is inductive.                                             *)
LEMMA ExStep == IInv /\ ExInv /\ [ExNext]_allvars => ExInv'
<1> SUFFICES ASSUME IInv, ExInv, [ExNext]_allvars PROVE ExInv'
  OBVIOUS
<1>1. CASE ServerStep
  <2>1. UNCHANGED exchange /\ body' = body /\ (taken' > taken => body_sent)
    BY <1>1 DEF ServerStep, SliceStep, Failure, StartRound, StartRoundWith, ReadChunk,
       ReadChunkKeeping, EndRound, Install, Install_Anytime, Confirm, OpenFails,
       FirstOkFails, ReadFails, WriteFails, RenameFails, LastOkFails
  <2>2. taken \in Nat /\ taken' \in Nat /\ taken' >= 0
    <3>1. TypeOK'
      BY <1>1, ServerStepIsNext, TypeStep
    <3>2. TypeOK /\ body.early \in Nat /\ body' = body /\ body.sent \in Nat
      BY <2>1, ParamFacts DEF IInv
    <3> QED BY <3>1, <3>2 DEF TypeOK
  <2>3. ~body_sent' => taken' = 0
    BY <2>1, <2>2 DEF ExInv, exchange
  <2>4. pc \in {"done", "failed"} => pc' = pc
    BY <1>1 DEF ServerStep, SliceStep, Failure, StartRound, StartRoundWith, ReadChunk,
       ReadChunkKeeping, InLoop, LoopEnds, EndRound, Install, Install_Anytime, Confirm,
       OpenFails, FirstOkFails, ReadFails, WriteFails, RenameFails, LastOkFails
  <2> QED BY <2>1, <2>3, <2>4 DEF ExInv, exchange
<1>2. CASE ReadFirst
  <2>1. UNCHANGED <<vars, body_sent, late>> /\ got' \in 1 .. Len(replies)
        /\ client = "wait_first"
    BY <1>2 DEF ReadFirst
  <2>2. got' \in Nat /\ got' >= 1 /\ (got' = 1 \/ pc = "failed" \/ body.declared = 0)
    <3>1. body.declared \in Nat
      BY ParamFacts DEF IInv
    <3> QED BY <2>1, <3>1, BeforeTheBody, Verdicts DEF ExInv
  <2>3. replies[1] # "OK" => pc = "failed"
    BY <2>1, Verdicts
  <2> QED BY <1>2, <2>1, <2>2, <2>3 DEF ReadFirst, ExInv, vars
<1>3. CASE FirstTimesOut
  BY <1>3 DEF FirstTimesOut, ExInv, vars
<1>4. CASE SendBody
  BY <1>4 DEF SendBody, ExInv, vars
<1>5. CASE SendFails
  BY <1>5 DEF SendFails, ExInv, vars
<1>6. CASE ReadSecond
  <2>1. got + 1 \in 1 .. Len(replies) /\ got + 1 > 1 /\ got' \in Nat
    BY <1>6, Verdicts DEF ReadSecond, ExInv
  <2> QED BY <1>6, <2>1, Verdicts DEF ReadSecond, ExInv, vars
<1>7. CASE NoSecond
  <2>1. pc = "done" => got = 2
    BY <1>7 DEF NoSecond, IInv, RepliesInv
  <2>2. body.declared > 0 => late' \/ pc = "failed"
    <3>1. client = "wait_second" /\ (~Closed => late')
      BY <1>7 DEF NoSecond
    <3>2. body.declared > 0 /\ pc # "failed" => ~Closed
      <4>1. body.declared \in Nat
        BY ParamFacts DEF IInv
      <4> QED BY <3>1, <2>1, <4>1 DEF ExInv, Closed
    <3> QED BY <3>1, <3>2
  <2> QED BY <1>7, <2>2 DEF NoSecond, ExInv, vars, Closed
<1>8. CASE UNCHANGED allvars
  BY <1>8 DEF allvars, exchange, vars, ExInv
<1> QED BY <1>1, <1>2, <1>3, <1>4, <1>5, <1>6, <1>7, <1>8 DEF ExNext, ClientStep

(* The invariants of the exchange.                                         *)
LEMMA ExInvHolds == ExSpec => [](IInv /\ ExInv)
<1>1. ExInit => ExInv
  BY DEF ExInit, Init, ExInv
<1> QED BY <1>1, ExStep, ExIInv, PTL DEF ExSpec

(* put_file reports success only for a body that is in place as a whole.   *)
THEOREM ExchangeConfirmedIsStored == ExSpec => []ConfirmedIsStored
<1>1. IInv /\ ExInv => ConfirmedIsStored
  BY DEF IInv, BytesInv, ExInv, ConfirmedIsStored
<1> QED BY <1>1, ExInvHolds, PTL

(* If no file is empty, put_file reports failure of a PUT that is done     *)
(* only after a timeout.                                                   *)
THEOREM ExchangeStoredIsConfirmed ==
    ASSUME \A b \in Bodies : b.declared > 0
    PROVE  ExSpec => []StoredIsConfirmed
<1>1. IInv /\ ExInv => StoredIsConfirmed
  BY DEF IInv, TypeOK, ExInv, StoredIsConfirmed
<1> QED BY <1>1, ExInvHolds, PTL

(* Client and server never wait for each other.                            *)
THEOREM ExchangeNoMutualWait == ExSpec => []NoMutualWait
<1>1. IInv /\ ExInv => NoMutualWait
  <2> SUFFICES ASSUME IInv, ExInv, ServerWaits, ClientWaits PROVE FALSE
    BY DEF NoMutualWait
  <2>1. Len(replies) = 1 /\ ~body_sent
    BY DEF IInv, BytesInv, RepliesInv, ServerWaits, InLoop
  <2>2. replies # << >>
    <3>1. Len(<< >>) = 0 /\ 0 # 1
      OBVIOUS
    <3> QED BY <2>1, <3>1, Zenon
  <2> QED BY <2>1, <2>2 DEF ClientWaits, ExInv
<1> QED BY <1>1, ExInvHolds, PTL
=============================================================================
