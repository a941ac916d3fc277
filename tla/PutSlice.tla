------------------------------ MODULE PutSlice -------------------------------
(***************************************************************************)
(* serve_put (server/slice.cpp): the slices of one PUT request, chunk by   *)
(* chunk.  A body byte is its position in what the client sends.  The read *)
(* of the header has taken the first ones, `early' of them, off the        *)
(* connection: they are in Request::leftover.  What two requests do to the *)
(* same file is the matter of FileStore.                                   *)
(***************************************************************************)
EXTENDS Policies, Integers, Sequences

CONSTANTS
    Params,     \* the SliceParams considered: policy and quantum
    Bodies,     \* bytes declared, bytes sent, bytes that came with the header
    Chunk       \* kChunk

ASSUME PutAssumption ==
    /\ Chunk \in Nat \ {0}
    /\ Params \subseteq [policy : Policies, quantum : Nat]
    /\ \A p \in Params : Bounded(p.policy) => p.quantum > 0
    /\ Bodies \subseteq [declared : Nat, sent : Nat, early : Nat]
    /\ \A b \in Bodies : b.early <= b.sent

VARIABLES
    sp,         \* the SliceParams the server was started with
    body,       \* the body and Request::bytes
    pc,         \* queued, reading (a worker is in the loop), renamed, done, failed
    offset,     \* byte_offset
    rounds,     \* rounds
    leftover,   \* leftover.size()
    taken,      \* the next byte on the connection
    temp,       \* the temporary file: NoFile, its length if it holds the
                \* first bytes of the body in order, or Garbled
    stored,     \* what the last byte installed, or NoFile
    replies,    \* the response lines sent
    take, done  \* locals take and done

request == <<offset, rounds, leftover>>
vars == <<sp, body, pc, request, taken, temp, stored, replies, take, done>>

NoFile == -1
Garbled == -2

Lesser(a, b) == IF a < b THEN a ELSE b

Init ==
    /\ sp \in Params
    /\ body \in Bodies
    /\ pc = "queued"
    /\ offset = 0 /\ rounds = 0
    /\ leftover = body.early /\ taken = body.early
    /\ temp = NoFile /\ stored = NoFile
    /\ replies = <<>>
    /\ take = 0 /\ done = 0

started == temp # NoFile
Reply(line) == replies' = Append(replies, line)

(* A file of the first `got' bytes after `n' more from `from' on.          *)
Written(got, from, n) ==
    IF n = 0 THEN got ELSE IF got = from THEN got + n ELSE Garbled

(* serve_put returns: its locals are gone.                                 *)
Return(status) == pc' = status /\ take' = 0 /\ done' = 0
Refuse == Return("failed") /\ Reply("ERR")

(* The start of a slice: the first one opens the temporary file and tells  *)
(* the client to go on.                                                    *)
Take_All == body.declared - offset      \* a faulty variant: no quantum
Take ==
    IF Bounded(sp.policy) THEN Lesser(sp.quantum, body.declared - offset)
                          ELSE body.declared - offset

StartRoundWith(first_reply) ==
    /\ pc = "queued"
    /\ rounds' = rounds + 1
    /\ pc' = "reading" /\ take' = Take /\ done' = 0
    /\ IF started THEN UNCHANGED <<temp, replies>> ELSE temp' = 0 /\ first_reply
    /\ UNCHANGED <<sp, body, offset, leftover, taken, stored>>
StartRound_Silent == StartRoundWith(UNCHANGED replies)   \* a faulty variant
StartRound == StartRoundWith(Reply("OK"))

OpenFails ==
    /\ pc = "queued" /\ ~started
    /\ rounds' = rounds + 1
    /\ Refuse
    /\ UNCHANGED <<sp, body, offset, leftover, taken, temp, stored>>

FirstOkFails ==
    /\ pc = "queued" /\ ~started
    /\ rounds' = rounds + 1
    /\ temp' = 0
    /\ Return("failed")
    /\ UNCHANGED <<sp, body, offset, leftover, taken, stored, replies>>

(* read_exact: first from leftover, then from the connection.              *)
N == Lesser(Chunk, take - done)
InLoop == pc = "reading" /\ done < take
Kept == Lesser(leftover, N)             \* of the chunk, what leftover has
FromSocket == N - Kept

FileAfterRead ==
    Written(Written(temp, body.early - leftover, Kept), taken, FromSocket)

ReadChunkKeeping(erased) ==
    /\ InLoop
    /\ taken + FromSocket <= body.sent
    /\ temp' = FileAfterRead
    /\ leftover' = leftover - erased
    /\ taken' = taken + FromSocket
    /\ offset' = offset + N
    /\ done' = done + N
    /\ UNCHANGED <<sp, body, pc, rounds, stored, replies, take>>
ReadChunk_NoErase == ReadChunkKeeping(0)            \* a faulty variant
ReadChunk == ReadChunkKeeping(Kept)

(* The body ends early or does not come in time; what came is dropped.     *)
ReadFails ==
    /\ InLoop /\ FromSocket > 0
    /\ \E n \in 0 .. FromSocket - 1 :
          taken + n <= body.sent /\ taken' = taken + n
    /\ leftover' = leftover - Kept
    /\ Refuse
    /\ UNCHANGED <<sp, body, offset, rounds, temp, stored>>

(* A part of the chunk may be in the file, which release_request unlinks.  *)
WriteFails ==
    /\ InLoop
    /\ taken + FromSocket <= body.sent
    /\ leftover' = leftover - Kept
    /\ taken' = taken + FromSocket
    /\ Refuse
    /\ UNCHANGED <<sp, body, offset, rounds, temp, stored>>

LoopEnds == pc = "reading" /\ done = take

EndRound ==
    /\ LoopEnds /\ offset < body.declared
    /\ Return("queued")
    /\ UNCHANGED <<sp, body, request, taken, temp, stored, replies>>

(* The last byte is in: close, rename, then the second OK.                 *)
Install_Anytime ==                                  \* a faulty variant
    /\ LoopEnds
    /\ stored' = temp
    /\ Return("renamed")
    /\ UNCHANGED <<sp, body, request, taken, temp, replies>>
Install == offset >= body.declared /\ Install_Anytime

RenameFails ==
    /\ LoopEnds /\ offset >= body.declared
    /\ Refuse
    /\ UNCHANGED <<sp, body, request, taken, temp, stored>>

Confirm ==
    /\ pc = "renamed"
    /\ Return("done")
    /\ Reply("OK")
    /\ UNCHANGED <<sp, body, request, taken, temp, stored>>

LastOkFails ==
    /\ pc = "renamed"
    /\ Return("failed")
    /\ UNCHANGED <<sp, body, request, taken, temp, stored, replies>>

SliceStep ==
    StartRound \/ ReadChunk \/ EndRound \/ Install \/ Confirm
Failure ==
    \/ OpenFails \/ FirstOkFails \/ ReadFails \/ WriteFails
    \/ RenameFails \/ LastOkFails

Next == SliceStep \/ Failure

Spec == Init /\ [][Next]_vars

-----------------------------------------------------------------------------
(* The counters stay in their ranges; no subtraction wraps.                *)
TypeOK ==
    /\ sp \in Params /\ body \in Bodies
    /\ pc \in {"queued", "reading", "renamed", "done", "failed"}
    /\ offset \in 0 .. body.declared
    /\ rounds \in Nat
    /\ leftover \in 0 .. body.early
    /\ taken \in body.early .. body.sent
    /\ temp \in {NoFile, Garbled} \cup Nat
    /\ stored \in {NoFile, Garbled} \cup Nat
    /\ replies \in Seq({"OK", "ERR"})
    /\ take \in 0 .. body.declared
    /\ done \in 0 .. take

(* However the body is split between the segment of the header and later   *)
(* ones, and between chunks and rounds, the file gets its bytes once and   *)
(* in order (slice.cpp:174-188 with protocol.cpp:208-229).                 *)
BodyInOrder ==
    pc # "failed" => taken - leftover = offset /\ (started => temp = offset)

(* Only the declared bytes are read: what follows them, beyond the segment *)
(* of the header, stays on the connection (README.md:89, "exactly").       *)
NothingBeyond ==
    /\ taken > body.early => taken <= body.declared
    /\ body.early - leftover <= body.declared

(* A9, A13: a round that is preempted has read its quantum to the byte, so *)
(* the size and the quantum determine the number of rounds.                *)
RoundsExact ==
    /\ Bounded(sp.policy) /\ pc = "queued" => offset = rounds * sp.quantum
    /\ pc = "done" =>
          IF Bounded(sp.policy) /\ body.declared > 0
          THEN (rounds - 1) * sp.quantum < body.declared
               /\ body.declared <= rounds * sp.quantum
          ELSE rounds = 1

(* What the client is told is true: after the second OK the whole body is  *)
(* in place, and a PUT that was refused has left the destination alone.    *)
VerdictIsTrue ==
    /\ replies = <<"OK", "OK">> => stored = body.declared
    /\ "ERR" \in {replies[i] : i \in DOMAIN replies} => stored = NoFile
=============================================================================
