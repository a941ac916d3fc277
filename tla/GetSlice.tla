------------------------------ MODULE GetSlice ------------------------------
(***************************************************************************)
(* serve_get (server/slice.cpp): the slices of one GET request, line by    *)
(* line, with the batching of lines into writes and the state kept in the  *)
(* Request between slices.  Between two slices the request waits in the    *)
(* scheduler's queue and any worker may run the next one.                  *)
(***************************************************************************)
EXTENDS SliceParameters

VARIABLES
    sp,         \* the SliceParams the server was started with
    file,       \* what file_fd refers to, fixed at admission
    pc,         \* queued, sending (a worker is in the loop), done, failed
    offset,     \* byte_offset
    rounds,     \* rounds
    forfeited,  \* forfeited_bytes
    deficit,    \* deficit
    left,       \* local left
    sent,       \* local sent_this_round
    batch,      \* batch.data.size(): the bytes just before offset
    lines,      \* batch.lines
    wire,       \* what the client got: NoHeader, the number of body bytes
                \* that followed the header in order, or Garbled
    overrun     \* sum of line_bytes - quantum over the A14 log lines

request == <<offset, rounds, forfeited, deficit>>
locals == <<left, sent, batch, lines>>
vars == <<sp, file, pc, request, locals, wire, overrun>>

NoHeader == -1
Garbled == -2

P == IF sp.p_lines > 1 THEN sp.p_lines ELSE 1
Line == LineLength(file, offset)

Init ==
    /\ sp \in Params
    /\ file \in Files
    /\ pc = "queued"
    /\ offset = 0 /\ rounds = 0 /\ forfeited = 0 /\ deficit = 0
    /\ left = 0 /\ sent = 0 /\ batch = 0 /\ lines = 0
    /\ wire = NoHeader
    /\ overrun = 0

(* The client after the body bytes from .. to - 1 follow what it has got.  *)
Deliver(got, from, to) == IF got = from THEN to ELSE Garbled

(* Batch::flush; nothing is sent for an empty batch.                       *)
Flushed == IF batch = 0 THEN wire ELSE Deliver(wire, offset - batch, offset)

(* serve_get returns: its locals are gone.                                 *)
Return(status) ==
    /\ pc' = status
    /\ left' = 0 /\ sent' = 0 /\ batch' = 0 /\ lines' = 0

(* Faulty variants of the definitions below, which the properties must     *)
(* tell from the real ones.                                                *)
StartRound_With(allowance) ==
    /\ pc = "queued"
    /\ pc' = "sending"
    /\ rounds' = rounds + 1
    /\ wire' = IF wire = NoHeader THEN 0 ELSE wire
    /\ left' = allowance
    /\ UNCHANGED <<sp, file, offset, forfeited, deficit, sent, batch, lines, overrun>>
StartRound_NoCarry == StartRound_With(sp.quantum)      \* the deficit is not used
StartRound_Wraps ==                                 \* uint64_t overflow
    StartRound_With((deficit + sp.quantum) % (Unbounded + 1))

Oversized_MidRound == sp.policy = "rr" /\ Line > sp.quantum    \* A14 at any point
Preempt_With(got, to, lost, kept, status) ==
    /\ pc = "sending" /\ offset < file.size
    /\ Bounded(sp.policy) /\ ~(sp.policy = "rr" /\ sent = 0 /\ Line > sp.quantum) /\ Line > left
    /\ wire' = got /\ offset' = to
    /\ IF sp.policy = "rr"
       THEN forfeited' = lost /\ UNCHANGED deficit
       ELSE deficit' = kept /\ UNCHANGED forfeited
    /\ Return(status)
    /\ UNCHANGED <<sp, file, rounds, overrun>>
Preempt_Assigns == Preempt_With(Flushed, offset, left, left, "queued")
Preempt_Adds == Preempt_With(Flushed, offset, forfeited + left, deficit + left, "queued")
Preempt_Spins == Preempt_With(Flushed, offset, forfeited, left, "sending")

SendLong_NoFlush ==                                 \* streams past the batch
    /\ pc = "sending" /\ offset < file.size
    /\ ~(sp.policy = "rr" /\ sent = 0 /\ Line > sp.quantum) /\ ~(Bounded(sp.policy) /\ Line > left)
    /\ Line > Chunk
    /\ wire' = Deliver(wire, offset, offset + Line)
    /\ batch' = 0 /\ lines' = 0
    /\ offset' = offset + Line /\ sent' = sent + Line
    /\ left' = IF Bounded(sp.policy) THEN left - Line ELSE left
    /\ UNCHANGED <<sp, file, pc, rounds, forfeited, deficit, overrun>>

(* The start of a slice; the header goes out in the first one only.        *)
StartRound ==
    /\ pc = "queued"
    /\ pc' = "sending"
    /\ rounds' = rounds + 1
    /\ wire' = IF wire = NoHeader THEN 0 ELSE wire
    /\ left' = CASE sp.policy = "rr"  -> sp.quantum
                 [] sp.policy = "drr" -> IF deficit > Unbounded - sp.quantum
                                      THEN Unbounded ELSE deficit + sp.quantum
                 [] OTHER          -> Unbounded
    /\ UNCHANGED <<sp, file, offset, forfeited, deficit, sent, batch, lines, overrun>>

Oversized == sp.policy = "rr" /\ sent = 0 /\ Line > sp.quantum
NoRoom == Bounded(sp.policy) /\ ~Oversized /\ Line > left
AtLine == pc = "sending" /\ offset < file.size

(* A14: the line is streamed in full and the slice ends.                   *)
SendOversized ==
    /\ AtLine
    /\ Oversized
    /\ wire' = Deliver(Flushed, offset, offset + Line)
    /\ offset' = offset + Line
    /\ overrun' = overrun + (Line - sp.quantum)
    /\ Return(IF offset' >= file.size THEN "done" ELSE "queued")
    /\ UNCHANGED <<sp, file, rounds, forfeited, deficit>>

(* A13: the next line does not fit in what is left.                        *)
Preempt ==
    /\ AtLine
    /\ NoRoom
    /\ wire' = Flushed
    /\ IF sp.policy = "rr"
       THEN forfeited' = forfeited + left /\ UNCHANGED deficit
       ELSE deficit' = left /\ UNCHANGED forfeited
    /\ Return("queued")
    /\ UNCHANGED <<sp, file, offset, rounds, overrun>>

(* A line that fits is charged to the allowance and sent: by itself if it  *)
(* is longer than a chunk, otherwise with the batch once P lines are in.   *)
Charge ==
    /\ offset' = offset + Line
    /\ sent' = sent + Line
    /\ left' = IF Bounded(sp.policy) THEN left - Line ELSE left

SendLong ==
    /\ AtLine /\ ~Oversized /\ ~NoRoom
    /\ Line > Chunk
    /\ wire' = Deliver(Flushed, offset, offset + Line)
    /\ batch' = 0 /\ lines' = 0
    /\ Charge
    /\ UNCHANGED <<sp, file, pc, rounds, forfeited, deficit, overrun>>

Full == lines + 1 >= P

SendBatched ==
    /\ AtLine /\ ~Oversized /\ ~NoRoom
    /\ Line <= Chunk
    /\ IF Full
       THEN /\ wire' = Deliver(wire, offset - batch, offset + Line)
            /\ batch' = 0 /\ lines' = 0
       ELSE /\ batch' = batch + Line /\ lines' = lines + 1
            /\ UNCHANGED wire
    /\ Charge
    /\ UNCHANGED <<sp, file, pc, rounds, forfeited, deficit, overrun>>

(* The loop ends at the end of the file.                                   *)
Finish ==
    /\ pc = "sending"
    /\ offset >= file.size
    /\ wire' = Flushed
    /\ deficit' = 0
    /\ Return("done")
    /\ UNCHANGED <<sp, file, offset, rounds, forfeited, overrun>>

(* A send fails or times out, or a read returns nothing.  What part of the *)
(* data of that send arrived no longer matters: the socket is closed.      *)
Fail ==
    /\ pc = "sending"
    /\ pc' = "failed"
    /\ UNCHANGED <<sp, file, request, locals, wire, overrun>>

SliceStep == SendOversized \/ Preempt \/ SendLong \/ SendBatched \/ Finish
Next == StartRound \/ SliceStep \/ Fail

Spec == Init /\ [][Next]_vars

(* A queued request gets its next slice (WorkQueue!WaitingIsTaken) and a   *)
(* worker in the loop runs, the sends being bounded by their timeout.      *)
FairSpec == Spec /\ WF_vars(StartRound) /\ WF_vars(SliceStep)
-----------------------------------------------------------------------------
TypeOK ==
    /\ sp \in Params
    /\ file \in Files
    /\ pc \in {"queued", "sending", "done", "failed"}
    /\ {offset, rounds, forfeited, sent, batch, lines, overrun} \subseteq Nat
    /\ {deficit, left} \subseteq 0 .. Unbounded
    /\ offset <= file.size
    /\ wire \in Int

(* The client receives the header once and then the file's bytes from the  *)
(* first on, each once and in order, whatever batches and streamed lines   *)
(* they went out in; between slices nothing is held back in a batch, and a *)
(* slice that ends DONE has sent the whole file (slice.cpp:107-141).       *)
WireInOrder ==
    /\ pc = "queued" => wire = IF rounds = 0 THEN NoHeader ELSE offset
    /\ pc = "sending" => wire + batch = offset /\ wire >= 0
    /\ pc = "done" => wire = file.size

(* A6: no line is ever split between two slices, so whatever the worker    *)
(* that continues the transfer, it finds offset at the start of a line.    *)
WholeLines == offset \in Boundaries(file)

(* Every byte of allowance is accounted for (A13, A14): the Q bytes of     *)
(* each rr round are sent, forfeited or still left, and the only bytes     *)
(* sent beyond them are those the A14 log lines report.                    *)
RrAccounting ==
    sp.policy = "rr" /\ pc \in {"queued", "sending"} =>
        offset + forfeited + left = rounds * sp.quantum + overrun

(* Under drr nothing is lost: what the rounds granted and the request did  *)
(* not use is exactly its deficit.  (The sum left starts from saturates at *)
(* kUnbounded; then the rest of the file fits in this round.)              *)
DrrAccounting ==
    sp.policy = "drr" =>
        /\ forfeited = 0 /\ overrun = 0
        /\ pc = "queued" => offset + deficit = rounds * sp.quantum
        /\ pc = "sending" => \/ offset + left = rounds * sp.quantum
                             \/ left >= file.size - offset

(* The deficit a request carries never covers its next line, so a round    *)
(* sends less than one line more than its quantum and no request can save  *)
(* up allowance at the expense of the others.                              *)
DeficitBelowLine ==
    pc = "queued" /\ offset < file.size => deficit < Line

(* How long a GET may keep coming back to the queue: under rr every round  *)
(* sends at least one line; under drr a round may send nothing, but        *)
(* preemption stops once the quanta add up to the file size (A16).         *)
LinesSent == Cardinality({e \in LineEnds(file) : e <= offset})
RoundsBounded ==
    pc = "queued" =>
        /\ Bounded(sp.policy) \/ rounds = 0
        /\ sp.policy = "rr" => rounds <= LinesSent
        /\ sp.policy = "drr" /\ rounds > 0 => rounds * sp.quantum < file.size

(* A batch holds less than P lines of at most a chunk each: serving a GET  *)
(* takes bounded memory if --p is small, whatever the lines of the file.   *)
BatchBounded == lines < P /\ batch <= lines * Chunk

(* The transfer comes to an end in every case.                             *)
Terminates == <>(pc \in {"done", "failed"})

(* --p and the chunk size change neither what the rounds send nor the      *)
(* accounting (README.md:127-130): for every p_lines and Chunk the slices  *)
(* implement the same abstract rounds.                                     *)
InRound == pc \in {"sending", "failed"}
abstract == INSTANCE GetRounds WITH
    offset <- offset - sent,
    rounds <- IF InRound THEN rounds - 1 ELSE rounds,
    status <- IF pc = "sending" THEN "queued" ELSE pc

ImplementsRounds == abstract!FairSpec
=============================================================================
