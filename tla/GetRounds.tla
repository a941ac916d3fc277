----------------------------- MODULE GetRounds ------------------------------
(***************************************************************************)
(* What the rounds of a GET promise: each round sends, in one step, the    *)
(* longest run of whole lines its allowance covers.  There is no batch, no *)
(* chunk and no number of lines per write here, which is how the README's  *)
(* claim that --p changes neither what is sent nor the accounting becomes  *)
(* a refinement: module GetSlice implements this one for every --p.        *)
(***************************************************************************)
EXTENDS SliceParameters

VARIABLES
    sp,         \* the SliceParams the server was started with
    file,       \* the file the request was opened on, fixed at admission
    offset,     \* bytes sent in completed rounds
    rounds,     \* completed rounds
    forfeited,  \* Request::forfeited_bytes
    deficit,    \* Request::deficit
    status      \* queued (for its next round), done or failed

vars == <<sp, file, offset, rounds, forfeited, deficit, status>>

Init ==
    /\ sp \in Params
    /\ file \in Files
    /\ offset = 0 /\ rounds = 0 /\ forfeited = 0 /\ deficit = 0
    /\ status = "queued"

(* The allowance of a round; the sum saturates instead of wrapping.        *)
Allowance ==
    CASE sp.policy = "rr"  -> sp.quantum
      [] sp.policy = "drr" -> Min({Unbounded, deficit + sp.quantum})
      [] OTHER          -> Unbounded

(* The last boundary that whole lines from offset on reach within a bytes. *)
Reach(a) == Max({b \in Boundaries(file) : offset <= b /\ b <= offset + a})

(* A14: under rr a line longer than the quantum that starts a round.       *)
Oversized ==
    /\ sp.policy = "rr"
    /\ offset < file.size
    /\ LineLength(file, offset) > sp.quantum

OversizedRound ==
    /\ status = "queued"
    /\ Oversized
    /\ offset' = LineEnd(file, offset)
    /\ rounds' = rounds + 1
    /\ status' = IF offset' = file.size THEN "done" ELSE "queued"
    /\ UNCHANGED <<sp, file, forfeited, deficit>>

(* A13: the round stops before the first line that does not fit.           *)
PreemptedRound ==
    /\ status = "queued"
    /\ ~Oversized
    /\ Reach(Allowance) < file.size
    /\ offset' = Reach(Allowance)
    /\ rounds' = rounds + 1
    /\ LET unused == Allowance - (offset' - offset) IN
          IF sp.policy = "rr"
          THEN forfeited' = forfeited + unused /\ UNCHANGED deficit
          ELSE deficit' = unused /\ UNCHANGED forfeited
    /\ UNCHANGED <<sp, file, status>>

LastRound ==
    /\ status = "queued"
    /\ ~Oversized
    /\ Reach(Allowance) = file.size
    /\ offset' = file.size
    /\ rounds' = rounds + 1
    /\ deficit' = 0
    /\ status' = "done"
    /\ UNCHANGED <<sp, file, forfeited>>

(* A send or a read failed during the round; the request ends there.       *)
Fail ==
    /\ status = "queued"
    /\ status' = "failed"
    /\ UNCHANGED <<sp, file, offset, rounds, forfeited, deficit>>

Next == OversizedRound \/ PreemptedRound \/ LastRound \/ Fail

Spec == Init /\ [][Next]_vars
FairSpec == Spec /\ WF_vars(Next)
=============================================================================
