-------------------------- MODULE SchedulingPolicy --------------------------
(***************************************************************************)
(* What each scheduler's pick function may return for a queue.  Indexes    *)
(* are 1-based here and 0-based in the code.                               *)
(***************************************************************************)
EXTENDS Policies, Naturals, Sequences

CONSTANTS
    Scheds,     \* the policies considered
    Requests,   \* every request that may ever be admitted
    Bytes       \* Bytes[r]: Request::bytes, fixed at admission

ASSUME SchedsAssumption == Scheds \subseteq Policies
ASSUME BytesAssumption == Bytes \in [Requests -> Nat]

(* SchedulerSjf's loop: best[n] is the index it holds after n requests.    *)
SjfPick(items) ==
    LET best[n \in 1 .. Len(items)] ==
            IF n = 1 THEN 1
            ELSE LET b == best[n - 1]
                 IN  IF Bytes[items[n]] < Bytes[items[b]] THEN n ELSE b
    IN  best[Len(items)]

(* The index the policy's pick function returns for a non-empty queue.     *)
Picks(policy, items, i) == i = IF policy = "sjf" THEN SjfPick(items) ELSE 1

(* What sjf promises: index i holds a smallest request, and the first of   *)
(* the smallest ones.                                                      *)
SmallestFirst(items, i) ==
    /\ i \in DOMAIN items
    /\ \A j \in DOMAIN items : Bytes[items[i]] <= Bytes[items[j]]
    /\ \A j \in 1 .. i - 1 : Bytes[items[i]] < Bytes[items[j]]
=============================================================================
