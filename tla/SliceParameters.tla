-------------------------- MODULE SliceParameters ---------------------------
(* What the slices of GET requests are given: files and SliceParams.       *)
EXTENDS Policies, FileLines, Integers

CONSTANTS
    Params,     \* the SliceParams considered: policy, quantum, p_lines
    Chunk,      \* kChunk
    Unbounded   \* kUnbounded, the largest uint64_t

(* The quantum is positive where the command line demands one, and p_lines *)
(* is any int: the cast of --p (main.cpp:81) may leave 0 or less.          *)
ASSUME ParametersAssumption ==
    /\ Unbounded \in Nat
    /\ Chunk \in Nat
    /\ Params \subseteq [policy : Policies, quantum : 0 .. Unbounded, p_lines : Int]
    /\ \A p \in Params : Bounded(p.policy) => p.quantum > 0
    /\ \A f \in Files : f.size <= Unbounded
=============================================================================
