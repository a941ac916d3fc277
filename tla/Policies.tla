------------------------------ MODULE Policies ------------------------------
(* The scheduling policies of --sched.                                     *)

Policies == {"fcfs", "sjf", "rr", "drr"}

(* Only rr and drr bound the work of a slice, so only they preempt.        *)
Bounded(policy) == policy \in {"rr", "drr"}
=============================================================================
