---------------------------- MODULE MCRoundRobin ----------------------------
(* A small instance of WorkQueue and RoundRobin for TLC.                   *)
EXTENDS RoundRobin, TLC

CONSTANTS r1, r2, r3, w1, w2

MCRequests == {r1, r2, r3}
MCWorkers == {w1, w2}

(* Two requests of one size and a smaller one, so that sjf both reorders   *)
(* and breaks a tie.                                                       *)
MCBytes == (r1 :> 2) @@ (r2 :> 1) @@ (r3 :> 2)

(* The loop finds the first of the smallest, for every order of arrival.   *)
ASSUME SjfPickByDefinition ==
    \A n \in 1 .. 4 : \A queue \in [1 .. n -> Requests] : SmallestFirst(queue, SjfPick(queue))
=============================================================================
