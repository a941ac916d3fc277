--------------------------- MODULE MCRequestQueue ---------------------------
(* Small instances of RequestQueue for TLC.                                *)
EXTENDS RequestQueue, TLC

CONSTANTS r1, r2, r3, w1, w2

MCRequests == {r1, r2, r3}
MCWorkers == {w1, w2}
MCBytes == (r1 :> 2) @@ (r2 :> 1) @@ (r3 :> 2)
=============================================================================
