----------------------------- MODULE MCPipeline -----------------------------
(* One reference cell, one with a single server thread, one extra cell and *)
(* one aside; run_all.sh, then a session by hand.                          *)
EXTENDS Pipeline

MCRuns == <<"fcfs_ref", "rr_st1">>
MCExtraRuns == <<"drr_st1">>
MCAsideOrder == <<"aside_p1">>
MCByHand == {[only |-> {"rr_st1"}, with_extras |-> FALSE], [only |-> {"drr_st1"}, with_extras |-> FALSE]}
=============================================================================
