---------------------------- MODULE PutExchange -----------------------------
(***************************************************************************)
(* put_file of the client (common/client_ops.cpp) against the slices of    *)
(* its PUT.  The response lines travel on a byte stream: one recv() of the *)
(* client may return several of them.  The client waits for the first OK   *)
(* before it sends the body, so nothing of it comes with the header.       *)
(***************************************************************************)
EXTENDS PutSlice

VARIABLES
    client,     \* where put_file is, or what it returned: ok, failed
    got,        \* how many response lines the client has taken off the stream
    body_sent,  \* the body is on the connection
    late        \* the client ran into a timeout

exchange == <<client, got, body_sent, late>>
allvars == <<vars, exchange>>

ExInit ==
    /\ Init
    /\ body.early = 0 /\ body.sent = body.declared
    /\ client = "wait_first" /\ got = 0 /\ body_sent = FALSE /\ late = FALSE

(* A slice reads the body only once it is there.                           *)
ServerStep ==
    /\ SliceStep \/ Failure
    /\ taken' > taken => body_sent
    /\ UNCHANGED exchange

Closed == pc \in {"done", "failed"}     \* the server closes the connection

(* read_header_line returns the first line; whatever else it received is   *)
(* in hdr1.leftover, which put_file drops.                                 *)
ReadFirst ==
    /\ client = "wait_first"
    /\ got' \in 1 .. Len(replies)
    /\ client' = IF replies[1] = "OK" THEN "sending" ELSE "failed"
    /\ UNCHANGED <<vars, body_sent, late>>

FirstTimesOut ==
    /\ client = "wait_first" /\ replies = <<>>
    /\ client' = "failed" /\ late' = TRUE
    /\ UNCHANGED <<vars, got, body_sent>>

SendBody_AtOnce ==                      \* a faulty variant: does not wait
    /\ client \in {"wait_first", "sending"}
    /\ client = "wait_first" => ~body_sent
    /\ body_sent' = TRUE
    /\ client' = IF client = "sending" THEN "wait_second" ELSE client
    /\ UNCHANGED <<vars, got, late>>
SendBody ==
    /\ client = "sending"
    /\ body_sent' = TRUE
    /\ client' = "wait_second"
    /\ UNCHANGED <<vars, got, late>>

SendFails ==
    /\ client = "sending" /\ pc = "failed" /\ body.declared > 0
    /\ client' = "failed"
    /\ UNCHANGED <<vars, got, body_sent, late>>

ReadSecond ==
    /\ client = "wait_second" /\ got < Len(replies)
    /\ got' = Len(replies)
    /\ client' = IF replies[got + 1] = "OK" THEN "ok" ELSE "failed"
    /\ UNCHANGED <<vars, body_sent, late>>

(* No further line comes before the timeout, or before the server closes.  *)
NoSecond ==
    /\ client = "wait_second" /\ got = Len(replies)
    /\ client' = "failed" /\ late' = (late \/ ~Closed)
    /\ UNCHANGED <<vars, got, body_sent>>

ClientStep ==
    ReadFirst \/ FirstTimesOut \/ SendBody \/ SendFails \/ ReadSecond \/ NoSecond

ExNext == ServerStep \/ ClientStep

ExSpec == ExInit /\ [][ExNext]_allvars
-----------------------------------------------------------------------------
(* put_file reports success only for a body that is in place as a whole.   *)
ConfirmedIsStored == client = "ok" => stored = body.declared

(* put_file reports failure of a PUT that the server counts as done only   *)
(* if it lost patience ("put/get exit non-zero on failure", README.md:57). *)
StoredIsConfirmed == pc = "done" /\ client = "failed" => late

(* Client and server never wait for each other, each for bytes that the    *)
(* other sends only later: the timeouts are not what ends an exchange.     *)
ServerWaits == InLoop /\ FromSocket > 0 /\ ~body_sent
ClientWaits ==
    \/ client = "wait_first" /\ replies = <<>>
    \/ client = "wait_second" /\ got = Len(replies)
NoMutualWait == ~(ServerWaits /\ ClientWaits)
=============================================================================
