-------------------------------- MODULE Load --------------------------------
(***************************************************************************)
(* `client load` (client/load.cpp) against a server: the files are seeded  *)
(* one after the other, then the client threads share a counter and make   *)
(* n_requests exchanges.  An exchange is a request that the server stamps, *)
(* serves and records on its own, and a client that waits for the answer   *)
(* and may give up at any moment; what goes on inside is the subject of    *)
(* PutExchange, GetSlice and Server.                                       *)
(***************************************************************************)
EXTENDS Naturals, Sequences, FiniteSets, SequencesExt

CONSTANTS
    files,          \* the workload files in the order of their names
    Size,           \* Size[f]: the size of file f
    Rounds, Forfeits,   \* Rounds[op][f], Forfeits[op][f]: what serving f costs under the policy
    n_requests,
    Picks,          \* bound: the pairs <<verb, file>> that the threads' dice may show
    Threads, Main,  \* the client threads and the thread that seeds
    Unreliable,     \* bound: the requests that may fail without need, on either side
    MaxFailures     \* bound: how many of them do

Clients == Threads \cup {Main}
Seeds == 1 .. Len(files)
Counted == Len(files) + 1 .. Len(files) + n_requests
Requests == Seeds \cup Counted
Names == ToSet(files)

ASSUME LoadAssumption ==
    /\ files \in Seq(Names) /\ files # << >>
    /\ \A f \in Names : Size[f] \in Nat
    /\ \A op \in {"GET", "PUT"}, f \in Names : Rounds[op][f] \in Nat /\ Forfeits[op][f] \in Nat
    /\ n_requests \in Nat
    /\ Picks \subseteq {"GET", "PUT"} \X Names
    /\ Threads # {} /\ Main \notin Threads
    /\ Unreliable \subseteq Requests /\ MaxFailures \in Nat

VARIABLES
    pc,         \* pc[c]: where client thread c is
    at,         \* at[c]: the request of its current exchange
    seeded,     \* files seeded so far
    counter,    \* the shared counter
    failures,
    made,       \* made[i]: how often an exchange of request i has begun
    request,    \* request[i]: what the server knows of request i
    rows,       \* the rows of the metrics file
    clock       \* the server's monotonic clock

clientVars == <<pc, at, seeded, counter, failures, made>>
serverVars == <<request, rows, clock>>
vars == <<clientVars, serverVars>>

NoRequest == [op |-> "none", filename |-> "none", stage |-> "none", arrival_ns |-> 0, start_ns |-> 0]

Init ==
    /\ pc = [c \in Clients |-> IF c = Main THEN "seed" ELSE "unborn"]
    /\ at = [c \in Clients |-> 0]
    /\ seeded = 0 /\ counter = 0 /\ failures = 0
    /\ made = [i \in Requests |-> 0]
    /\ request = [i \in Requests |-> NoRequest]
    /\ rows = << >>
    /\ clock = 1
-----------------------------------------------------------------------------
(* put_file and get_file of request i begin.                               *)
Begin(c, i, op, f) ==
    /\ made' = [made EXCEPT ![i] = @ + 1]
    /\ request' = [request EXCEPT ![i] = [NoRequest EXCEPT !.op = op, !.filename = f, !.stage = "sent"]]
    /\ at' = [at EXCEPT ![c] = i]
    /\ pc' = [pc EXCEPT ![c] = "exchange"]
    /\ UNCHANGED <<rows, clock>>

SeedNext ==
    /\ pc[Main] = "seed"
    /\ seeded < Len(files)
    /\ Begin(Main, seeded + 1, "PUT", files[seeded + 1])
    /\ UNCHANGED <<seeded, counter, failures>>

StartThreads ==
    /\ pc[Main] = "seed"
    /\ seeded = Len(files)
    /\ pc' = [c \in Clients |-> IF c = Main THEN "join" ELSE "claim"]
    /\ UNCHANGED <<at, seeded, counter, failures, made, serverVars>>

Claim_Peek(t) ==                \* the counter is read and not incremented
    /\ pc[t] = "claim"
    /\ counter < n_requests
    /\ \E pick \in Picks : Begin(t, Len(files) + counter + 1, pick[1], pick[2])
    /\ UNCHANGED <<seeded, counter, failures>>

(* fetch_add, the comparison, the choice of a file and of a verb.          *)
Claim(t) ==
    /\ pc[t] = "claim"
    /\ counter < n_requests
    /\ counter' = counter + 1
    /\ \E pick \in Picks : Begin(t, Len(files) + counter + 1, pick[1], pick[2])
    /\ UNCHANGED <<seeded, failures>>

LeaveLoop(t) ==
    /\ pc[t] = "claim"
    /\ counter >= n_requests
    /\ counter' = counter + 1
    /\ pc' = [pc EXCEPT ![t] = "exited"]
    /\ UNCHANGED <<at, seeded, failures, made, serverVars>>

(* An exchange ends; main goes on to the next file, a thread to the next   *)
(* index.                                                                  *)
EndExchange(c) ==
    /\ pc[c] = "exchange"
    /\ pc' = [pc EXCEPT ![c] = IF c = Main THEN "seed" ELSE "claim"]
    /\ seeded' = IF c = Main THEN seeded + 1 ELSE seeded
    /\ UNCHANGED <<at, counter, made, serverVars>>

Succeed(c) ==
    /\ EndExchange(c)
    /\ request[at[c]].stage \in {"served", "recorded"}
    /\ UNCHANGED failures

MayFail(i) ==
    /\ i \in Unreliable
    /\ failures + Cardinality({j \in Requests : request[j].stage = "failed"}) < MaxFailures

(* Whatever the server has done by then: the client's deadline passes, or  *)
(* the connection breaks on its side.                                      *)
Fail(c) ==
    /\ EndExchange(c)
    /\ request[at[c]].stage = "failed" \/ MayFail(at[c])
    /\ failures' = failures + 1

Join ==
    /\ pc[Main] = "join"
    /\ \A t \in Threads : pc[t] = "exited"
    /\ pc' = [pc EXCEPT ![Main] = "exited"]
    /\ UNCHANGED <<at, seeded, counter, failures, made, serverVars>>
-----------------------------------------------------------------------------
(* The server's side of request i: admission, service, and the row, which  *)
(* follows the answer.  Between the stamp of the first slice and the       *)
(* answer nothing is stamped, so they are one step.                        *)
Arrive(i) ==
    /\ request[i].stage = "sent"
    /\ request' = [request EXCEPT ![i].stage = "arrived", ![i].arrival_ns = clock]
    /\ clock' = clock + 1
    /\ UNCHANGED <<clientVars, rows>>

(* A file exists once a PUT of it has been under way.                      *)
Stored(f) ==
    \E i \in Requests :
        /\ request[i].op = "PUT" /\ request[i].filename = f
        /\ request[i].stage \in {"served", "recorded", "failed"}

Serve(i) ==
    /\ request[i].stage = "arrived"
    /\ request[i].op = "GET" => Stored(request[i].filename)
    /\ request' = [request EXCEPT ![i].stage = "served", ![i].start_ns = clock]
    /\ clock' = clock + 1
    /\ UNCHANGED <<clientVars, rows>>

(* An ERR or a broken connection; a GET of a file that is not there has no *)
(* other end.                                                              *)
Refuse(i) ==
    /\ request[i].stage \in {"sent", "arrived"}
    /\ \/ MayFail(i)
       \/ request[i].op = "GET" /\ ~Stored(request[i].filename)
    /\ request' = [request EXCEPT ![i].stage = "failed"]
    /\ UNCHANGED <<clientVars, rows, clock>>

Record(i) ==
    LET r == request[i] IN
    /\ r.stage = "served"
    /\ rows' = Append(rows,
                [id |-> i, op |-> r.op, filename |-> r.filename, bytes |-> Size[r.filename],
                 rounds |-> Rounds[r.op][r.filename], forfeited_bytes |-> Forfeits[r.op][r.filename],
                 arrival_ns |-> r.arrival_ns, start_ns |-> r.start_ns, finish_ns |-> clock])
    /\ clock' = clock + 1
    /\ request' = [request EXCEPT ![i].stage = "recorded"]
    /\ UNCHANGED clientVars

ServerStep == \E i \in Requests : Arrive(i) \/ Serve(i) \/ Refuse(i) \/ Record(i)

Next ==
    \/ SeedNext \/ StartThreads \/ Join
    \/ \E t \in Threads : Claim(t) \/ LeaveLoop(t)
    \/ \E c \in Clients : Succeed(c) \/ Fail(c)
    \/ ServerStep

Spec == Init /\ [][Next]_vars
-----------------------------------------------------------------------------
(* run_load returns true.                                                  *)
Succeeded == pc[Main] = "exited" /\ failures = 0

(* The server has nothing left to do, as when it has shut down.            *)
Drained == \A i \in Requests : request[i].stage \in {"none", "recorded", "failed"}

(* The shared counter: however the threads interleave, no index is taken   *)
(* twice, and when all have left, exactly the seeds and n_requests more    *)
(* exchanges have been made, failed ones included.                         *)
ExactlyRequested ==
    /\ \A i \in Requests : made[i] <= 1
    /\ pc[Main] = "exited" => \A i \in Requests : made[i] = 1
=============================================================================
