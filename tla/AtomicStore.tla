---------------------------- MODULE AtomicStore -----------------------------
(***************************************************************************)
(* What the server's directory promises its clients: a PUT takes effect in *)
(* one step or not at all, a GET gets one version of its file.  Temporary  *)
(* files, chunks and renames are the matter of FileStore, which implements *)
(* this module.                                                            *)
(***************************************************************************)
EXTENDS StoreRequests

VARIABLES
    store,      \* store[n]: the version of file n: who wrote it, or None
    status,     \* status[r]: how far request r is
    seen        \* seen[r]: the version a GET in progress is sending

vars == <<store, status, seen>>

Statuses == {"new", "active", "installed", "done", "failed", "lost"}

Init ==
    /\ store \in [Targets -> Targets \cup {None}]
    /\ \A n \in Targets : store[n] \in {n, None}
    /\ status = [r \in Requests |-> "new"]
    /\ seen = [r \in Requests |-> None]

StartPut(r) ==
    /\ Op[r] = "PUT" /\ status[r] = "new"
    /\ status' = [status EXCEPT ![r] = "active"]
    /\ UNCHANGED <<store, seen>>

StartGet(r) ==
    /\ Op[r] = "GET" /\ status[r] = "new"
    /\ store[Target[r]] # None
    /\ status' = [status EXCEPT ![r] = "active"]
    /\ seen' = [seen EXCEPT ![r] = store[Target[r]]]
    /\ UNCHANGED store

Install(r) ==
    /\ Op[r] = "PUT" /\ status[r] = "active"
    /\ status' = [status EXCEPT ![r] = "installed"]
    /\ store' = [store EXCEPT ![Target[r]] = r]
    /\ UNCHANGED seen

(* The client is told that the request succeeded: for a PUT, only once it  *)
(* has taken effect.                                                       *)
Done(r) ==
    /\ status[r] = IF Op[r] = "PUT" THEN "installed" ELSE "active"
    /\ status' = [status EXCEPT ![r] = "done"]
    /\ seen' = [seen EXCEPT ![r] = None]
    /\ UNCHANGED store

(* A PUT whose client does not learn of its success has failed although it *)
(* has taken effect.                                                       *)
Fail(r) ==
    /\ status[r] \in {"new", "active", "installed"}
    /\ status' = [status EXCEPT ![r] = "failed"]
    /\ seen' = [seen EXCEPT ![r] = None]
    /\ UNCHANGED store

(* The server dies; the files survive, the requests in progress do not.    *)
Crash ==
    /\ status' = [r \in Requests |->
                    IF status[r] \in {"active", "installed"} THEN "lost" ELSE status[r]]
    /\ seen' = [r \in Requests |-> None]
    /\ UNCHANGED store

Next ==
    \/ \E r \in Requests :
          StartPut(r) \/ StartGet(r) \/ Install(r) \/ Done(r) \/ Fail(r)
    \/ Crash

Spec == Init /\ [][Next]_vars
=============================================================================
