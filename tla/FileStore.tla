------------------------------ MODULE FileStore ------------------------------
(***************************************************************************)
(* The directory of served files under concurrent requests: the temporary  *)
(* file of a PUT, its rename onto the destination and the clean-up, the    *)
(* descriptor a GET opens at admission, and the death of the server        *)
(* process at any moment.  A request that is preempted changes nothing     *)
(* here, so slices are the matter of GetSlice and PutSlice.  An inode is   *)
(* named by the request that created it, the inode of a file that was      *)
(* there before the server by its path.                                    *)
(***************************************************************************)
EXTENDS StoreRequests

CONSTANTS
    MaxId,      \* bound on the ids given out by one server process
    MaxCrashes  \* bound on the number of crashes

ASSUME BoundsAssumption == MaxId \in Nat /\ MaxCrashes \in Nat

VARIABLES
    dir,        \* dir[p]: the inode path p leads to, or None
    data,       \* data[i]: who wrote inode i and how many bytes
    next_id,    \* g_next_id
    id,         \* id[r]: Request::id, 0 before admission
    pc,         \* pc[r]: where request r is
    tmp_path,   \* tmp_path[r]: Request::tmp_path, None if empty
    file_fd,    \* file_fd[r]: the inode Request::file_fd refers to, or None
    bytes,      \* bytes[r]: Request::bytes
    crashes     \* how often the server died

request == <<id, tmp_path, file_fd, bytes>>
vars == <<dir, data, next_id, pc, request, crashes>>

(* done and failed: the slice has returned, the request is not released.   *)
Serving == {"admitted", "receiving", "renamed", "done", "failed"}

Ids == 1 .. MaxId
Temp_WithoutId(path, i) == <<path, 1>>  \* a faulty variant: path + ".tmp"
Temp(path, i) == <<path, i>>            \* path + ".tmp." + id
Temps == {Temp(t, i) : t \in Targets, i \in Ids}
Paths == Targets \cup Temps

ASSUME NoneAssumption == None \notin Temps

(* No client asks for a name that is also a temporary one.                 *)
PlainNames == Targets \cap Temps = {}

Inodes == Requests \cup Targets
OldSize == 1                            \* of the files that were there before
Complete(i) == data[i].len = IF data[i].by \in Requests THEN Size[data[i].by] ELSE OldSize

Init ==
    /\ \E present \in SUBSET (Targets \ Temps) :
          dir = [p \in Paths |-> IF p \in present THEN p ELSE None]
    /\ data = [i \in Inodes |-> [by |-> i, len |-> IF i \in Targets THEN OldSize ELSE 0]]
    /\ next_id = 1
    /\ id = [r \in Requests |-> 0]
    /\ pc = [r \in Requests |-> "new"]
    /\ tmp_path = [r \in Requests |-> None]
    /\ file_fd = [r \in Requests |-> None]
    /\ bytes = [r \in Requests |-> 0]
    /\ crashes = 0

Goto(r, state) == pc' = [pc EXCEPT ![r] = state]

(* admit_connection: the id, and the size of a PUT as declared.            *)
TakeId(r) ==
    /\ pc[r] = "new"
    /\ next_id <= MaxId
    /\ id' = [id EXCEPT ![r] = next_id]
    /\ next_id' = next_id + 1

AdmitPut(r) ==
    /\ Op[r] = "PUT"
    /\ TakeId(r)
    /\ bytes' = [bytes EXCEPT ![r] = Size[r]]
    /\ Goto(r, "admitted")
    /\ UNCHANGED <<dir, data, tmp_path, file_fd, crashes>>

(* A GET opens its file and takes the size from fstat.                     *)
AdmitGet(r) ==
    /\ Op[r] = "GET"
    /\ dir[Target[r]] # None
    /\ TakeId(r)
    /\ file_fd' = [file_fd EXCEPT ![r] = dir[Target[r]]]
    /\ bytes' = [bytes EXCEPT ![r] = data[dir[Target[r]]].len]
    /\ Goto(r, "admitted")
    /\ UNCHANGED <<dir, data, tmp_path, crashes>>

(* The file is missing, or open or fstat fails.                            *)
RefuseGet(r) ==
    /\ Op[r] = "GET"
    /\ TakeId(r)
    /\ Goto(r, "refused")
    /\ UNCHANGED <<dir, data, tmp_path, file_fd, bytes, crashes>>

(* The first slice of a PUT opens the temporary file; O_TRUNC empties what *)
(* a crashed server may have left under that name.                         *)
OpenTemp(r) ==
    /\ Op[r] = "PUT" /\ pc[r] = "admitted"
    /\ LET path == Temp(Target[r], id[r])
           inode == IF dir[path] = None THEN r ELSE dir[path]
       IN  /\ tmp_path' = [tmp_path EXCEPT ![r] = path]
           /\ file_fd' = [file_fd EXCEPT ![r] = inode]
           /\ dir' = [dir EXCEPT ![path] = inode]
           /\ data' = [data EXCEPT ![inode] = [by |-> r, len |-> 0]]
    /\ Goto(r, "receiving")
    /\ UNCHANGED <<next_id, id, bytes, crashes>>

OpenFails(r) ==
    /\ Op[r] = "PUT" /\ pc[r] = "admitted"
    /\ Goto(r, "failed")
    /\ UNCHANGED <<dir, data, next_id, request, crashes>>

(* Some bytes of the body are written.                                     *)
Write(r) ==
    /\ pc[r] = "receiving"
    /\ data[file_fd[r]].len < bytes[r]
    /\ \E n \in 1 .. bytes[r] - data[file_fd[r]].len :
          data' = [data EXCEPT ![file_fd[r]].len = @ + n]
    /\ UNCHANGED <<dir, next_id, pc, request, crashes>>

(* Close, rename onto the destination, and set tmp_path.                   *)
Renamed(r, path_left) ==
    /\ pc[r] = "receiving"
    /\ dir[tmp_path[r]] # None
    /\ dir' = [dir EXCEPT ![Target[r]] = dir[tmp_path[r]], ![tmp_path[r]] = None]
    /\ tmp_path' = [tmp_path EXCEPT ![r] = path_left]
    /\ file_fd' = [file_fd EXCEPT ![r] = None]
    /\ Goto(r, "renamed")
    /\ UNCHANGED <<data, next_id, id, bytes, crashes>>

LastByteWritten(r) == pc[r] = "receiving" /\ data[file_fd[r]].len = bytes[r]

(* Faulty variants: the file is installed too early; tmp_path is set to    *)
(* the name the file has now.                                              *)
Rename_Early(r) == Renamed(r, None)
Rename(r) == LastByteWritten(r) /\ Renamed(r, None)

(* Closed, but the rename fails; tmp_path stays for release_request.       *)
RenameFails(r) ==
    /\ LastByteWritten(r)
    /\ file_fd' = [file_fd EXCEPT ![r] = None]
    /\ Goto(r, "failed")
    /\ UNCHANGED <<dir, data, next_id, id, tmp_path, bytes, crashes>>

(* The slice returns DONE: the client has its last OK, or the whole file.  *)
Succeed(r) ==
    /\ pc[r] = IF Op[r] = "PUT" THEN "renamed" ELSE "admitted"
    /\ Goto(r, "done")
    /\ UNCHANGED <<dir, data, next_id, request, crashes>>

(* A send, a read or a write fails: the slice returns FAILED.  (A write    *)
(* that fails may have written a part of its bytes, as Write may.)         *)
Fail(r) ==
    /\ pc[r] \in IF Op[r] = "PUT" THEN {"receiving", "renamed"} ELSE {"admitted"}
    /\ Goto(r, "failed")
    /\ UNCHANGED <<dir, data, next_id, request, crashes>>

(* Where a request is when it has been released.                           *)
Ended(state, unfinished) ==
    CASE state = "done" -> "over_done"
      [] state = "failed" -> "over_failed"
      [] state \in Serving \ {"done", "failed"} -> unfinished
      [] OTHER -> state

(* release_request: close, unlink what is left of a PUT.                   *)
Released(r, after) ==
    /\ pc[r] \in {"done", "failed"}
    /\ file_fd' = [file_fd EXCEPT ![r] = None]
    /\ dir' = after
    /\ tmp_path' = [tmp_path EXCEPT ![r] = None]
    /\ Goto(r, Ended(pc[r], pc[r]))
    /\ UNCHANGED <<data, next_id, id, bytes, crashes>>
Release_KeepsTemp(r) == Released(r, dir)        \* a faulty variant: no unlink
Release_UnlinksPath(r) ==                       \* another: the wrong path
    Released(r, IF tmp_path[r] = None THEN dir ELSE [dir EXCEPT ![Target[r]] = None])
Release(r) ==
    Released(r, IF tmp_path[r] = None THEN dir ELSE [dir EXCEPT ![tmp_path[r]] = None])

(* The server process is killed and started again.  The directory is as it *)
(* was, the ids start again from 1.                                        *)
Crash ==
    /\ crashes < MaxCrashes
    /\ crashes' = crashes + 1
    /\ next_id' = 1
    /\ pc' = [r \in Requests |-> Ended(pc[r], "lost")]
    /\ tmp_path' = [r \in Requests |-> None]
    /\ file_fd' = [r \in Requests |-> None]
    /\ UNCHANGED <<dir, data, id, bytes>>

Put(r) ==
    AdmitPut(r) \/ OpenTemp(r) \/ OpenFails(r) \/ Write(r) \/ Rename(r) \/ RenameFails(r)
Get(r) == AdmitGet(r) \/ RefuseGet(r)

Next ==
    \/ \E r \in Requests : Put(r) \/ Get(r) \/ Succeed(r) \/ Fail(r) \/ Release(r)
    \/ Crash

Spec == Init /\ [][Next]_vars
-----------------------------------------------------------------------------
(* A GET never sees a half-written file (README.md:138-141): the file it   *)
(* has open is complete, has the size the client was promised, and stays   *)
(* so while PUTs of the same name come and go.                             *)
NeverHalfWritten ==
    \A r \in Requests :
        Op[r] = "GET" /\ file_fd[r] # None =>
            Complete(file_fd[r]) /\ bytes[r] = data[file_fd[r]].len

(* No temporary file outlives its request, on any error path               *)
(* (slice.cpp:217-226), unless the server was killed.                      *)
NoOrphans ==
    crashes = 0 => \A p \in Temps : dir[p] # None => \E r \in Requests : tmp_path[r] = p

(* Two requests never write to the same inode, not even to one that a      *)
(* crashed server has left, and nobody serves what another one writes.     *)
SoleWriter ==
    \A r, s \in Requests :
        r # s /\ pc[r] = "receiving" => file_fd[s] # file_fd[r] /\ tmp_path[s] # tmp_path[r]

(* The directory implements the atomic store.                              *)
Version(i) == IF i = None THEN None ELSE IF Complete(i) THEN data[i].by ELSE "torn"
StatusOf(r) ==
    CASE pc[r] = "new" -> "new"
      [] pc[r] \in {"admitted", "receiving"} -> "active"
      [] pc[r] = "renamed" -> "installed"
      [] pc[r] \in {"done", "over_done"} -> "done"
      [] pc[r] \in {"refused", "failed", "over_failed"} -> "failed"
      [] pc[r] = "lost" -> "lost"

atomic == INSTANCE AtomicStore WITH
    store <- [t \in Targets |-> Version(dir[t])],
    status <- [r \in Requests |-> StatusOf(r)],
    seen <- [r \in Requests |->
               IF Op[r] = "GET" /\ pc[r] = "admitted" THEN Version(file_fd[r]) ELSE None]

ImplementsStore == atomic!Spec
=============================================================================
