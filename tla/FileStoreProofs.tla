--------------------------- MODULE FileStoreProofs ---------------------------
(***************************************************************************)
(* Proofs about the directory of served files, for any requests, names and *)
(* sizes, any number of ids and of crashes, as long as no client asks for  *)
(* a name that is also a temporary one.                                    *)
(***************************************************************************)
EXTENDS FileStore, TLAPS

USE StoreAssumption, BoundsAssumption, NoneAssumption

States == Serving \cup {"new", "refused", "lost", "over_done", "over_failed"}

TypeInv ==
    /\ dir \in [Paths -> Inodes \cup {None}]
    /\ data \in [Inodes -> [by : Inodes, len : Nat]]
    /\ next_id \in Nat /\ next_id >= 1
    /\ id \in [Requests -> 0 .. MaxId]
    /\ pc \in [Requests -> States]
    /\ tmp_path \in [Requests -> Temps \cup {None}]
    /\ file_fd \in [Requests -> Inodes \cup {None}]
    /\ bytes \in [Requests -> Nat]

(* The requests of one server process have ids of their own.  A request    *)
(* of an earlier process may have had the same id, but is not served any   *)
(* more.                                                                   *)
IdInv ==
    /\ \A r \in Requests : pc[r] \in Serving => id[r] >= 1 /\ id[r] < next_id
    /\ \A r, s \in Requests :
          pc[r] \in Serving /\ pc[s] \in Serving /\ id[r] = id[s] => r = s

(* An inode may be in use: the request that would create it has begun.     *)
Born(i) == i \in Requests => pc[i] \notin {"new", "admitted"}

(* The directory: no inode has two names, a file under a plain name is     *)
(* complete.                                                               *)
DirInv ==
    /\ \A p, q \in Paths : dir[p] = dir[q] /\ dir[p] # None => p = q
    /\ \A p \in Paths : dir[p] # None => Born(dir[p])
    /\ \A t \in Targets : dir[t] # None => Complete(dir[t])

(* What a PUT has open is what its temporary name leads to, and while it   *)
(* receives, it alone has written it.                                      *)
PutInv ==
    \A r \in Requests : Op[r] = "PUT" =>
        /\ tmp_path[r] # None =>
              tmp_path[r] = Temp(Target[r], id[r]) /\ pc[r] \in {"receiving", "failed"}
        /\ file_fd[r] # None => tmp_path[r] # None /\ dir[tmp_path[r]] = file_fd[r]
        /\ pc[r] # "new" => bytes[r] = Size[r]
        /\ pc[r] = "receiving" =>
              /\ file_fd[r] # None
              /\ data[file_fd[r]].by = r /\ data[file_fd[r]].len <= Size[r]

(* What a GET has open is complete and not under a temporary name, so      *)
(* nobody will truncate or write it.                                       *)
GetInv ==
    \A r \in Requests : Op[r] = "GET" =>
        /\ tmp_path[r] = None
        /\ pc[r] \notin {"receiving", "renamed"}
        /\ pc[r] = "admitted" => file_fd[r] # None
        /\ file_fd[r] # None =>
              /\ pc[r] # "new"
              /\ Complete(file_fd[r]) /\ bytes[r] = data[file_fd[r]].len
              /\ Born(file_fd[r])
              /\ \A p \in Temps : dir[p] # file_fd[r]

IInv == TypeInv /\ IdInv /\ DirInv /\ PutInv /\ GetInv

(* The same of inode i, as it is now, in the next state.                   *)
BornNext(i) == i \in Requests => pc'[i] \notin {"new", "admitted"}
CompleteNext(i) ==
    data'[i].len = IF data'[i].by \in Requests THEN Size[data'[i].by] ELSE OldSize
-----------------------------------------------------------------------------
(* Names and inodes.                                                       *)
LEMMA NameFacts ==
    /\ Targets \subseteq Paths /\ Temps \subseteq Paths
    /\ \A r \in Requests : Target[r] \in Targets
    /\ \A t \in Targets, i \in Ids : Temp(t, i) \in Temps
    /\ \A t, u, i, j : Temp(t, i) = Temp(u, j) => t = u /\ i = j
    /\ Requests \subseteq Inodes /\ Targets \subseteq Inodes
    /\ None \notin Inodes /\ None \notin Temps
  BY DEF Targets, Temps, Temp, Paths, Inodes

(* A request that is served and the next one have different temporary      *)
(* names.                                                                  *)
LEMMA TempsDiffer ==
    ASSUME TypeInv, IdInv, PutInv, GetInv, NEW r \in Requests, NEW s \in Requests, r # s,
           pc[r] \in Serving, tmp_path[s] # None
    PROVE  tmp_path[s] # Temp(Target[r], id[r])
<1>1. Op[s] = "PUT"
  BY DEF GetInv
<1>2. tmp_path[s] = Temp(Target[s], id[s]) /\ pc[s] \in Serving
  BY <1>1 DEF PutInv, Serving
<1>3. id[s] # id[r]
  BY <1>2 DEF IdInv
<1> QED BY <1>2, <1>3, NameFacts

(* The initial state: some of the files are there.                         *)
LEMMA InitInv == ASSUME PlainNames PROVE Init => IInv
<1> SUFFICES ASSUME Init PROVE IInv
  OBVIOUS
<1>0. PICK present \in SUBSET (Targets \ Temps) :
         dir = [p \in Paths |-> IF p \in present THEN p ELSE None]
  BY DEF Init
<1>1. TypeInv
  <2>1. dir \in [Paths -> Inodes \cup {None}]
    BY <1>0, NameFacts
  <2>2. data \in [Inodes -> [by : Inodes, len : Nat]]
    BY DEF Init, OldSize
  <2>3. 0 \in 0 .. MaxId
    OBVIOUS
  <2> QED BY <2>1, <2>2, <2>3 DEF Init, TypeInv, States
<1>2. IdInv
  BY DEF Init, IdInv, Serving
<1>3. DirInv
  <2>1. \A p \in Paths : dir[p] # None => dir[p] = p /\ p \in Targets
    BY <1>0
  <2>2. \A t \in Targets : Complete(t) /\ Born(t)
    BY NameFacts DEF Init, Complete, Born
  <2> QED BY <2>1, <2>2, NameFacts DEF DirInv
<1>4. PutInv /\ GetInv
  BY DEF Init, PutInv, GetInv
<1> QED BY <1>1, <1>2, <1>3, <1>4 DEF IInv
-----------------------------------------------------------------------------
(* Admission.                                                              *)
LEMMA AdmitPutStep ==
    ASSUME IInv, NEW r \in Requests, AdmitPut(r)
    PROVE  IInv'
<1> USE DEF IInv
<1>1. /\ Op[r] = "PUT" /\ pc[r] = "new" /\ next_id \in Ids
      /\ id' = [id EXCEPT ![r] = next_id] /\ next_id' = next_id + 1
      /\ pc' = [pc EXCEPT ![r] = "admitted"] /\ bytes' = [bytes EXCEPT ![r] = Size[r]]
      /\ UNCHANGED <<dir, data, tmp_path, file_fd, crashes>>
  BY DEF AdmitPut, TakeId, Goto, Ids, TypeInv
<1>2. TypeInv'
  BY <1>1 DEF TypeInv, States, Serving, Ids
<1>3. /\ \A s \in Requests : s # r => pc'[s] = pc[s] /\ id'[s] = id[s] /\ bytes'[s] = bytes[s]
      /\ pc'[r] = "admitted" /\ id'[r] = next_id /\ bytes'[r] = Size[r]
  BY <1>1 DEF TypeInv
<1>4. IdInv'
  <2>1. \A s \in Requests : id[s] \in Nat
    BY DEF TypeInv
  <2> QED BY <1>1, <1>3, <2>1 DEF IdInv, Ids
<1>5. \A i : Born(i)' <=> Born(i)
  BY <1>1, <1>3 DEF Born
<1>6. DirInv'
  BY <1>1, <1>5 DEF DirInv, Complete
<1>7. PutInv'
  BY <1>1, <1>3 DEF PutInv
<1>8. GetInv'
  BY <1>1, <1>3, <1>5 DEF GetInv, Complete
<1> QED BY <1>2, <1>4, <1>6, <1>7, <1>8

LEMMA AdmitGetStep ==
    ASSUME PlainNames, IInv, NEW r \in Requests, AdmitGet(r)
    PROVE  IInv'
<1> USE DEF IInv
<1> DEFINE file == dir[Target[r]]
<1>1. /\ Op[r] = "GET" /\ pc[r] = "new" /\ next_id \in Ids /\ file # None
      /\ id' = [id EXCEPT ![r] = next_id] /\ next_id' = next_id + 1
      /\ pc' = [pc EXCEPT ![r] = "admitted"]
      /\ bytes' = [bytes EXCEPT ![r] = data[file].len]
      /\ file_fd' = [file_fd EXCEPT ![r] = file]
      /\ UNCHANGED <<dir, data, tmp_path, crashes>>
  BY DEF AdmitGet, TakeId, Goto, Ids, TypeInv
<1>2. Target[r] \in Targets /\ Target[r] \in Paths /\ file \in Inodes
  BY <1>1, NameFacts DEF TypeInv
<1>3. Complete(file) /\ Born(file) /\ \A p \in Temps : dir[p] # file
  BY <1>1, <1>2, NameFacts DEF DirInv, PlainNames
<1> HIDE DEF file
<1>4. TypeInv'
  <2>1. data[file].len \in Nat
    BY <1>2 DEF TypeInv
  <2> QED BY <1>1, <1>2, <2>1 DEF TypeInv, States, Serving, Ids
<1>5. /\ \A s \in Requests : s # r => /\ pc'[s] = pc[s] /\ id'[s] = id[s]
                                     /\ bytes'[s] = bytes[s] /\ file_fd'[s] = file_fd[s]
      /\ pc'[r] = "admitted" /\ id'[r] = next_id /\ bytes'[r] = data[file].len /\ file_fd'[r] = file
  BY <1>1 DEF TypeInv
<1>6. IdInv'
  <2>1. \A s \in Requests : id[s] \in Nat
    BY DEF TypeInv
  <2> QED BY <1>1, <1>5, <2>1 DEF IdInv, Ids
<1>7. \A i : Born(i)' <=> Born(i)
  BY <1>1, <1>5 DEF Born
<1>8. DirInv'
  BY <1>1, <1>7 DEF DirInv, Complete
<1>9. PutInv'
  BY <1>1, <1>5 DEF PutInv
<1>10. GetInv'
  BY <1>1, <1>2, <1>3, <1>5, <1>7 DEF GetInv, Complete
<1> QED BY <1>4, <1>6, <1>8, <1>9, <1>10

LEMMA RefuseGetStep ==
    ASSUME IInv, NEW r \in Requests, RefuseGet(r)
    PROVE  IInv'
<1> USE DEF IInv
<1>1. /\ Op[r] = "GET" /\ pc[r] = "new" /\ next_id \in Ids
      /\ id' = [id EXCEPT ![r] = next_id] /\ next_id' = next_id + 1
      /\ pc' = [pc EXCEPT ![r] = "refused"]
      /\ UNCHANGED <<dir, data, tmp_path, file_fd, bytes, crashes>>
  BY DEF RefuseGet, TakeId, Goto, Ids, TypeInv
<1>2. TypeInv'
  BY <1>1 DEF TypeInv, States, Serving, Ids
<1>3. /\ \A s \in Requests : s # r => pc'[s] = pc[s] /\ id'[s] = id[s]
      /\ pc'[r] = "refused"
  BY <1>1 DEF TypeInv
<1>4. IdInv'
  BY <1>1, <1>3 DEF IdInv, Ids, Serving, TypeInv
<1>5. \A i : Born(i) => Born(i)'
  BY <1>3 DEF Born
<1>6. DirInv'
  BY <1>1, <1>5 DEF DirInv, Complete
<1>7. PutInv'
  BY <1>1, <1>3 DEF PutInv
<1>8. GetInv'
  BY <1>1, <1>3, <1>5 DEF GetInv, Complete
<1> QED BY <1>2, <1>4, <1>6, <1>7, <1>8
-----------------------------------------------------------------------------
(* The slices of a PUT.  O_TRUNC empties an inode that nobody has open.    *)
LEMMA OpenTempStep ==
    ASSUME PlainNames, IInv, NEW r \in Requests, OpenTemp(r)
    PROVE  IInv'
<1> USE DEF IInv
<1> DEFINE path == Temp(Target[r], id[r])
           inode == IF dir[path] = None THEN r ELSE dir[path]
<1>1. /\ Op[r] = "PUT" /\ pc[r] = "admitted" /\ pc' = [pc EXCEPT ![r] = "receiving"]
      /\ tmp_path' = [tmp_path EXCEPT ![r] = path]
      /\ file_fd' = [file_fd EXCEPT ![r] = inode]
      /\ dir' = [dir EXCEPT ![path] = inode]
      /\ data' = [data EXCEPT ![inode] = [by |-> r, len |-> 0]]
      /\ UNCHANGED <<next_id, id, bytes, crashes>>
  BY DEF OpenTemp, Goto
<1>2. id[r] \in Ids /\ path \in Temps /\ path \in Paths
  <2>1. pc[r] \in Serving
    BY <1>1 DEF Serving
  <2>2. id[r] \in 1 .. MaxId
    BY <2>1 DEF TypeInv, IdInv
  <2> QED BY <2>2, NameFacts DEF Ids
<1>3. inode \in Inodes /\ inode # None
  BY <1>2, NameFacts DEF TypeInv
<1>4. \A p \in Paths : p # path => dir[p] # inode
  <2> SUFFICES ASSUME NEW p \in Paths, p # path, dir[p] = inode PROVE FALSE
    OBVIOUS
  <2>1. CASE dir[path] = None
    <3>1. dir[p] = r /\ Born(r)
      BY <1>3, <2>1 DEF DirInv
    <3> QED BY <1>1, <3>1 DEF Born
  <2>2. CASE dir[path] # None
    BY <1>2, <2>2 DEF DirInv
  <2> QED BY <2>1, <2>2
<1>5. ASSUME NEW s \in Requests, Op[s] = "GET", file_fd[s] # None PROVE file_fd[s] # inode
  <2>1. Born(file_fd[s]) /\ dir[path] # file_fd[s]
    BY <1>2, <1>5 DEF GetInv
  <2> QED BY <1>1, <2>1 DEF Born
<1>6. ASSUME NEW s \in Requests, Op[s] = "PUT", s # r, tmp_path[s] # None
      PROVE  tmp_path[s] # path /\ tmp_path[s] \in Paths
  <2>1. pc[r] \in Serving
    BY <1>1 DEF Serving
  <2> QED BY <1>6, <2>1, TempsDiffer, NameFacts DEF TypeInv
<1>7. /\ \A p \in Paths : dir'[p] = IF p = path THEN inode ELSE dir[p]
      /\ \A i \in Inodes : i # inode => data'[i] = data[i]
      /\ data'[inode] = [by |-> r, len |-> 0]
      /\ \A s \in Requests : s # r => pc'[s] = pc[s] /\ tmp_path'[s] = tmp_path[s]
                                    /\ file_fd'[s] = file_fd[s]
      /\ pc'[r] = "receiving" /\ tmp_path'[r] = path /\ file_fd'[r] = inode
  BY <1>1, <1>2, <1>3 DEF TypeInv
<1> HIDE DEF path, inode
<1>8. TypeInv'
  <2>1. [by |-> r, len |-> 0] \in [by : Inodes, len : Nat]
    BY NameFacts
  <2>2. data' \in [Inodes -> [by : Inodes, len : Nat]]
    BY <1>1, <2>1 DEF TypeInv
  <2> QED BY <1>1, <1>2, <1>3, <2>2 DEF TypeInv, States, Serving
<1>9. IdInv'
  BY <1>1, <1>7 DEF IdInv, Serving
<1>10. \A i : Born(i) => BornNext(i)
  BY <1>1, <1>7 DEF Born, BornNext
<1>11. BornNext(inode)
  <2>1. CASE inode = r
    BY <1>7, <2>1 DEF BornNext
  <2>2. CASE inode # r
    <3>1. Born(inode)
      BY <1>2, <1>3, <2>2 DEF inode, DirInv
    <3> QED BY <1>10, <3>1
  <2> QED BY <2>1, <2>2
<1>12. \A i \in Inodes : i # inode => (CompleteNext(i) <=> Complete(i))
  BY <1>7 DEF Complete, CompleteNext
<1>13. \A t \in Targets : t \in Paths /\ t # path
  BY <1>2, NameFacts DEF PlainNames
<1>14. DirInv'
  <2>1. \A p, q \in Paths : dir'[p] = dir'[q] /\ dir'[p] # None => p = q
    BY <1>4, <1>7 DEF DirInv
  <2>2. \A p \in Paths : dir'[p] # None => BornNext(dir'[p])
    BY <1>7, <1>10, <1>11 DEF DirInv
  <2>3. ASSUME NEW t \in Targets, dir'[t] # None PROVE CompleteNext(dir'[t])
    <3>1. dir'[t] = dir[t] /\ dir[t] # inode /\ dir[t] \in Inodes /\ Complete(dir[t])
      BY <1>4, <1>7, <1>13, <2>3 DEF DirInv, TypeInv
    <3> QED BY <1>12, <3>1
  <2> QED BY <2>1, <2>2, <2>3 DEF DirInv, Born, BornNext, Complete, CompleteNext
<1>15. PutInv'
  <2> SUFFICES ASSUME NEW s \in Requests, Op[s] = "PUT"
               PROVE  /\ tmp_path'[s] # None =>
                            tmp_path'[s] = Temp(Target[s], id'[s]) /\ pc'[s] \in {"receiving", "failed"}
                      /\ file_fd'[s] # None => tmp_path'[s] # None /\ dir'[tmp_path'[s]] = file_fd'[s]
                      /\ pc'[s] # "new" => bytes'[s] = Size[s]
                      /\ pc'[s] = "receiving" =>
                            /\ file_fd'[s] # None
                            /\ data'[file_fd'[s]].by = s /\ data'[file_fd'[s]].len <= Size[s]
    BY DEF PutInv
  <2>1. CASE s = r
    BY <1>1, <1>2, <1>3, <1>7, <2>1, NameFacts DEF PutInv, path
  <2>2. CASE s # r
    <3>1. file_fd[s] # None => file_fd[s] # inode /\ file_fd[s] \in Inodes
      BY <1>4, <1>6, <2>2 DEF PutInv, TypeInv
    <3> QED BY <1>1, <1>6, <1>7, <2>2, <3>1 DEF PutInv
  <2> QED BY <2>1, <2>2
<1>16. GetInv'
  <2>1. ASSUME NEW s \in Requests, Op[s] = "GET", file_fd[s] # None
        PROVE  /\ CompleteNext(file_fd[s]) /\ bytes'[s] = data'[file_fd[s]].len
               /\ BornNext(file_fd[s]) /\ \A p \in Temps : dir'[p] # file_fd[s]
    <3>1. file_fd[s] \in Inodes /\ file_fd[s] # inode /\ data'[file_fd[s]] = data[file_fd[s]]
      BY <1>5, <1>7, <2>1 DEF TypeInv
    <3>2. Complete(file_fd[s]) /\ Born(file_fd[s]) /\ bytes[s] = data[file_fd[s]].len
      BY <2>1 DEF GetInv
    <3>3. CompleteNext(file_fd[s]) /\ BornNext(file_fd[s])
      BY <1>10, <1>12, <3>1, <3>2
    <3>4. \A p \in Temps : dir'[p] # file_fd[s]
      BY <1>7, <2>1, <3>1, NameFacts DEF GetInv
    <3> QED BY <1>1, <3>1, <3>2, <3>3, <3>4
  <2>2. \A s \in Requests : Op[s] = "GET" => s # r
    BY <1>1
  <2> QED BY <1>1, <1>7, <2>1, <2>2 DEF GetInv, Complete, CompleteNext, Born, BornNext
<1> QED BY <1>8, <1>9, <1>14, <1>15, <1>16

(* A slice returns.                                                        *)
LEMMA ReturnStep ==
    ASSUME IInv, NEW r \in Requests, NEW to \in {"done", "failed"},
           pc[r] \in Serving, pc' = [pc EXCEPT ![r] = to],
           tmp_path[r] # None => to = "failed",
           UNCHANGED <<dir, data, next_id, request, crashes>>
    PROVE  IInv'
<1> USE DEF IInv, request
<1>1. TypeInv'
  BY DEF TypeInv, States, Serving
<1>2. (\A s \in Requests : s # r => pc'[s] = pc[s]) /\ pc'[r] = to
  BY DEF TypeInv
<1>3. IdInv'
  BY <1>2 DEF IdInv, Serving
<1>4. \A i : Born(i) => Born(i)'
  BY <1>2 DEF Born
<1>5. DirInv'
  BY <1>4 DEF DirInv, Complete
<1>6. PutInv'
  BY <1>2 DEF PutInv, Serving
<1>7. GetInv'
  BY <1>2, <1>4 DEF GetInv, Complete, Serving
<1> QED BY <1>1, <1>3, <1>5, <1>6, <1>7

(* A PUT that receives writes its own inode, which has its temporary name  *)
(* only.                                                                   *)
LEMMA ReceivingFacts ==
    ASSUME PlainNames, IInv, NEW r \in Requests, pc[r] = "receiving"
    PROVE  /\ Op[r] = "PUT" /\ bytes[r] = Size[r] /\ Size[r] \in Nat
           /\ tmp_path[r] \in Temps /\ tmp_path[r] \in Paths
           /\ tmp_path[r] = Temp(Target[r], id[r])
           /\ file_fd[r] \in Inodes /\ dir[tmp_path[r]] = file_fd[r]
           /\ data[file_fd[r]].by = r /\ data[file_fd[r]].len \in Nat
           /\ data[file_fd[r]].len <= Size[r]
           /\ \A p \in Paths : p # tmp_path[r] => dir[p] # file_fd[r]
           /\ \A t \in Targets : t \in Paths /\ t # tmp_path[r]
           /\ \A s \in Requests : Op[s] = "GET" => file_fd[s] # file_fd[r]
           /\ \A s \in Requests : s # r => file_fd[s] # file_fd[r] /\ tmp_path[s] # tmp_path[r]
<1> USE DEF IInv
<1>1. Op[r] = "PUT"
  BY DEF GetInv
<1>2. /\ file_fd[r] # None /\ tmp_path[r] # None /\ bytes[r] = Size[r]
      /\ tmp_path[r] = Temp(Target[r], id[r]) /\ dir[tmp_path[r]] = file_fd[r]
      /\ data[file_fd[r]].by = r /\ data[file_fd[r]].len <= Size[r]
  BY <1>1 DEF PutInv
<1>3. tmp_path[r] \in Temps /\ tmp_path[r] \in Paths /\ file_fd[r] \in Inodes
  BY <1>2, NameFacts DEF TypeInv
<1>4. data[file_fd[r]].len \in Nat
  BY <1>3 DEF TypeInv
<1>5. \A p \in Paths : p # tmp_path[r] => dir[p] # file_fd[r]
  BY <1>2, <1>3 DEF DirInv
<1>6. \A t \in Targets : t \in Paths /\ t # tmp_path[r]
  BY <1>3, NameFacts DEF PlainNames
<1>7. \A s \in Requests : Op[s] = "GET" => file_fd[s] # file_fd[r]
  BY <1>2, <1>3 DEF GetInv
<1>8. \A s \in Requests : s # r => tmp_path[s] # tmp_path[r]
  <2>1. pc[r] \in Serving
    BY DEF Serving
  <2> QED BY <1>2, <2>1, TempsDiffer
<1>9. \A s \in Requests : s # r => file_fd[s] # file_fd[r]
  <2> SUFFICES ASSUME NEW s \in Requests, s # r, file_fd[s] = file_fd[r] PROVE FALSE
    OBVIOUS
  <2>1. Op[s] = "PUT"
    BY <1>7
  <2>2. tmp_path[s] # None /\ dir[tmp_path[s]] = file_fd[r]
    BY <1>2, <2>1 DEF PutInv
  <2>3. tmp_path[s] \in Paths
    BY <2>2, NameFacts DEF TypeInv
  <2> QED BY <1>5, <1>8, <2>2, <2>3
<1> QED BY <1>1, <1>2, <1>3, <1>4, <1>5, <1>6, <1>7, <1>8, <1>9

LEMMA WriteStep ==
    ASSUME PlainNames, IInv, NEW r \in Requests, Write(r)
    PROVE  IInv'
<1> USE DEF IInv, request
<1> DEFINE fd == file_fd[r]
<1>0. pc[r] = "receiving" /\ UNCHANGED <<dir, next_id, pc, request, crashes>>
  BY DEF Write
<1>1. PICK n \in 1 .. bytes[r] - data[fd].len : data' = [data EXCEPT ![fd].len = @ + n]
  BY DEF Write
<1>2. /\ fd \in Inodes /\ data[fd].by = r /\ data[fd].len \in Nat /\ bytes[r] = Size[r]
      /\ Size[r] \in Nat /\ data[fd].len <= Size[r]
      /\ \A t \in Targets : t \in Paths /\ dir[t] # fd
      /\ \A s \in Requests : s # r => file_fd[s] # fd
      /\ Op[r] = "PUT"
  BY <1>0, ReceivingFacts
<1>3. /\ data[fd].len + n \in Nat /\ data[fd].len + n <= Size[r]
  BY <1>1, <1>2
<1> HIDE DEF fd
<1>4. [data[fd] EXCEPT !.len = @ + n] = [by |-> r, len |-> data[fd].len + n]
  <2>1. data[fd] \in [by : Inodes, len : Nat]
    BY <1>2 DEF TypeInv
  <2> QED BY <1>2, <2>1
<1>5. data' = [data EXCEPT ![fd] = [by |-> r, len |-> data[fd].len + n]]
  <2>1. data' = [data EXCEPT ![fd] = [data[fd] EXCEPT !.len = @ + n]]
    BY <1>1
  <2> QED BY <1>4, <2>1
<1>6. TypeInv'
  <2>1. [by |-> r, len |-> data[fd].len + n] \in [by : Inodes, len : Nat]
    BY <1>3, NameFacts
  <2>2. data' \in [Inodes -> [by : Inodes, len : Nat]]
    BY <1>5, <2>1 DEF TypeInv
  <2> QED BY <1>0, <2>2 DEF TypeInv
<1>7. /\ \A i \in Inodes : i # fd => data'[i] = data[i]
      /\ data'[fd].by = r /\ data'[fd].len <= Size[r]
  BY <1>2, <1>3, <1>5 DEF TypeInv
<1>8. IdInv'
  BY <1>0 DEF IdInv
<1>9. DirInv'
  <2>1. ASSUME NEW t \in Targets, dir[t] # None PROVE CompleteNext(dir[t])
    <3>1. dir[t] \in Inodes /\ dir[t] # fd
      BY <1>2, <2>1 DEF TypeInv
    <3>2. Complete(dir[t])
      BY <2>1 DEF DirInv
    <3> QED BY <1>7, <3>1, <3>2 DEF Complete, CompleteNext
  <2> QED BY <1>0, <2>1 DEF DirInv, Born, Complete, CompleteNext
<1>10. PutInv'
  <2>1. ASSUME NEW s \in Requests, s # r, file_fd[s] # None PROVE data'[file_fd[s]] = data[file_fd[s]]
    BY <1>2, <1>7, <2>1 DEF TypeInv
  <2> QED BY <1>0, <1>7, <2>1 DEF PutInv, fd
<1>11. GetInv'
  <2>1. ASSUME NEW s \in Requests, Op[s] = "GET", file_fd[s] # None PROVE data'[file_fd[s]] = data[file_fd[s]]
    BY <1>2, <1>7, <2>1 DEF TypeInv
  <2> QED BY <1>0, <2>1 DEF GetInv, Complete, Born
<1> QED BY <1>6, <1>8, <1>9, <1>10, <1>11

(* The rename moves the inode from its temporary name to the destination.  *)
LEMMA RenameStep ==
    ASSUME PlainNames, IInv, NEW r \in Requests, Rename(r)
    PROVE  IInv'
<1> USE DEF IInv
<1> DEFINE fd == file_fd[r]
           temp == tmp_path[r]
           dest == Target[r]
<1>1. /\ pc[r] = "receiving" /\ data[fd].len = bytes[r]
      /\ dir' = [dir EXCEPT ![dest] = dir[temp], ![temp] = None]
      /\ tmp_path' = [tmp_path EXCEPT ![r] = None]
      /\ file_fd' = [file_fd EXCEPT ![r] = None]
      /\ pc' = [pc EXCEPT ![r] = "renamed"]
      /\ UNCHANGED <<data, next_id, id, bytes, crashes>>
  BY DEF Rename, LastByteWritten, Renamed, Goto
<1>2. /\ fd \in Inodes /\ data[fd].by = r /\ bytes[r] = Size[r] /\ dir[temp] = fd /\ Op[r] = "PUT"
      /\ temp \in Temps /\ temp \in Paths /\ dest \in Targets /\ dest \in Paths /\ dest # temp
      /\ \A p \in Paths : p # temp => dir[p] # fd
      /\ \A s \in Requests : s # r => file_fd[s] # fd /\ tmp_path[s] # temp
      /\ \A t \in Targets : t \in Paths /\ t # temp
  BY <1>1, ReceivingFacts, NameFacts
<1>3. Complete(fd)
  BY <1>1, <1>2 DEF Complete
<1> HIDE DEF fd, temp, dest
<1>4. /\ \A p \in Paths : dir'[p] = IF p = temp THEN None ELSE IF p = dest THEN fd ELSE dir[p]
      /\ \A s \in Requests : s # r => /\ pc'[s] = pc[s] /\ tmp_path'[s] = tmp_path[s]
                                     /\ file_fd'[s] = file_fd[s]
      /\ pc'[r] = "renamed" /\ tmp_path'[r] = None /\ file_fd'[r] = None
  BY <1>1, <1>2 DEF TypeInv
<1>5. TypeInv'
  <2>1. dir' \in [Paths -> Inodes \cup {None}]
    BY <1>1, <1>2 DEF TypeInv
  <2> QED BY <1>1, <2>1 DEF TypeInv, States, Serving
<1>6. IdInv'
  BY <1>1, <1>4 DEF IdInv, Serving
<1>7. \A i : (Born(i) => BornNext(i)) /\ (CompleteNext(i) <=> Complete(i))
  BY <1>1, <1>4 DEF Born, BornNext, Complete, CompleteNext
<1>8. DirInv'
  <2>1. \A p, q \in Paths : dir'[p] = dir'[q] /\ dir'[p] # None => p = q
    BY <1>2, <1>4 DEF DirInv
  <2>2. fd # None /\ Born(fd)
    BY <1>2, NameFacts DEF DirInv
  <2>3. \A p \in Paths : dir'[p] # None => BornNext(dir'[p])
    BY <1>4, <1>7, <2>2 DEF DirInv
  <2>4. \A t \in Targets : dir'[t] # None => CompleteNext(dir'[t])
    BY <1>2, <1>3, <1>4, <1>7 DEF DirInv
  <2> QED BY <2>1, <2>3, <2>4 DEF DirInv, Born, BornNext, Complete, CompleteNext
<1>9. PutInv'
  <2>1. ASSUME NEW s \in Requests, s # r, tmp_path[s] # None
        PROVE  dir'[tmp_path[s]] = dir[tmp_path[s]]
    <3>1. tmp_path[s] \in Temps /\ tmp_path[s] \in Paths /\ tmp_path[s] # temp
      BY <1>2, <2>1, NameFacts DEF TypeInv
    <3>2. tmp_path[s] # dest
      BY <1>2, <3>1 DEF PlainNames
    <3> QED BY <1>4, <3>1, <3>2
  <2> SUFFICES ASSUME NEW s \in Requests, Op[s] = "PUT"
               PROVE  /\ tmp_path'[s] # None =>
                            tmp_path'[s] = Temp(Target[s], id'[s]) /\ pc'[s] \in {"receiving", "failed"}
                      /\ file_fd'[s] # None =>
                            tmp_path'[s] # None /\ dir'[tmp_path'[s]] = file_fd'[s]
                      /\ pc'[s] # "new" => bytes'[s] = Size[s]
                      /\ pc'[s] = "receiving" =>
                            /\ file_fd'[s] # None
                            /\ data'[file_fd'[s]].by = s /\ data'[file_fd'[s]].len <= Size[s]
    BY DEF PutInv
  <2>2. CASE s = r
    BY <1>1, <1>2, <1>4, <2>2
  <2>3. CASE s # r
    <3>1. /\ tmp_path'[s] = tmp_path[s] /\ file_fd'[s] = file_fd[s] /\ pc'[s] = pc[s]
          /\ id' = id /\ bytes' = bytes /\ data' = data
      BY <1>1, <1>4, <2>3
    <3> QED BY <2>1, <2>3, <3>1 DEF PutInv
  <2> QED BY <2>2, <2>3
<1>10. GetInv'
  <2> SUFFICES ASSUME NEW s \in Requests, Op[s] = "GET"
               PROVE  /\ tmp_path'[s] = None
                      /\ pc'[s] \notin {"receiving", "renamed"}
                      /\ pc'[s] = "admitted" => file_fd'[s] # None
                      /\ file_fd'[s] # None =>
                            /\ pc'[s] # "new"
                            /\ CompleteNext(file_fd'[s]) /\ bytes'[s] = data'[file_fd'[s]].len
                            /\ BornNext(file_fd'[s])
                            /\ \A p \in Temps : dir'[p] # file_fd'[s]
    BY DEF GetInv, Born, BornNext, Complete, CompleteNext
  <2>1. s # r
    BY <1>2
  <2>2. /\ tmp_path'[s] = tmp_path[s] /\ file_fd'[s] = file_fd[s] /\ pc'[s] = pc[s]
        /\ bytes' = bytes /\ data' = data
    BY <1>1, <1>4, <2>1
  <2>3. \A p \in Temps : dir'[p] = dir[p] \/ dir'[p] = None
    <3>1. \A p \in Temps : p \in Paths /\ p # dest
      BY <1>2, NameFacts DEF PlainNames
    <3> QED BY <1>4, <3>1
  <2>4. ASSUME file_fd[s] # None
        PROVE  CompleteNext(file_fd[s]) /\ BornNext(file_fd[s])
    BY <1>7, <2>4 DEF GetInv
  <2> QED BY <2>2, <2>3, <2>4 DEF GetInv
<1> QED BY <1>5, <1>6, <1>8, <1>9, <1>10

LEMMA RenameFailsStep ==
    ASSUME PlainNames, IInv, NEW r \in Requests, RenameFails(r)
    PROVE  IInv'
<1> USE DEF IInv
<1>1. /\ pc[r] = "receiving" /\ Op[r] = "PUT"
      /\ file_fd' = [file_fd EXCEPT ![r] = None] /\ pc' = [pc EXCEPT ![r] = "failed"]
      /\ UNCHANGED <<dir, data, next_id, id, tmp_path, bytes, crashes>>
  BY ReceivingFacts DEF RenameFails, LastByteWritten, Goto
<1>2. TypeInv'
  BY <1>1 DEF TypeInv, States, Serving
<1>3. /\ \A s \in Requests : s # r => pc'[s] = pc[s] /\ file_fd'[s] = file_fd[s]
      /\ pc'[r] = "failed" /\ file_fd'[r] = None
  BY <1>1 DEF TypeInv
<1>4. IdInv'
  BY <1>1, <1>3 DEF IdInv, Serving
<1>5. \A i : (Born(i) => BornNext(i)) /\ (CompleteNext(i) <=> Complete(i))
  BY <1>1, <1>3 DEF Born, BornNext, Complete, CompleteNext
<1>6. DirInv'
  BY <1>1, <1>5 DEF DirInv, Born, BornNext, Complete, CompleteNext
<1>7. PutInv'
  BY <1>1, <1>3 DEF PutInv
<1>8. GetInv'
  BY <1>1, <1>3, <1>5 DEF GetInv, Born, BornNext, Complete, CompleteNext
<1> QED BY <1>2, <1>4, <1>6, <1>7, <1>8

(* release_request takes a temporary name away, if there is one, and what  *)
(* the request had open with it.                                           *)
LEMMA ReleaseStep ==
    ASSUME PlainNames, IInv, NEW r \in Requests, Release(r)
    PROVE  IInv'
<1> USE DEF IInv
<1>1. /\ pc[r] \in {"done", "failed"}
      /\ dir' = IF tmp_path[r] = None THEN dir ELSE [dir EXCEPT ![tmp_path[r]] = None]
      /\ file_fd' = [file_fd EXCEPT ![r] = None]
      /\ tmp_path' = [tmp_path EXCEPT ![r] = None]
      /\ pc' = [pc EXCEPT ![r] = Ended(pc[r], pc[r])]
      /\ UNCHANGED <<data, next_id, id, bytes, crashes>>
  BY DEF Release, Released, Goto
<1>2. Ended(pc[r], pc[r]) \in {"over_done", "over_failed"}
  BY <1>1 DEF Ended
<1>3. /\ \A s \in Requests : s # r => /\ pc'[s] = pc[s] /\ tmp_path'[s] = tmp_path[s]
                                     /\ file_fd'[s] = file_fd[s]
      /\ pc'[r] \in {"over_done", "over_failed"} /\ tmp_path'[r] = None /\ file_fd'[r] = None
  BY <1>1, <1>2 DEF TypeInv
<1>4. \A p \in Paths : dir'[p] = IF p = tmp_path[r] THEN None ELSE dir[p]
  <2>1. CASE tmp_path[r] = None
    <3>1. \A p \in Paths : p # None
      BY NameFacts DEF Paths
    <3> QED BY <1>1, <2>1, <3>1
  <2>2. CASE tmp_path[r] # None
    BY <1>1, <2>2 DEF TypeInv
  <2> QED BY <2>1, <2>2
<1>5. TypeInv'
  <2>1. dir' \in [Paths -> Inodes \cup {None}]
    BY <1>1 DEF TypeInv
  <2>2. pc' \in [Requests -> States]
    BY <1>1, <1>2 DEF TypeInv, States
  <2>3. tmp_path' \in [Requests -> Temps \cup {None}]
    BY <1>1 DEF TypeInv
  <2>4. file_fd' \in [Requests -> Inodes \cup {None}]
    BY <1>1 DEF TypeInv
  <2> QED BY <1>1, <2>1, <2>2, <2>3, <2>4 DEF TypeInv
<1>6. IdInv'
  BY <1>1, <1>3 DEF IdInv, Serving
<1>7. \A i : (Born(i) => BornNext(i)) /\ (CompleteNext(i) <=> Complete(i))
  BY <1>1, <1>3 DEF Born, BornNext, Complete, CompleteNext
<1>8. DirInv'
  <2>1. \A p, q \in Paths : dir'[p] = dir'[q] /\ dir'[p] # None => p = q
    BY <1>4 DEF DirInv
  <2>2. \A p \in Paths : dir'[p] # None => BornNext(dir'[p])
    BY <1>4, <1>7 DEF DirInv
  <2>3. \A t \in Targets : dir'[t] # None => CompleteNext(dir'[t])
    BY <1>4, <1>7, NameFacts DEF DirInv
  <2> QED BY <2>1, <2>2, <2>3 DEF DirInv, Born, BornNext, Complete, CompleteNext
<1>9. PutInv'
  <2> SUFFICES ASSUME NEW s \in Requests, Op[s] = "PUT"
               PROVE  /\ tmp_path'[s] # None =>
                            tmp_path'[s] = Temp(Target[s], id'[s]) /\ pc'[s] \in {"receiving", "failed"}
                      /\ file_fd'[s] # None =>
                            tmp_path'[s] # None /\ dir'[tmp_path'[s]] = file_fd'[s]
                      /\ pc'[s] # "new" => bytes'[s] = Size[s]
                      /\ pc'[s] = "receiving" =>
                            /\ file_fd'[s] # None
                            /\ data'[file_fd'[s]].by = s /\ data'[file_fd'[s]].len <= Size[s]
    BY DEF PutInv
  <2>1. CASE s = r
    BY <1>1, <1>3, <2>1 DEF PutInv
  <2>2. CASE s # r
    <3>1. /\ tmp_path'[s] = tmp_path[s] /\ file_fd'[s] = file_fd[s] /\ pc'[s] = pc[s]
          /\ id' = id /\ bytes' = bytes /\ data' = data
      BY <1>1, <1>3, <2>2
    <3>2. ASSUME tmp_path[s] # None PROVE dir'[tmp_path[s]] = dir[tmp_path[s]]
      <4>1. tmp_path[s] \in Paths
        BY <3>2, NameFacts DEF TypeInv
      <4>2. tmp_path[s] # tmp_path[r]
        <5>1. ASSUME tmp_path[r] # None PROVE tmp_path[r] = Temp(Target[r], id[r])
          BY <5>1 DEF PutInv, GetInv
        <5>2. tmp_path[s] # Temp(Target[r], id[r])
          BY <1>1, <2>2, <3>2, TempsDiffer DEF Serving
        <5> QED BY <3>2, <5>1, <5>2
      <4> QED BY <1>4, <4>1, <4>2
    <3> QED BY <3>1, <3>2 DEF PutInv
  <2> QED BY <2>1, <2>2
<1>10. GetInv'
  <2> SUFFICES ASSUME NEW s \in Requests, Op[s] = "GET"
               PROVE  /\ tmp_path'[s] = None
                      /\ pc'[s] \notin {"receiving", "renamed"}
                      /\ pc'[s] = "admitted" => file_fd'[s] # None
                      /\ file_fd'[s] # None =>
                            /\ pc'[s] # "new"
                            /\ CompleteNext(file_fd'[s]) /\ bytes'[s] = data'[file_fd'[s]].len
                            /\ BornNext(file_fd'[s])
                            /\ \A p \in Temps : dir'[p] # file_fd'[s]
    BY DEF GetInv, Born, BornNext, Complete, CompleteNext
  <2>1. CASE s = r
    BY <1>3, <2>1
  <2>2. CASE s # r
    <3>1. /\ tmp_path'[s] = tmp_path[s] /\ file_fd'[s] = file_fd[s] /\ pc'[s] = pc[s]
          /\ bytes' = bytes /\ data' = data
      BY <1>1, <1>3, <2>2
    <3>2. \A p \in Temps : dir'[p] = dir[p] \/ dir'[p] = None
      BY <1>4, NameFacts
    <3>3. ASSUME file_fd[s] # None
          PROVE  CompleteNext(file_fd[s]) /\ BornNext(file_fd[s])
      BY <1>7, <3>3 DEF GetInv
    <3> QED BY <3>1, <3>2, <3>3 DEF GetInv
  <2> QED BY <2>1, <2>2
<1> QED BY <1>5, <1>6, <1>8, <1>9, <1>10

(* After a crash the files are as they were and nobody has one open.       *)
LEMMA CrashStep == ASSUME IInv, Crash PROVE IInv'
<1> USE DEF IInv
<1>1. /\ next_id' = 1
      /\ pc' = [r \in Requests |-> Ended(pc[r], "lost")]
      /\ tmp_path' = [r \in Requests |-> None]
      /\ file_fd' = [r \in Requests |-> None]
      /\ UNCHANGED <<dir, data, id, bytes>>
  BY DEF Crash
<1>2. ASSUME NEW r \in Requests
      PROVE  /\ pc'[r] \in States /\ pc'[r] \notin Serving
             /\ pc'[r] = "new" <=> pc[r] = "new"
  <2>1. pc[r] \in States /\ pc'[r] = Ended(pc[r], "lost")
    BY <1>1 DEF TypeInv
  <2> QED BY <2>1 DEF Ended, States, Serving
<1>3. TypeInv'
  BY <1>1, <1>2 DEF TypeInv
<1>4. IdInv'
  BY <1>2 DEF IdInv
<1>5. \A i : (Born(i) => BornNext(i)) /\ (CompleteNext(i) <=> Complete(i))
  BY <1>1, <1>2 DEF Born, BornNext, Complete, CompleteNext, Serving
<1>6. DirInv'
  BY <1>1, <1>5 DEF DirInv, Born, BornNext, Complete, CompleteNext
<1>7. PutInv'
  BY <1>1, <1>2 DEF PutInv, Serving
<1>8. GetInv'
  BY <1>1, <1>2 DEF GetInv, Serving
<1> QED BY <1>3, <1>4, <1>6, <1>7, <1>8
-----------------------------------------------------------------------------
(* The steps of the request's own that end its slice.                      *)
LEMMA NextInv == ASSUME PlainNames, IInv, [Next]_vars PROVE IInv'
<1>1. ASSUME NEW r \in Requests, OpenFails(r) \/ Succeed(r) \/ Fail(r) PROVE IInv'
  <2>1. pc[r] \in Serving /\ UNCHANGED <<dir, data, next_id, request, crashes>>
    BY <1>1 DEF OpenFails, Succeed, Fail, Serving
  <2>2. CASE OpenFails(r) \/ Fail(r)
    <3>1. pc' = [pc EXCEPT ![r] = "failed"]
      BY <2>2 DEF OpenFails, Fail, Goto
    <3> QED BY <2>1, <3>1, ReturnStep
  <2>3. CASE Succeed(r)
    <3>1. pc' = [pc EXCEPT ![r] = "done"] /\ pc[r] \in {"renamed", "admitted"}
      BY <2>3 DEF Succeed, Goto
    <3>2. tmp_path[r] = None
      BY <3>1 DEF IInv, PutInv, GetInv
    <3> QED BY <2>1, <3>1, <3>2, ReturnStep
  <2> QED BY <1>1, <2>2, <2>3
<1>2. CASE UNCHANGED vars
  BY <1>2 DEF vars, request, IInv, TypeInv, IdInv, DirInv, PutInv, GetInv, Born, Complete
<1>3. CASE Crash
  BY <1>3, CrashStep
<1>4. ASSUME NEW r \in Requests, Put(r) \/ Get(r) \/ Succeed(r) \/ Fail(r) \/ Release(r)
      PROVE  IInv'
  BY <1>1, <1>4, AdmitPutStep, AdmitGetStep, RefuseGetStep, OpenTempStep, WriteStep, RenameStep,
     RenameFailsStep, ReleaseStep DEF Put, Get
<1> QED BY <1>2, <1>3, <1>4 DEF Next

(* The invariant of the directory.                                         *)
LEMMA StoreInv == ASSUME PlainNames PROVE Spec => []IInv
<1>1. Init => IInv
  BY InitInv
<1>2. IInv /\ [Next]_vars => IInv'
  BY NextInv
<1> QED BY <1>1, <1>2, PTL DEF Spec

(* What a GET has open is complete, has the size the client was promised   *)
(* and stays so (main.cpp:208-217, slice.cpp:192-198): only inodes under   *)
(* temporary names are truncated or written, and none of them was ever     *)
(* opened by a GET.                                                        *)
THEOREM GetsSeeWholeFiles == PlainNames => (Spec => []NeverHalfWritten)
<1> SUFFICES ASSUME PlainNames PROVE Spec => []NeverHalfWritten
  OBVIOUS
<1>1. IInv => NeverHalfWritten
  BY DEF IInv, GetInv, NeverHalfWritten
<1> QED BY <1>1, StoreInv, PTL

(* Two PUTs never share a temporary name or an inode, although the ids     *)
(* start again from 1 after a crash (slice.cpp:159-160), and no GET has an *)
(* inode open that is being written.                                       *)
THEOREM OneWriter == PlainNames => (Spec => []SoleWriter)
<1> SUFFICES ASSUME PlainNames PROVE Spec => []SoleWriter
  OBVIOUS
<1>1. IInv => SoleWriter
  <2> SUFFICES ASSUME IInv, NEW r \in Requests, NEW s \in Requests, r # s, pc[r] = "receiving"
               PROVE  file_fd[s] # file_fd[r] /\ tmp_path[s] # tmp_path[r]
    BY DEF SoleWriter
  <2> QED BY ReceivingFacts
<1> QED BY <1>1, StoreInv, PTL

(* NoOrphans is preserved by every step, given the invariant.              *)
Kept == crashes \in Nat /\ NoOrphans

LEMMA KeptStep == ASSUME PlainNames, IInv, Kept, [Next]_vars PROVE Kept'
<1> USE DEF IInv, Kept
<1>1. ASSUME UNCHANGED <<dir, tmp_path, crashes>> PROVE Kept'
  BY <1>1 DEF NoOrphans
<1>2. CASE Crash
  BY <1>2 DEF Crash, NoOrphans
<1>3. ASSUME NEW r \in Requests, NEW old, UNCHANGED crashes,
             old = None \/ (old \in Temps /\ dir'[old] = None),
             tmp_path[r] = old, tmp_path' = [tmp_path EXCEPT ![r] = None],
             \A p \in Temps : dir'[p] # None => dir'[p] = dir[p]
      PROVE  Kept'
  <2> SUFFICES ASSUME crashes = 0, NEW p \in Temps, dir'[p] # None
               PROVE  \E s \in Requests : tmp_path'[s] = p
    BY <1>3 DEF NoOrphans
  <2>1. PICK s \in Requests : tmp_path[s] = p
    BY <1>3 DEF NoOrphans
  <2>2. s # r
    BY <1>3, <2>1, NameFacts
  <2> QED BY <1>3, <2>1, <2>2 DEF TypeInv
<1>4. ASSUME NEW r \in Requests, OpenTemp(r) PROVE Kept'
  <2> DEFINE path == Temp(Target[r], id[r])
  <2>1. /\ Op[r] = "PUT" /\ pc[r] = "admitted" /\ UNCHANGED crashes
        /\ tmp_path' = [tmp_path EXCEPT ![r] = path]
        /\ \E inode : dir' = [dir EXCEPT ![path] = inode]
    BY <1>4 DEF OpenTemp
  <2>2. tmp_path[r] = None
    BY <2>1 DEF PutInv
  <2> SUFFICES ASSUME crashes = 0, NEW p \in Temps, dir'[p] # None
               PROVE  \E s \in Requests : tmp_path'[s] = p
    BY <2>1 DEF NoOrphans
  <2> HIDE DEF path
  <2>3. CASE p = path
    BY <2>1, <2>3 DEF TypeInv
  <2>4. CASE p # path
    <3>1. dir'[p] = dir[p]
      BY <2>1, <2>4, NameFacts DEF TypeInv
    <3>2. PICK s \in Requests : tmp_path[s] = p
      BY <2>1, <3>1 DEF NoOrphans
    <3>3. s # r
      BY <2>2, <3>2, NameFacts
    <3> QED BY <2>1, <3>2, <3>3 DEF TypeInv
  <2> QED BY <2>3, <2>4
<1>5. ASSUME NEW r \in Requests, Rename(r) PROVE Kept'
  <2> DEFINE temp == tmp_path[r]
             dest == Target[r]
  <2>1. /\ pc[r] = "receiving" /\ UNCHANGED crashes
        /\ dir' = [dir EXCEPT ![dest] = dir[temp], ![temp] = None]
        /\ tmp_path' = [tmp_path EXCEPT ![r] = None]
    BY <1>5 DEF Rename, LastByteWritten, Renamed
  <2>2. temp \in Temps /\ temp \in Paths /\ dest \in Paths /\ dest \notin Temps
    BY <2>1, ReceivingFacts, NameFacts DEF PlainNames
  <2>3. dir'[temp] = None /\ \A p \in Temps : dir'[p] # None => dir'[p] = dir[p]
    BY <2>1, <2>2, NameFacts DEF TypeInv
  <2> QED BY <1>3, <2>1, <2>2, <2>3
<1>6. ASSUME NEW r \in Requests, Release(r) PROVE Kept'
  <2> DEFINE temp == tmp_path[r]
  <2>1. /\ UNCHANGED crashes /\ tmp_path' = [tmp_path EXCEPT ![r] = None]
        /\ dir' = IF temp = None THEN dir ELSE [dir EXCEPT ![temp] = None]
    BY <1>6 DEF Release, Released
  <2>2. temp = None \/ (temp \in Temps /\ dir'[temp] = None)
    BY <2>1, NameFacts DEF TypeInv
  <2>3. \A p \in Temps : dir'[p] # None => dir'[p] = dir[p]
    BY <2>1, NameFacts DEF TypeInv
  <2> QED BY <1>3, <2>1, <2>2, <2>3
<1>7. ASSUME NEW r \in Requests,
             \/ AdmitPut(r) \/ AdmitGet(r) \/ RefuseGet(r) \/ OpenFails(r) \/ Write(r)
             \/ RenameFails(r) \/ Succeed(r) \/ Fail(r)
      PROVE  Kept'
  BY <1>1, <1>7 DEF AdmitPut, AdmitGet, RefuseGet, OpenFails, Write, RenameFails, Succeed, Fail,
     request
<1>8. CASE UNCHANGED vars
  BY <1>1, <1>8 DEF vars, request
<1> QED BY <1>2, <1>4, <1>5, <1>6, <1>7, <1>8 DEF Next, Put, Get

(* No temporary file outlives its request on any error path, a failed open *)
(* and a failed rename included (slice.cpp:217-226), unless the server was *)
(* killed.                                                                 *)
THEOREM TempsAreUnlinked == PlainNames => (Spec => []NoOrphans)
<1> SUFFICES ASSUME PlainNames PROVE Spec => []NoOrphans
  OBVIOUS
<1>1. Init => Kept
  <2> SUFFICES ASSUME Init PROVE Kept
    OBVIOUS
  <2>1. PICK present \in SUBSET (Targets \ Temps) :
           dir = [p \in Paths |-> IF p \in present THEN p ELSE None]
    BY DEF Init
  <2>2. \A p \in Temps : dir[p] = None
    BY <2>1, NameFacts
  <2> QED BY <2>2 DEF Init, Kept, NoOrphans
<1>2. IInv /\ Kept /\ [Next]_vars => Kept'
  BY KeptStep
<1>3. Kept => NoOrphans
  BY DEF Kept
<1> QED BY <1>1, <1>2, <1>3, StoreInv, PTL DEF Spec
-----------------------------------------------------------------------------
(* The refinement.  What the atomic store sees of a state: the writer of   *)
(* each file (all are complete), how far each request is, and the writer   *)
(* of what a GET sends.                                                    *)
By(i) == IF i = None THEN None ELSE data[i].by
ByNext(i) == IF i = None THEN None ELSE data'[i].by
StatusIn(state) ==
    CASE state = "new" -> "new"
      [] state \in {"admitted", "receiving"} -> "active"
      [] state = "renamed" -> "installed"
      [] state \in {"done", "over_done"} -> "done"
      [] state \in {"refused", "failed", "over_failed"} -> "failed"
      [] state = "lost" -> "lost"
Sends(r) == Op[r] = "GET" /\ pc[r] = "admitted"

Store == [t \in Targets |-> By(dir[t])]
Status == [r \in Requests |-> StatusIn(pc[r])]
Seen == [r \in Requests |-> IF Sends(r) THEN By(file_fd[r]) ELSE None]

(* These are the expressions that the refinement mapping substitutes.      *)
LEMMA View ==
    IInv => /\ [t \in Targets |-> Version(dir[t])] = Store
            /\ [r \in Requests |-> StatusOf(r)] = Status
            /\ [r \in Requests |-> IF Op[r] = "GET" /\ pc[r] = "admitted"
                                   THEN Version(file_fd[r]) ELSE None] = Seen
<1> SUFFICES ASSUME IInv
             PROVE  /\ [t \in Targets |-> Version(dir[t])] = Store
                    /\ [r \in Requests |-> StatusOf(r)] = Status
                    /\ [r \in Requests |-> IF Op[r] = "GET" /\ pc[r] = "admitted"
                                           THEN Version(file_fd[r]) ELSE None] = Seen
  OBVIOUS
<1>1. \A t \in Targets : Version(dir[t]) = By(dir[t])
  BY DEF IInv, DirInv, Version, By
<1>2. \A r \in Requests : Sends(r) => Version(file_fd[r]) = By(file_fd[r])
  BY DEF IInv, GetInv, Version, By, Sends
<1>3. \A r \in Requests : StatusOf(r) = StatusIn(pc[r])
  BY DEF StatusOf, StatusIn
<1> QED BY <1>1, <1>2, <1>3 DEF Store, Status, Seen, Sends

(* A step of one request that leaves the files' versions alone.            *)
LEMMA OneMoves ==
    ASSUME IInv, NEW r \in Requests, NEW to \in States, pc' = [pc EXCEPT ![r] = to],
           \A i \in Inodes : data'[i].by = data[i].by,
           \A s \in Requests : s # r => file_fd'[s] = file_fd[s]
    PROVE  /\ Status' = [Status EXCEPT ![r] = StatusIn(to)]
           /\ to # "admitted" => Seen' = [Seen EXCEPT ![r] = None]
           /\ Op[r] = "PUT" => Seen' = Seen
<1> USE DEF IInv
<1>1. (\A s \in Requests : s # r => pc'[s] = pc[s]) /\ pc'[r] = to
  BY DEF TypeInv
<1>2. Status' = [s \in Requests |-> StatusIn(pc'[s])]
  BY DEF Status
<1>3. Status' = [Status EXCEPT ![r] = StatusIn(to)]
  <2>1. [Status EXCEPT ![r] = StatusIn(to)]
          = [s \in Requests |-> IF s = r THEN StatusIn(to) ELSE StatusIn(pc[s])]
    BY DEF Status
  <2>2. \A s \in Requests : StatusIn(pc'[s]) = IF s = r THEN StatusIn(to) ELSE StatusIn(pc[s])
    BY <1>1
  <2> QED BY <1>2, <2>1, <2>2
<1>4. \A s \in Requests : s # r => ByNext(file_fd'[s]) = By(file_fd[s])
  BY DEF By, ByNext, TypeInv
<1>5. Seen' = [s \in Requests |-> IF Op[s] = "GET" /\ pc'[s] = "admitted"
                                  THEN ByNext(file_fd'[s]) ELSE None]
  BY DEF Seen, Sends, By, ByNext
<1>6. to # "admitted" => Seen' = [Seen EXCEPT ![r] = None]
  <2> SUFFICES ASSUME to # "admitted" PROVE Seen' = [Seen EXCEPT ![r] = None]
    OBVIOUS
  <2> DEFINE now(s) == IF Sends(s) THEN By(file_fd[s]) ELSE None
             next(s) == IF Op[s] = "GET" /\ pc'[s] = "admitted" THEN ByNext(file_fd'[s]) ELSE None
  <2>1. [Seen EXCEPT ![r] = None] = [s \in Requests |-> IF s = r THEN None ELSE now(s)]
    BY DEF Seen
  <2>2. ASSUME NEW s \in Requests PROVE next(s) = IF s = r THEN None ELSE now(s)
    BY <1>1, <1>4 DEF Sends
  <2>3. Seen' = [s \in Requests |-> next(s)]
    BY <1>5
  <2> HIDE DEF now, next
  <2> QED BY <2>1, <2>2, <2>3
<1>7. Op[r] = "PUT" => Seen' = Seen
  BY <1>1, <1>4, <1>5 DEF Seen, Sends
<1> QED BY <1>3, <1>6, <1>7

(* The files are as they were.                                             *)
LEMMA SameFiles ==
    ASSUME IInv, \A i \in Inodes : data'[i].by = data[i].by, \A t \in Targets : dir'[t] = dir[t]
    PROVE  Store' = Store
<1>1. Store' = [t \in Targets |-> ByNext(dir'[t])]
  BY DEF Store, By, ByNext
<1>2. \A t \in Targets : ByNext(dir'[t]) = By(dir[t])
  BY NameFacts DEF IInv, TypeInv, By, ByNext
<1> QED BY <1>1, <1>2 DEF Store

(* The atomic store on what is seen: the same specification, with simpler  *)
(* expressions for its variables.                                          *)
view == INSTANCE AtomicStore WITH store <- Store, status <- Status, seen <- Seen

LEMMA IsAtomicStep ==
    ASSUME IInv, IInv', [view!Next]_(view!vars)
    PROVE  [atomic!Next]_(atomic!vars)
<1> DEFINE st == [t \in Targets |-> Version(dir[t])]
           status == [r \in Requests |-> StatusOf(r)]
           sn == [r \in Requests |-> IF Op[r] = "GET" /\ pc[r] = "admitted"
                                     THEN Version(file_fd[r]) ELSE None]
<1>1. st = Store /\ status = Status /\ sn = Seen
  BY View
<1>2. (IInv => st = Store /\ status = Status /\ sn = Seen)'
  BY View, PTL
<1>3. st' = Store' /\ status' = Status' /\ sn' = Seen'
  BY <1>2
<1> QED
  BY <1>1, <1>3 DEF atomic!Next, atomic!vars, atomic!StartPut, atomic!StartGet,
     atomic!Install, atomic!Done, atomic!Fail, atomic!Crash, view!Next, view!vars, view!StartPut,
     view!StartGet, view!Install, view!Done, view!Fail, view!Crash

(* The statuses of the states that a request moves to.                     *)
LEMMA StateFacts ==
    /\ {"admitted", "receiving", "renamed", "done", "failed", "refused"} \subseteq States
    /\ StatusIn("admitted") = "active" /\ StatusIn("receiving") = "active"
    /\ StatusIn("renamed") = "installed" /\ StatusIn("done") = "done"
    /\ StatusIn("failed") = "failed" /\ StatusIn("refused") = "failed"
  BY DEF States, Serving, StatusIn

(* Admission begins the request, or ends a GET whose file is not there.    *)
LEMMA AdmissionSeen ==
    ASSUME IInv, NEW r \in Requests, AdmitPut(r) \/ AdmitGet(r) \/ RefuseGet(r)
    PROVE  view!Next
<1>1. pc[r] = "new" /\ Status[r] = "new"
  BY DEF AdmitPut, AdmitGet, RefuseGet, TakeId, Status, StatusIn
<1>2. Store' = Store
  BY SameFiles DEF AdmitPut, AdmitGet, RefuseGet
<1>3. CASE AdmitPut(r)
  <2>1. Op[r] = "PUT" /\ pc' = [pc EXCEPT ![r] = "admitted"] /\ file_fd' = file_fd /\ data' = data
    BY <1>3 DEF AdmitPut, Goto
  <2>2. Status' = [Status EXCEPT ![r] = "active"] /\ Seen' = Seen
    <3>1. Status' = [Status EXCEPT ![r] = StatusIn("admitted")] /\ Seen' = Seen
      BY <2>1, OneMoves, StateFacts
    <3> QED BY <3>1, StateFacts
  <2> QED BY <1>1, <1>2, <2>1, <2>2 DEF view!Next, view!StartPut
<1>4. CASE RefuseGet(r)
  <2>1. pc' = [pc EXCEPT ![r] = "refused"] /\ file_fd' = file_fd /\ data' = data
    BY <1>4 DEF RefuseGet, Goto
  <2>2. Status' = [Status EXCEPT ![r] = "failed"] /\ Seen' = [Seen EXCEPT ![r] = None]
    <3>1. Status' = [Status EXCEPT ![r] = StatusIn("refused")] /\ Seen' = [Seen EXCEPT ![r] = None]
      BY <2>1, OneMoves, StateFacts
    <3> QED BY <3>1, StateFacts
  <2> QED BY <1>1, <1>2, <2>2 DEF view!Next, view!Fail
<1>5. CASE AdmitGet(r)
  <2>1. /\ Op[r] = "GET" /\ dir[Target[r]] # None
        /\ pc' = [pc EXCEPT ![r] = "admitted"] /\ data' = data
        /\ file_fd' = [file_fd EXCEPT ![r] = dir[Target[r]]]
    BY <1>5 DEF AdmitGet, Goto
  <2>2. /\ \A s \in Requests : s # r => file_fd'[s] = file_fd[s] /\ pc'[s] = pc[s]
        /\ file_fd'[r] = dir[Target[r]] /\ pc'[r] = "admitted"
    BY <2>1 DEF IInv, TypeInv
  <2>3. Status' = [Status EXCEPT ![r] = "active"]
    <3>1. Status' = [Status EXCEPT ![r] = StatusIn("admitted")]
      <4>1. pc' = [pc EXCEPT ![r] = "admitted"] /\ "admitted" \in States
        BY <2>1, StateFacts
      <4>2. \A i \in Inodes : data'[i].by = data[i].by
        BY <2>1
      <4>3. \A s \in Requests : s # r => file_fd'[s] = file_fd[s]
        BY <2>2
      <4> QED BY <4>1, <4>2, <4>3, OneMoves
    <3> QED BY <3>1, StateFacts
  <2>4. Store[Target[r]] = By(dir[Target[r]]) /\ Store[Target[r]] # None
    <3>1. Store[Target[r]] = By(dir[Target[r]])
      BY NameFacts DEF Store
    <3>2. dir[Target[r]] \in Inodes
      BY <2>1, NameFacts DEF IInv, TypeInv
    <3>3. data[dir[Target[r]]].by \in Inodes
      BY <3>2 DEF IInv, TypeInv
    <3> QED BY <2>1, <3>1, <3>3, NameFacts DEF By
  <2>5. Seen' = [Seen EXCEPT ![r] = Store[Target[r]]]
    <3> DEFINE now(s) == IF Sends(s) THEN By(file_fd[s]) ELSE None
               next(s) == IF Op[s] = "GET" /\ pc'[s] = "admitted" THEN By(file_fd'[s]) ELSE None
               new == By(dir[Target[r]])
    <3>1. [Seen EXCEPT ![r] = new] = [s \in Requests |-> IF s = r THEN new ELSE now(s)]
      BY DEF Seen
    <3>2. ASSUME NEW s \in Requests PROVE next(s) = IF s = r THEN new ELSE now(s)
      BY <2>1, <2>2 DEF Sends
    <3>3. Seen' = [s \in Requests |-> next(s)]
      BY <2>1 DEF Seen, Sends, By
    <3> HIDE DEF now, next, new
    <3>4. Seen' = [Seen EXCEPT ![r] = new]
      BY <3>1, <3>2, <3>3
    <3> QED BY <2>4, <3>4 DEF new
  <2> QED BY <1>1, <1>2, <2>1, <2>3, <2>4, <2>5 DEF view!Next, view!StartGet
<1> QED BY <1>3, <1>4, <1>5

(* The ends of a slice, and of an open or a rename that failed.            *)
LEMMA ReturnSeen ==
    ASSUME PlainNames, IInv, NEW r \in Requests,
           OpenFails(r) \/ RenameFails(r) \/ Fail(r) \/ Succeed(r)
    PROVE  view!Next
<1>1. /\ dir' = dir /\ data' = data /\ \A s \in Requests : s # r => file_fd'[s] = file_fd[s]
  BY DEF OpenFails, RenameFails, Fail, Succeed, request, IInv, TypeInv
<1>2. Store' = Store
  BY <1>1, SameFiles
<1>3. CASE Succeed(r)
  <2>1. pc' = [pc EXCEPT ![r] = "done"] /\ pc[r] = IF Op[r] = "PUT" THEN "renamed" ELSE "admitted"
    BY <1>3 DEF Succeed, Goto
  <2>2. Status' = [Status EXCEPT ![r] = "done"] /\ Seen' = [Seen EXCEPT ![r] = None]
    <3>1. Status' = [Status EXCEPT ![r] = StatusIn("done")] /\ Seen' = [Seen EXCEPT ![r] = None]
      BY <1>1, <2>1, OneMoves, StateFacts
    <3> QED BY <3>1, StateFacts
  <2>3. Status[r] = IF Op[r] = "PUT" THEN "installed" ELSE "active"
    BY <2>1 DEF Status, StatusIn
  <2> QED BY <1>2, <2>2, <2>3 DEF view!Next, view!Done
<1>4. CASE OpenFails(r) \/ RenameFails(r) \/ Fail(r)
  <2>1. pc' = [pc EXCEPT ![r] = "failed"] /\ pc[r] \in {"admitted", "receiving", "renamed"}
    BY <1>4 DEF OpenFails, RenameFails, LastByteWritten, Fail, Goto
  <2>2. Status' = [Status EXCEPT ![r] = "failed"] /\ Seen' = [Seen EXCEPT ![r] = None]
    <3>1. Status' = [Status EXCEPT ![r] = StatusIn("failed")] /\ Seen' = [Seen EXCEPT ![r] = None]
      BY <1>1, <2>1, OneMoves, StateFacts
    <3> QED BY <3>1, StateFacts
  <2>3. Status[r] \in {"active", "installed"}
    BY <2>1 DEF Status, StatusIn
  <2> QED BY <1>2, <2>2, <2>3 DEF view!Next, view!Fail
<1> QED BY <1>3, <1>4

(* The rename is the step in which a PUT takes effect.                     *)
LEMMA RenameSeen ==
    ASSUME PlainNames, IInv, NEW r \in Requests, Rename(r)
    PROVE  view!Next
<1> DEFINE fd == file_fd[r]
           temp == tmp_path[r]
           dest == Target[r]
<1>1. /\ pc[r] = "receiving" /\ data' = data
      /\ dir' = [dir EXCEPT ![dest] = dir[temp], ![temp] = None]
      /\ file_fd' = [file_fd EXCEPT ![r] = None]
      /\ pc' = [pc EXCEPT ![r] = "renamed"]
  BY DEF Rename, LastByteWritten, Renamed, Goto
<1>2. /\ fd \in Inodes /\ data[fd].by = r /\ dir[temp] = fd /\ Op[r] = "PUT"
      /\ temp \in Paths /\ dest \in Targets /\ dest \in Paths
      /\ \A t \in Targets : t \in Paths /\ t # temp
  BY <1>1, ReceivingFacts, NameFacts
<1>3. \A s \in Requests : s # r => file_fd'[s] = file_fd[s]
  BY <1>1 DEF IInv, TypeInv
<1>4. Status[r] = "active"
  BY <1>1 DEF Status, StatusIn
<1>5. Status' = [Status EXCEPT ![r] = "installed"] /\ Seen' = Seen
  <2>1. Status' = [Status EXCEPT ![r] = StatusIn("renamed")] /\ Seen' = Seen
    BY <1>1, <1>2, <1>3, OneMoves, StateFacts
  <2> QED BY <2>1, StateFacts
<1>6. Store' = [Store EXCEPT ![dest] = r]
  <2>1. \A t \in Targets : dir'[t] = IF t = dest THEN fd ELSE dir[t]
    BY <1>1, <1>2 DEF IInv, TypeInv
  <2>2. Store' = [t \in Targets |-> By(dir'[t])]
    BY <1>1 DEF Store, By
  <2>3. By(fd) = r
    BY <1>2, NameFacts DEF By
  <2> HIDE DEF fd, dest
  <2>4. \A t \in Targets : By(dir'[t]) = IF t = dest THEN r ELSE By(dir[t])
    BY <2>1, <2>3
  <2>5. [Store EXCEPT ![dest] = r] = [t \in Targets |-> IF t = dest THEN r ELSE By(dir[t])]
    BY DEF Store
  <2> QED BY <2>2, <2>4, <2>5
<1> QED BY <1>2, <1>4, <1>5, <1>6 DEF view!Next, view!Install

(* The creation of the temporary file, a write and the release are not     *)
(* seen: they touch no file under a plain name and nothing a GET sends.    *)
LEMMA NotSeen ==
    ASSUME IInv, NEW r \in Requests, NEW to \in States,
           pc' = [pc EXCEPT ![r] = to], StatusIn(to) = StatusIn(pc[r]),
           ~Sends(r), Op[r] = "PUT" \/ to # "admitted",
           \A t \in Targets : dir'[t] = dir[t],
           \A s \in Requests : s # r => file_fd'[s] = file_fd[s],
           \A t \in Targets : dir[t] # None => data'[dir[t]].by = data[dir[t]].by,
           \A s \in Requests : Sends(s) => data'[file_fd[s]].by = data[file_fd[s]].by
    PROVE  UNCHANGED <<Store, Status, Seen>>
<1>1. (\A s \in Requests : s # r => pc'[s] = pc[s]) /\ pc'[r] = to
  BY DEF IInv, TypeInv
<1>2. Status' = Status
  <2>1. \A s \in Requests : StatusIn(pc'[s]) = StatusIn(pc[s])
    BY <1>1
  <2> QED BY <2>1 DEF Status
<1>3. Store' = Store
  <2>1. Store' = [t \in Targets |-> ByNext(dir'[t])]
    BY DEF Store, By, ByNext
  <2>2. \A t \in Targets : ByNext(dir'[t]) = By(dir[t])
    BY DEF By, ByNext
  <2> QED BY <2>1, <2>2 DEF Store
<1>4. Seen' = Seen
  <2> DEFINE now(s) == IF Sends(s) THEN By(file_fd[s]) ELSE None
             next(s) == IF Op[s] = "GET" /\ pc'[s] = "admitted" THEN ByNext(file_fd'[s]) ELSE None
  <2>1. Seen' = [s \in Requests |-> next(s)]
    BY DEF Seen, Sends, By, ByNext
  <2>2. ASSUME NEW s \in Requests PROVE next(s) = now(s)
    BY <1>1 DEF Sends, By, ByNext
  <2>3. Seen = [s \in Requests |-> now(s)]
    BY DEF Seen
  <2> HIDE DEF now, next
  <2> QED BY <2>1, <2>2, <2>3
<1> QED BY <1>2, <1>3, <1>4

LEMMA OpenTempNotSeen ==
    ASSUME PlainNames, IInv, NEW r \in Requests, OpenTemp(r)
    PROVE  UNCHANGED <<Store, Status, Seen>>
<1> DEFINE path == Temp(Target[r], id[r])
           inode == IF dir[path] = None THEN r ELSE dir[path]
<1>1. /\ Op[r] = "PUT" /\ pc[r] = "admitted"
      /\ file_fd' = [file_fd EXCEPT ![r] = inode]
      /\ dir' = [dir EXCEPT ![path] = inode]
      /\ data' = [data EXCEPT ![inode] = [by |-> r, len |-> 0]]
      /\ pc' = [pc EXCEPT ![r] = "receiving"]
  BY DEF OpenTemp, Goto
<1>2. path \in Temps /\ path \in Paths /\ path \notin Targets
  <2>1. id[r] \in Ids
    BY <1>1 DEF IInv, IdInv, TypeInv, Serving, Ids
  <2> QED BY <2>1, NameFacts DEF PlainNames
<1>3. \A i \in Inodes : i # inode => data'[i] = data[i]
  BY <1>1 DEF IInv, TypeInv
<1> HIDE DEF path
<1>4. \A t \in Targets : dir[t] # None => dir[t] \in Inodes /\ dir[t] # inode
  <2> SUFFICES ASSUME NEW t \in Targets, dir[t] # None PROVE dir[t] \in Inodes /\ dir[t] # inode
    OBVIOUS
  <2>1. t \in Paths /\ dir[t] \in Inodes /\ t # path
    BY <1>2, NameFacts DEF IInv, TypeInv
  <2>2. dir[t] # r
    BY <1>1, <2>1 DEF IInv, DirInv, Born
  <2>3. dir[path] # None => dir[t] # dir[path]
    BY <1>2, <2>1 DEF IInv, DirInv
  <2> QED BY <2>1, <2>2, <2>3
<1>5. \A s \in Requests : Sends(s) => file_fd[s] \in Inodes /\ file_fd[s] # inode
  <2> SUFFICES ASSUME NEW s \in Requests, Sends(s)
               PROVE  file_fd[s] \in Inodes /\ file_fd[s] # inode
    OBVIOUS
  <2>1. /\ file_fd[s] \in Inodes /\ Born(file_fd[s]) /\ dir[path] # file_fd[s]
    BY <1>2 DEF Sends, IInv, GetInv, TypeInv
  <2>2. file_fd[s] # r
    BY <1>1, <2>1 DEF Born
  <2> QED BY <2>1, <2>2
<1> HIDE DEF inode
<1>6. \A t \in Targets : dir'[t] = dir[t]
  BY <1>1, <1>2, NameFacts DEF IInv, TypeInv
<1>7. \A s \in Requests : s # r => file_fd'[s] = file_fd[s]
  BY <1>1 DEF IInv, TypeInv
<1>8. \A t \in Targets : dir[t] # None => data'[dir[t]].by = data[dir[t]].by
  BY <1>3, <1>4
<1>9. \A s \in Requests : Sends(s) => data'[file_fd[s]].by = data[file_fd[s]].by
  BY <1>3, <1>5
<1>10. StatusIn("receiving") = StatusIn(pc[r]) /\ "receiving" \in States /\ ~Sends(r)
  BY <1>1, StateFacts DEF Sends
<1> QED BY <1>1, <1>6, <1>7, <1>8, <1>9, <1>10, NotSeen

LEMMA WriteNotSeen ==
    ASSUME PlainNames, IInv, NEW r \in Requests, Write(r)
    PROVE  UNCHANGED <<Store, Status, Seen>>
<1>1. pc[r] = "receiving" /\ UNCHANGED <<dir, pc, file_fd>>
  BY DEF Write, request
<1>2. PICK n : data' = [data EXCEPT ![file_fd[r]].len = @ + n]
  BY DEF Write
<1>3. file_fd[r] \in Inodes /\ Op[r] = "PUT"
  BY <1>1, ReceivingFacts
<1>4. \A i \in Inodes : data'[i].by = data[i].by
  <2>1. ASSUME NEW i \in Inodes, i # file_fd[r] PROVE data'[i] = data[i]
    BY <1>2, <2>1 DEF IInv, TypeInv
  <2>2. data'[file_fd[r]] = [data[file_fd[r]] EXCEPT !.len = @ + n]
    BY <1>2, <1>3 DEF IInv, TypeInv
  <2>3. data[file_fd[r]] \in [by : Inodes, len : Nat]
    BY <1>3 DEF IInv, TypeInv
  <2>4. data'[file_fd[r]].by = data[file_fd[r]].by
    BY <2>2, <2>3
  <2> QED BY <2>1, <2>4
<1>5. Store' = Store
  BY <1>1, <1>4, SameFiles
<1>6. Status' = Status
  BY <1>1 DEF Status
<1>7. Seen' = Seen
  <2>1. \A s \in Requests : Sends(s) => By(file_fd[s]) = ByNext(file_fd[s])
    BY <1>4 DEF Sends, IInv, GetInv, TypeInv, By, ByNext
  <2>2. Seen' = [s \in Requests |-> IF Sends(s) THEN ByNext(file_fd[s]) ELSE None]
    BY <1>1 DEF Seen, Sends, By, ByNext
  <2> QED BY <2>1, <2>2 DEF Seen
<1> QED BY <1>5, <1>6, <1>7

LEMMA ReleaseNotSeen ==
    ASSUME PlainNames, IInv, NEW r \in Requests, Release(r)
    PROVE  UNCHANGED <<Store, Status, Seen>>
<1> DEFINE to == Ended(pc[r], pc[r])
<1>1. /\ pc[r] \in {"done", "failed"} /\ data' = data
      /\ dir' = IF tmp_path[r] = None THEN dir ELSE [dir EXCEPT ![tmp_path[r]] = None]
      /\ file_fd' = [file_fd EXCEPT ![r] = None]
      /\ pc' = [pc EXCEPT ![r] = to]
  BY DEF Release, Released, Goto
<1>2. /\ to \in {"over_done", "over_failed"} /\ to \in States
      /\ StatusIn(to) = StatusIn(pc[r]) /\ ~Sends(r)
  BY <1>1 DEF Ended, States, StatusIn, Sends
<1> HIDE DEF to
<1>3. \A t \in Targets : dir'[t] = dir[t]
  <2>1. tmp_path[r] # None => tmp_path[r] \in Temps
    BY DEF IInv, TypeInv
  <2> QED BY <1>1, <2>1, NameFacts DEF IInv, TypeInv, PlainNames
<1>4. \A s \in Requests : s # r => file_fd'[s] = file_fd[s]
  BY <1>1 DEF IInv, TypeInv
<1> QED BY <1>1, <1>2, <1>3, <1>4, NotSeen

(* The death of the server.                                                *)
LEMMA CrashSeen == ASSUME IInv, Crash PROVE view!Crash
<1>1. /\ pc' = [r \in Requests |-> Ended(pc[r], "lost")] /\ UNCHANGED <<dir, data>>
  BY DEF Crash
<1>2. Store' = Store
  BY <1>1, SameFiles
<1>3. ASSUME NEW r \in Requests
      PROVE  /\ StatusIn(pc'[r])
                  = IF Status[r] \in {"active", "installed"} THEN "lost" ELSE Status[r]
             /\ pc'[r] # "admitted"
  <2>1. pc[r] \in States /\ pc'[r] = Ended(pc[r], "lost") /\ Status[r] = StatusIn(pc[r])
    BY <1>1 DEF IInv, TypeInv, Status
  <2> QED BY <2>1 DEF States, Serving, Ended, StatusIn
<1>4. Status' = [r \in Requests |->
                   IF Status[r] \in {"active", "installed"} THEN "lost" ELSE Status[r]]
  <2>1. Status' = [r \in Requests |-> StatusIn(pc'[r])]
    BY DEF Status
  <2> QED BY <1>3, <2>1
<1>5. Seen' = [r \in Requests |-> None]
  <2>1. Seen' = [r \in Requests |-> IF Op[r] = "GET" /\ pc'[r] = "admitted"
                                    THEN ByNext(file_fd'[r]) ELSE None]
    BY DEF Seen, Sends, By, ByNext
  <2> QED BY <1>3, <2>1
<1> QED BY <1>2, <1>4, <1>5 DEF view!Crash

(* The initial state of the directory.                                     *)
LEMMA InitSeen == ASSUME PlainNames, Init PROVE atomic!Init
<1>1. PICK present \in SUBSET (Targets \ Temps) :
         dir = [p \in Paths |-> IF p \in present THEN p ELSE None]
  BY DEF Init
<1>2. \A t \in Targets : Version(dir[t]) \in {t, None}
  <2>1. \A t \in Targets : dir[t] \in {t, None}
    BY <1>1, NameFacts
  <2>2. \A t \in Targets : Version(t) = t
    BY NameFacts DEF Init, Version, Complete
  <2>3. Version(None) = None
    BY DEF Version
  <2> QED BY <2>1, <2>2, <2>3
<1>3. [t \in Targets |-> Version(dir[t])] \in [Targets -> Targets \cup {None}]
  BY <1>2
<1>4. [r \in Requests |-> StatusOf(r)] = [r \in Requests |-> "new"]
  BY DEF Init, StatusOf
<1>5. [r \in Requests |-> IF Op[r] = "GET" /\ pc[r] = "admitted" THEN Version(file_fd[r]) ELSE None]
        = [r \in Requests |-> None]
  BY DEF Init
<1>6. \A n \in Targets : [t \in Targets |-> Version(dir[t])][n] \in {n, None}
  BY <1>2
<1>7. atomic!Targets = Targets
  BY DEF atomic!Targets, Targets
<1> QED BY <1>3, <1>4, <1>5, <1>6, <1>7 DEF atomic!Init

(* The directory with its temporary files, chunks, renames, unlinks and    *)
(* crashes (slice.cpp:155-226, main.cpp:208-222) is an atomic store: a PUT *)
(* takes effect in one step, its rename, or not at all, a GET sends one    *)
(* version of its file, and a client that was told of success finds its    *)
(* file installed.                                                         *)
THEOREM DirectoryIsAtomic == PlainNames => (Spec => ImplementsStore)
<1> SUFFICES ASSUME PlainNames PROVE Spec => ImplementsStore
  OBVIOUS
<1>1. Init => atomic!Init
  BY InitSeen
<1>2. IInv /\ IInv' /\ [Next]_vars => [atomic!Next]_(atomic!vars)
  <2> SUFFICES ASSUME IInv, IInv', [Next]_vars PROVE [view!Next]_(view!vars)
    BY IsAtomicStep
  <2>1. ASSUME NEW r \in Requests, OpenTemp(r) \/ Write(r) \/ Release(r)
        PROVE  UNCHANGED view!vars
    BY <2>1, OpenTempNotSeen, WriteNotSeen, ReleaseNotSeen DEF view!vars
  <2>2. ASSUME NEW r \in Requests, AdmitPut(r) \/ AdmitGet(r) \/ RefuseGet(r) PROVE view!Next
    BY <2>2, AdmissionSeen
  <2>3. ASSUME NEW r \in Requests, OpenFails(r) \/ RenameFails(r) \/ Fail(r) \/ Succeed(r)
        PROVE  view!Next
    BY <2>3, ReturnSeen
  <2>4. ASSUME NEW r \in Requests, Rename(r) PROVE view!Next
    BY <2>4, RenameSeen
  <2>5. CASE Crash
    BY <2>5, CrashSeen DEF view!Next
  <2>6. CASE UNCHANGED vars
    BY <2>6 DEF vars, request, view!vars, Store, Status, Seen, By, Sends
  <2> QED BY <2>1, <2>2, <2>3, <2>4, <2>5, <2>6 DEF Next, Put, Get
<1> QED BY <1>1, <1>2, StoreInv, PTL DEF Spec, ImplementsStore, atomic!Spec
=============================================================================
