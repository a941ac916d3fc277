--------------------------- MODULE GetSliceProofs ---------------------------
(***************************************************************************)
(* Proofs about the slices of a GET, for every file, every quantum, every  *)
(* p_lines and every chunk size.                                           *)
(***************************************************************************)
EXTENDS GetSlice, FiniteSetTheorems, WellFoundedInduction, TLAPS

USE FilesAssumption, ParametersAssumption

(* The order of the natural numbers as a set of pairs.                     *)
Less == {p \in Nat \X Nat : p[1] < p[2]}

(* Every non-empty set of natural numbers has a least element.             *)
LEMMA LeastElement ==
    ASSUME NEW S \in SUBSET Nat, S # {}
    PROVE  \E x \in S : \A y \in S : x <= y
<1>1. IsWellFoundedOn(Less, Nat)
  BY NatLessThanWellFounded DEF OpToRel, Less
<1>2. PICK x \in S : \A y \in S : <<y, x>> \notin Less
  BY <1>1, WFMin
<1>3. \A y \in S : ~ (y < x)
  BY <1>2 DEF Less
<1> QED BY <1>3

(* A set that gains an element.                                            *)
LEMMA OneMore ==
    ASSUME NEW A, NEW B, NEW x, IsFiniteSet(B), A \subseteq B, x \in B, x \notin A
    PROVE  Cardinality(A) + 1 <= Cardinality(B)
<1>1. IsFiniteSet(A) /\ IsFiniteSet(A \cup {x}) /\ A \cup {x} \subseteq B
  BY FS_Subset, FS_AddElement
<1>2. Cardinality(A \cup {x}) = Cardinality(A) + 1
  BY <1>1, FS_AddElement
<1> QED BY <1>1, <1>2, FS_Subset

(* A set of numbers up to n is finite.                                     *)
LEMMA FiniteUpTo ==
    ASSUME NEW n \in Nat, NEW S, S \subseteq 0 .. n
    PROVE  IsFiniteSet(S) /\ Cardinality(S) \in Nat
<1>1. 0 \in Int /\ n \in Int
  OBVIOUS
<1>2. IsFiniteSet(0 .. n)
  BY <1>1, FS_Interval
<1>3. IsFiniteSet(S)
  BY <1>2, FS_Subset
<1> QED BY <1>3, FS_CardinalityType
(* A line ends after it starts and not after the file does.                *)
LEMMA LineEndsType ==
    ASSUME NEW f \in Files
    PROVE  /\ f.size \in Nat /\ f.size \in LineEnds(f)
           /\ \A e \in LineEnds(f) : e \in Nat /\ e <= f.size
<1>1. f \in [size : Nat, newlines : SUBSET Nat]
  OBVIOUS
<1>2. f.size \in Nat /\ f.newlines \in SUBSET Nat /\ \A n \in f.newlines : n < f.size
  BY <1>1
<1>3. \A n \in f.newlines : n + 1 \in Nat /\ n + 1 <= f.size
  BY <1>2
<1> QED BY <1>2, <1>3 DEF LineEnds

(* LineEnd is the first end of a line after o (slice.cpp:31-45).           *)
LEMMA LineEndFacts ==
    ASSUME NEW f \in Files, NEW o \in Nat, o < f.size
    PROVE  /\ LineEnd(f, o) \in LineEnds(f) /\ LineEnd(f, o) \in Nat
           /\ o < LineEnd(f, o) /\ LineEnd(f, o) <= f.size
           /\ \A e \in LineEnds(f) : o < e => LineEnd(f, o) <= e
<1> DEFINE S == {e \in LineEnds(f) : e > o}
<1>1. S \in SUBSET Nat /\ f.size \in S
  BY LineEndsType
<1>2. \E x \in S : \A y \in S : x <= y
  BY <1>1, LeastElement
<1>3. Min(S) \in S /\ \A y \in S : Min(S) <= y
  BY <1>2 DEF Min
<1>4. LineEnd(f, o) = Min(S)
  BY DEF LineEnd
<1> HIDE DEF S
<1>5. LineEnd(f, o) \in S /\ \A y \in S : LineEnd(f, o) <= y
  BY <1>3, <1>4
<1> QED BY <1>5, LineEndsType DEF S

(* A line has at least one byte and ends within the file.                  *)
LEMMA LineLengthFacts ==
    ASSUME NEW f \in Files, NEW o \in Nat, o < f.size
    PROVE  /\ LineLength(f, o) \in Nat /\ LineLength(f, o) > 0
           /\ o + LineLength(f, o) = LineEnd(f, o)
           /\ o + LineLength(f, o) <= f.size
           /\ o + LineLength(f, o) \in LineEnds(f)
<1>1. f.size \in Nat /\ LineEnd(f, o) \in Nat
  BY LineEndsType, LineEndFacts
<1> QED BY <1>1, LineEndFacts DEF LineLength

(* The scan of line_length_at (slice.cpp:31-45) finds the end of the line, *)
(* for every file and wherever its reads cut it: nl - buf is counted from  *)
(* the start of the last read, and a line without a newline ends with the  *)
(* file.                                                                   *)
THEOREM ScanFindsLine ==
    ASSUME NEW f \in Files, NEW o \in Nat, o < f.size, NEW read \in Reads(f)
    PROVE  ScannedLength(f, o, read) = LineLength(f, o)
<1> DEFINE N == f.size
           found(pos) == {n \in f.newlines : pos <= n /\ n < pos + read[pos]}
           Def(h) == h = [pos \in 0 .. N |->
                            IF pos = N THEN N - o
                            ELSE LET s == {n \in f.newlines : pos <= n /\ n < pos + read[pos]}
                                 IN  IF s # {} THEN (pos - o) + (Min(s) - pos) + 1
                                     ELSE h[pos + read[pos]]]
           g == [pos \in 0 .. N |-> (IF pos = N THEN N ELSE LineEnd(f, pos)) - o]
           at == CHOOSE h : Def(h)
<1>0. /\ N \in Nat /\ f.newlines \in SUBSET Nat /\ \A n \in f.newlines : n < N
      /\ LineEnds(f) = {n + 1 : n \in f.newlines} \cup {N}
  <2>1. f \in [size : Nat, newlines : SUBSET Nat]
    OBVIOUS
  <2> QED BY <2>1 DEF LineEnds
<1>1. ASSUME NEW pos \in 0 .. N - 1
      PROVE  /\ read[pos] \in Nat /\ read[pos] > 0 /\ pos + read[pos] <= N
             /\ pos \in Nat /\ pos + read[pos] \in 0 .. N
  <2>1. read \in [0 .. N - 1 -> Nat \ {0}] /\ \A p \in DOMAIN read : p + read[p] <= N
    BY DEF Reads
  <2>2. read[pos] \in Nat \ {0} /\ pos + read[pos] <= N
    BY <2>1
  <2> QED BY <1>0, <2>2
<1>2. ASSUME NEW pos \in 0 .. N - 1, found(pos) # {}
      PROVE  Min(found(pos)) \in Nat /\ LineEnd(f, pos) = Min(found(pos)) + 1
  <2>1. found(pos) \in SUBSET Nat
    BY <1>0
  <2>2. PICK m \in found(pos) : \A y \in found(pos) : m <= y
    BY <2>1, <1>2, LeastElement
  <2>3. Min(found(pos)) \in found(pos) /\ \A y \in found(pos) : Min(found(pos)) <= y
    <3> HIDE DEF found
    <3> QED BY <2>2 DEF Min
  <2> DEFINE least == Min(found(pos))
  <2>4. /\ least \in f.newlines /\ least \in Nat /\ pos <= least /\ least < pos + read[pos]
        /\ \A y \in found(pos) : least <= y
    <3> HIDE DEF least
    <3>1. least \in found(pos) /\ \A y \in found(pos) : least <= y
      BY <2>3 DEF least
    <3> QED BY <1>0, <3>1
  <2> HIDE DEF least
  <2>5. least + 1 \in LineEnds(f) /\ pos < least + 1
    BY <1>0, <1>1, <2>4
  <2>6. /\ LineEnd(f, pos) \in LineEnds(f) /\ LineEnd(f, pos) \in Nat
        /\ pos < LineEnd(f, pos) /\ LineEnd(f, pos) <= least + 1
    BY <1>0, <1>1, <2>5, LineEndFacts
  <2>7. least + 1 <= LineEnd(f, pos)
    <3>1. CASE LineEnd(f, pos) = N
      BY <1>0, <1>1, <2>4, <3>1
    <3>2. CASE LineEnd(f, pos) # N
      <4>1. PICK n \in f.newlines : LineEnd(f, pos) = n + 1
        BY <1>0, <2>6, <3>2
      <4>2. n \in Nat /\ pos <= n /\ n <= least
        BY <1>0, <1>1, <2>4, <2>6, <4>1
      <4>3. n \in found(pos)
        BY <1>1, <2>4, <4>1, <4>2
      <4> QED BY <2>4, <4>1, <4>2, <4>3
    <3> QED BY <3>1, <3>2
  <2> QED BY <2>4, <2>6, <2>7 DEF least
<1>3. ASSUME NEW pos \in 0 .. N - 1, found(pos) = {}, pos + read[pos] < N
      PROVE  LineEnd(f, pos) = LineEnd(f, pos + read[pos])
  <2> DEFINE nxt == pos + read[pos]
  <2>1. nxt \in Nat /\ nxt < N /\ pos \in Nat /\ pos < N /\ pos < nxt
    BY <1>0, <1>1, <1>3
  <2>2. /\ LineEnd(f, pos) \in LineEnds(f) /\ LineEnd(f, pos) \in Nat /\ pos < LineEnd(f, pos)
        /\ \A e \in LineEnds(f) : pos < e => LineEnd(f, pos) <= e
    BY <2>1, LineEndFacts
  <2>3. /\ LineEnd(f, nxt) \in LineEnds(f) /\ LineEnd(f, nxt) \in Nat /\ nxt < LineEnd(f, nxt)
        /\ \A e \in LineEnds(f) : nxt < e => LineEnd(f, nxt) <= e
    BY <2>1, LineEndFacts
  <2>4. nxt < LineEnd(f, pos)
    <3>1. CASE LineEnd(f, pos) = N
      BY <2>1, <3>1
    <3>2. CASE LineEnd(f, pos) # N
      <4>1. PICK n \in f.newlines : LineEnd(f, pos) = n + 1
        BY <1>0, <2>2, <3>2
      <4>2. n \in Nat /\ pos <= n
        BY <1>0, <2>1, <2>2, <4>1
      <4>3. n \notin found(pos)
        BY <1>3
      <4>4. ~ (n < nxt)
        BY <4>2, <4>3
      <4> HIDE DEF nxt, found
      <4> QED BY <2>1, <4>1, <4>2, <4>4
    <3> QED BY <3>1, <3>2
  <2> HIDE DEF nxt
  <2>5. LineEnd(f, nxt) <= LineEnd(f, pos) /\ LineEnd(f, pos) <= LineEnd(f, nxt)
    BY <2>1, <2>2, <2>3, <2>4
  <2>6. LineEnd(f, nxt) = LineEnd(f, pos)
    BY <2>2, <2>3, <2>5
  <2> QED BY <2>6 DEF nxt
<1>4. ASSUME NEW pos \in 0 .. N - 1, found(pos) = {}, pos + read[pos] = N
      PROVE  LineEnd(f, pos) = N
  <2>2. /\ LineEnd(f, pos) \in LineEnds(f) /\ LineEnd(f, pos) \in Nat /\ pos < LineEnd(f, pos)
    BY <1>0, <1>1, LineEndFacts
  <2> SUFFICES ASSUME LineEnd(f, pos) # N PROVE FALSE
    OBVIOUS
  <2>3. PICK n \in f.newlines : LineEnd(f, pos) = n + 1
    BY <1>0, <2>2
  <2>4. n \in Nat /\ pos <= n /\ n < pos + read[pos]
    BY <1>0, <1>1, <1>4, <2>2, <2>3
  <2>5. n \in found(pos)
    BY <2>4
  <2> QED BY <1>4, <2>5
<1>5. ASSUME NEW pos \in 0 .. N
      PROVE  g[pos] = IF pos = N THEN N - o
                      ELSE IF found(pos) # {} THEN (pos - o) + (Min(found(pos)) - pos) + 1
                      ELSE g[pos + read[pos]]
  <2>1. CASE pos = N
    BY <2>1
  <2>2. CASE pos # N /\ found(pos) # {}
    <3>1. pos \in 0 .. N - 1
      BY <1>0, <2>2
    <3>2. Min(found(pos)) \in Nat /\ LineEnd(f, pos) = Min(found(pos)) + 1
      BY <1>2, <2>2, <3>1
    <3>3. g[pos] = LineEnd(f, pos) - o
      BY <2>2
    <3> HIDE DEF found, g
    <3>4. g[pos] = (pos - o) + (Min(found(pos)) - pos) + 1
      BY <1>0, <3>1, <3>2, <3>3
    <3> QED BY <2>2, <3>4
  <2>3. CASE pos # N /\ found(pos) = {}
    <3>1. pos \in 0 .. N - 1
      BY <1>0, <2>3
    <3>2. pos + read[pos] \in 0 .. N /\ read[pos] \in Nat
      BY <1>1, <3>1
    <3>3. g[pos] = LineEnd(f, pos) - o
      BY <2>3
    <3>4. g[pos + read[pos]] = (IF pos + read[pos] = N THEN N ELSE LineEnd(f, pos + read[pos])) - o
      BY <3>2
    <3> HIDE DEF found, g
    <3>5. CASE pos + read[pos] = N
      BY <1>4, <2>3, <3>1, <3>3, <3>4, <3>5
    <3>6. CASE pos + read[pos] # N
      <4>1. pos + read[pos] < N
        BY <1>0, <3>2, <3>6
      <4> QED BY <1>3, <2>3, <3>1, <3>3, <3>4, <3>6, <4>1
    <3> QED BY <2>3, <3>5, <3>6
  <2> QED BY <2>1, <2>2, <2>3
<1>6. Def(at)
  <2>1. Def(g)
    <3>1. g = [pos \in 0 .. N |-> g[pos]]
      OBVIOUS
    <3> HIDE DEF g
    <3> QED BY <1>5, <3>1
  <2> HIDE DEF Def, g
  <2> QED BY <2>1
<1>7. ScannedLength(f, o, read) = at[o]
  BY DEF ScannedLength
<1> HIDE DEF at
<1>8. ASSUME NEW pos \in 0 .. N
      PROVE  at[pos] = IF pos = N THEN N - o
                       ELSE IF found(pos) # {} THEN (pos - o) + (Min(found(pos)) - pos) + 1
                       ELSE at[pos + read[pos]]
  BY <1>6
<1> HIDE DEF Def, g, found
<1>9. \A pos \in 0 .. N : at[pos] = g[pos]
  <2> DEFINE Bad == {d \in 0 .. N : at[N - d] # g[N - d]}
  <2> SUFFICES ASSUME NEW pos \in 0 .. N, at[pos] # g[pos] PROVE FALSE
    OBVIOUS
  <2>1. Bad \in SUBSET Nat
    BY <1>0
  <2>2. N - pos \in Bad
    <3>1. N - (N - pos) = pos /\ N - pos \in 0 .. N
      BY <1>0
    <3> QED BY <3>1
  <2>3. PICK d \in Bad : \A c \in Bad : d <= c
    BY <2>1, <2>2, LeastElement
  <2>4. d \in 0 .. N /\ N - d \in 0 .. N /\ at[N - d] # g[N - d]
    BY <1>0, <2>3
  <2>5. N - d # N /\ found(N - d) = {} /\ at[N - d] = at[(N - d) + read[N - d]]
        /\ g[N - d] = g[(N - d) + read[N - d]]
    BY <1>5, <1>8, <2>4
  <2>6. N - d \in 0 .. N - 1
    BY <1>0, <2>4, <2>5
  <2> DEFINE c == d - read[N - d]
  <2>7. read[N - d] \in Nat /\ read[N - d] > 0 /\ (N - d) + read[N - d] <= N
    BY <1>1, <2>6
  <2>8. c \in 0 .. N /\ N - c = (N - d) + read[N - d] /\ c < d
    BY <1>0, <2>4, <2>7
  <2>9. c \in Bad
    <3> HIDE DEF c
    <3>1. at[N - c] # g[N - c]
      BY <2>4, <2>5, <2>8
    <3> QED BY <2>8, <3>1
  <2>10. d <= c
    <3> HIDE DEF c, Bad
    <3> QED BY <2>3, <2>9
  <2> HIDE DEF c
  <2> QED BY <1>0, <2>4, <2>8, <2>10
<1>10. at[o] = LineEnd(f, o) - o
  <2>1. o \in 0 .. N /\ o # N
    BY <1>0
  <2>2. at[o] = g[o]
    BY <1>9, <2>1
  <2> QED BY <2>1, <2>2 DEF g
<1> QED BY <1>7, <1>10 DEF LineLength

(* What TypeOK says of the parameters.                                     *)
LEMMA ParamFacts ==
    ASSUME TypeOK
    PROVE  /\ sp.quantum \in Nat /\ sp.quantum <= Unbounded /\ Unbounded \in Nat
           /\ Bounded(sp.policy) => sp.quantum > 0
           /\ sp.policy \in Policies /\ sp.p_lines \in Int
           /\ P \in Nat /\ P >= 1 /\ Chunk \in Nat
           /\ file.size \in Nat /\ file.size <= Unbounded
           /\ offset \in Nat /\ rounds \in Nat /\ forfeited \in Nat /\ sent \in Nat
           /\ batch \in Nat /\ lines \in Nat /\ overrun \in Nat
           /\ deficit \in Nat /\ deficit <= Unbounded
           /\ left \in Nat /\ left <= Unbounded
<1>1. sp \in [policy : Policies, quantum : 0 .. Unbounded, p_lines : Int] /\ sp \in Params
  BY DEF TypeOK
<1>2. file.size \in Nat /\ file.size <= Unbounded
  BY LineEndsType DEF TypeOK
<1>3. P \in Nat /\ P >= 1
  BY <1>1 DEF P
<1> QED BY <1>1, <1>2, <1>3 DEF TypeOK

(* The same for the line a slice is about to send.                         *)
LEMMA LineFacts ==
    ASSUME TypeOK, offset < file.size
    PROVE  /\ Line \in Nat /\ Line > 0 /\ offset + Line <= file.size
           /\ offset + Line \in LineEnds(file)
           /\ offset + Line = LineEnd(file, offset)
  BY LineLengthFacts DEF TypeOK, Line
-----------------------------------------------------------------------------
(* A request that has just been admitted has the types of TypeOK.          *)
LEMMA SliceTypeInit == Init => TypeOK
<1> SUFFICES ASSUME Init PROVE TypeOK
  OBVIOUS
<1>1. file.size \in Nat
  BY LineEndsType DEF Init
<1> QED BY <1>1 DEF Init, TypeOK, NoHeader

(* No step leaves them; left -= len does not wrap, because the line fits.  *)
LEMMA SliceTypeStep == TypeOK /\ [Next]_vars => TypeOK'
<1> SUFFICES ASSUME TypeOK, [Next]_vars PROVE TypeOK'
  OBVIOUS
<1>0. sp \in Params /\ file \in Files /\ wire \in Int /\ offset <= file.size
  BY DEF TypeOK
<1>d. ASSUME NEW g, NEW a, NEW b \in Int PROVE Deliver(g, a, b) \in Int
  BY DEF Deliver, Garbled
<1>f. Flushed \in Int
  BY <1>0, ParamFacts DEF Flushed, Deliver, Garbled
<1>1. CASE StartRound
  <2>1. left' \in 0 .. Unbounded
    <3>1. CASE sp.policy = "rr"
      BY <1>1, <3>1, ParamFacts DEF StartRound
    <3>2. CASE sp.policy = "drr"
      BY <1>1, <3>2, ParamFacts DEF StartRound
    <3>3. CASE sp.policy \notin {"rr", "drr"}
      BY <1>1, <3>3, ParamFacts DEF StartRound
    <3> QED BY <3>1, <3>2, <3>3
  <2>2. wire' \in Int
    BY <1>0, <1>1 DEF StartRound
  <2> QED BY <1>0, <1>1, <2>1, <2>2, ParamFacts DEF StartRound, TypeOK
<1>2. CASE SendOversized
  <2>1. wire' \in Int
    BY <1>0, <1>2, <1>d, <1>f, ParamFacts, LineFacts DEF SendOversized, AtLine
  <2>2. overrun' \in Nat
    BY <1>2, ParamFacts, LineFacts DEF SendOversized, AtLine, Oversized
  <2>3. offset' \in Nat /\ offset' <= file.size
    BY <1>2, ParamFacts, LineFacts DEF SendOversized, AtLine
  <2> QED BY <1>0, <1>2, <2>1, <2>2, <2>3, ParamFacts DEF SendOversized, Return, TypeOK
<1>3. CASE Preempt
  <2>1. forfeited' \in Nat /\ deficit' \in 0 .. Unbounded
    BY <1>3, ParamFacts DEF Preempt
  <2> QED BY <1>0, <1>3, <1>f, <2>1, ParamFacts DEF Preempt, Return, TypeOK
<1>4. ASSUME Charge, AtLine, ~Oversized, ~NoRoom
      PROVE  /\ offset' \in Nat /\ offset' <= file.size /\ sent' \in Nat
             /\ left' \in 0 .. Unbounded
  BY <1>4, ParamFacts, LineFacts DEF Charge, AtLine, NoRoom
<1>5. CASE SendLong
  <2>1. wire' \in Int
    BY <1>0, <1>5, ParamFacts, LineFacts DEF SendLong, AtLine, Deliver, Garbled
  <2> QED BY <1>0, <1>4, <1>5, <2>1, ParamFacts DEF SendLong, TypeOK
<1>6. CASE SendBatched
  <2>1. wire' \in Int /\ batch' \in Nat /\ lines' \in Nat
    BY <1>0, <1>6, ParamFacts, LineFacts DEF SendBatched, AtLine, Deliver, Garbled
  <2> QED BY <1>0, <1>4, <1>6, <2>1, ParamFacts DEF SendBatched, TypeOK
<1>7. CASE Finish
  BY <1>0, <1>7, <1>f, ParamFacts DEF Finish, Return, TypeOK
<1>8. CASE Fail
  BY <1>8 DEF Fail, request, locals, TypeOK
<1>9. CASE UNCHANGED vars
  BY <1>9 DEF vars, request, locals, TypeOK
<1> QED BY <1>1, <1>2, <1>3, <1>5, <1>6, <1>7, <1>8, <1>9 DEF Next, SliceStep

(* No counter of a GET leaves its range: the allowance left never wraps    *)
(* below zero and the deficit saturates (slice.cpp:97-100, 136).           *)
THEOREM SliceTypeCorrect == Spec => []TypeOK
<1> QED BY SliceTypeInit, SliceTypeStep, PTL DEF Spec
-----------------------------------------------------------------------------
(* No line is split between slices.                                        *)
LEMMA WholeLinesStep == TypeOK /\ WholeLines /\ [Next]_vars => WholeLines'
<1> SUFFICES ASSUME TypeOK, WholeLines, [Next]_vars PROVE WholeLines'
  OBVIOUS
<1>1. CASE offset' = offset /\ file' = file
  BY <1>1 DEF WholeLines
<1>2. CASE AtLine /\ offset' = offset + Line /\ file' = file
  BY <1>2, LineFacts DEF WholeLines, AtLine, Boundaries
<1> QED BY <1>1, <1>2
        DEF Next, SliceStep, StartRound, SendOversized, Preempt, SendLong, SendBatched,
            Charge, Finish, Fail, request, vars

(* A request stands at the start of a line between slices (A6): whatever   *)
(* line is sent next, it is sent as a whole.                               *)
THEOREM NoLineIsSplit == Spec => []WholeLines
<1>1. Init => WholeLines
  BY DEF Init, WholeLines, Boundaries
<1> QED BY <1>1, SliceTypeInit, SliceTypeStep, WholeLinesStep, PTL DEF Spec
-----------------------------------------------------------------------------
(* The wire.  The locals of a slice are gone when it has returned, and a   *)
(* request that has had no round has sent nothing.                         *)
LocalsGone == pc \in {"queued", "done"} => left = 0 /\ sent = 0 /\ batch = 0 /\ lines = 0
FirstRound == pc = "queued" /\ rounds = 0 => offset = 0 /\ forfeited = 0 /\ overrun = 0
Started == pc = "sending" => rounds > 0
WireInv == WireInOrder /\ LocalsGone /\ FirstRound /\ Started

(* Flushing brings the client up to offset.                                *)
LEMMA FlushFacts ==
    ASSUME TypeOK, pc = "sending", WireInOrder
    PROVE  /\ Flushed = offset
           /\ \A n : Deliver(Flushed, offset, n) = n
           /\ \A n : Deliver(wire, offset - batch, n) = n
<1>1. wire + batch = offset /\ wire \in Int /\ batch \in Nat /\ offset \in Nat
  BY ParamFacts DEF WireInOrder, TypeOK
<1>2. wire = offset - batch
  BY <1>1
<1> QED BY <1>1, <1>2 DEF Flushed, Deliver

(* Every step keeps the order of the bytes and drops the locals on return. *)
LEMMA WireStep == TypeOK /\ WireInv /\ [Next]_vars => WireInv'
<1> SUFFICES ASSUME TypeOK, WireInv, [Next]_vars PROVE WireInv'
  OBVIOUS
<1> USE DEF WireInv, LocalsGone, FirstRound, Started
<1>0. wire \in Int
  BY DEF TypeOK
<1>1. CASE StartRound
  <2>1. wire' = offset /\ batch' = 0
    <3>1. CASE rounds = 0
      BY <1>1, <3>1 DEF StartRound, WireInOrder
    <3>2. CASE rounds # 0
      BY <1>1, <3>2, ParamFacts DEF StartRound, WireInOrder, NoHeader
    <3> QED BY <3>1, <3>2
  <2> QED BY <1>1, <2>1, ParamFacts DEF StartRound, WireInOrder
<1>2. CASE SendOversized
  <2>1. pc = "sending" /\ wire' = offset' /\ offset' = offset + Line
    BY <1>2, FlushFacts DEF SendOversized, AtLine
  <2>2. rounds' = rounds /\ rounds # 0 /\ file' = file
    BY <1>2, ParamFacts DEF SendOversized, AtLine, WireInOrder
  <2>3. (IF offset' >= file.size THEN "done" ELSE "queued") = "done" => offset' = file.size
    BY <2>1, <1>2, ParamFacts, LineFacts DEF SendOversized, AtLine
  <2> QED BY <1>2, <2>1, <2>2, <2>3 DEF SendOversized, Return, WireInOrder
<1>3. CASE Preempt
  <2>1. wire' = offset
    BY <1>3, FlushFacts DEF Preempt, AtLine
  <2>2. rounds' = rounds /\ rounds # 0 /\ offset' = offset
    BY <1>3, ParamFacts DEF Preempt, AtLine
  <2> QED BY <1>3, <2>1, <2>2 DEF Preempt, Return, WireInOrder
<1>4. CASE SendLong
  <2>1. wire' = offset' /\ batch' = 0 /\ offset' \in Nat
    BY <1>4, FlushFacts, ParamFacts, LineFacts DEF SendLong, Charge, AtLine
  <2> QED BY <1>4, <2>1, ParamFacts DEF SendLong, AtLine, WireInOrder
<1>5. CASE SendBatched
  <2>1. /\ wire' + batch' = offset' /\ wire' >= 0
        /\ pc' = pc /\ pc = "sending" /\ rounds' = rounds
    <3>1. CASE Full
      BY <1>5, <3>1, FlushFacts, ParamFacts, LineFacts DEF SendBatched, Charge, AtLine
    <3>2. CASE ~Full
      BY <1>0, <1>5, <3>2, ParamFacts, LineFacts DEF SendBatched, Charge, AtLine, WireInOrder
    <3> QED BY <3>1, <3>2, <1>5 DEF SendBatched, AtLine
  <2> QED BY <2>1 DEF WireInOrder
<1>6. CASE Finish
  <2>1. wire' = offset /\ offset = file.size
    BY <1>6, FlushFacts, ParamFacts DEF Finish, TypeOK
  <2> QED BY <1>6, <2>1 DEF Finish, Return, WireInOrder
<1>7. CASE Fail
  BY <1>7 DEF Fail, WireInOrder
<1>8. CASE UNCHANGED vars
  BY <1>8 DEF vars, request, locals, WireInOrder
<1> QED BY <1>1, <1>2, <1>3, <1>4, <1>5, <1>6, <1>7, <1>8 DEF Next, SliceStep

(* The client gets the file, whole and in order (slice.cpp:107-141).       *)
THEOREM WireIsInOrder == Spec => []WireInOrder
<1>1. Init => WireInv
  BY DEF Init, WireInv, WireInOrder, LocalsGone, FirstRound, Started
<1>2. WireInv => WireInOrder
  BY DEF WireInv
<1> QED BY <1>1, <1>2, SliceTypeInit, SliceTypeStep, WireStep, PTL DEF Spec
-----------------------------------------------------------------------------
(* The accounting of the allowance.                                        *)
LEMMA OneRoundMore == \A n, q \in Nat : (n + 1) * q = n * q + q /\ n * q \in Nat
  OBVIOUS

RrLeft == sp.policy = "rr" /\ pc = "sending" => left + sent = sp.quantum
OnlyDrrCarries == sp.policy # "drr" => deficit = 0
QueuedHasMore == pc = "queued" /\ rounds > 0 => offset < file.size /\ Bounded(sp.policy)
AccountInv ==
    /\ RrAccounting /\ DrrAccounting /\ DeficitBelowLine
    /\ RrLeft /\ OnlyDrrCarries /\ QueuedHasMore

(* All accounts are zero before the first slice.                           *)
LEMMA AccountInit == Init => AccountInv
<1> SUFFICES ASSUME Init PROVE AccountInv
  OBVIOUS
<1>1. TypeOK
  BY SliceTypeInit
<1>2. RrAccounting /\ DrrAccounting /\ RrLeft /\ OnlyDrrCarries /\ QueuedHasMore
  BY <1>1, ParamFacts DEF Init, RrAccounting, DrrAccounting, RrLeft, OnlyDrrCarries, QueuedHasMore
<1>3. DeficitBelowLine
  BY <1>1, LineFacts DEF Init, DeficitBelowLine
<1> QED BY <1>2, <1>3 DEF AccountInv

(* A line is charged to what is left.                                      *)
LEMMA ChargeStep ==
    ASSUME TypeOK, AccountInv, AtLine, ~Oversized, ~NoRoom, Charge,
           UNCHANGED <<sp, file, pc, rounds, forfeited, deficit, overrun>>
    PROVE  AccountInv'
<1>0. pc = "sending" /\ pc' = "sending" /\ sp' = sp /\ file' = file
  BY DEF AtLine
<1>1. /\ Line \in Nat /\ Line > 0 /\ offset' = offset + Line /\ sent' = sent + Line
      /\ offset + Line <= file.size
  BY LineFacts DEF AtLine, Charge
<1>2. Bounded(sp.policy) => Line <= left /\ left' = left - Line
  BY <1>1, ParamFacts DEF NoRoom, Charge
<1>3. RrAccounting' /\ RrLeft'
  <2> SUFFICES ASSUME sp.policy = "rr"
               PROVE  /\ offset' + forfeited' + left' = rounds' * sp'.quantum + overrun'
                      /\ left' + sent' = sp'.quantum
    BY <1>0 DEF RrAccounting, RrLeft
  <2>1. Bounded(sp.policy)
    BY DEF Bounded
  <2>2. /\ offset + forfeited + left = rounds * sp.quantum + overrun
        /\ left + sent = sp.quantum
    BY <1>0 DEF AccountInv, RrAccounting, RrLeft
  <2>3. rounds * sp.quantum \in Nat
    BY OneRoundMore, ParamFacts
  <2> QED BY <1>0, <1>1, <1>2, <2>1, <2>2, <2>3, ParamFacts
<1>4. DrrAccounting'
  <2> SUFFICES ASSUME sp.policy = "drr"
               PROVE  /\ forfeited' = 0 /\ overrun' = 0
                      /\ \/ offset' + left' = rounds' * sp'.quantum
                         \/ left' >= file'.size - offset'
    BY <1>0 DEF DrrAccounting
  <2>1. Bounded(sp.policy)
    BY DEF Bounded
  <2>2. /\ forfeited = 0 /\ overrun = 0
        /\ offset + left = rounds * sp.quantum \/ left >= file.size - offset
    BY <1>0 DEF AccountInv, DrrAccounting
  <2>3. rounds * sp.quantum \in Nat
    BY OneRoundMore, ParamFacts
  <2> QED BY <1>0, <1>1, <1>2, <2>1, <2>2, <2>3, ParamFacts
<1> QED BY <1>0, <1>3, <1>4
        DEF AccountInv, DeficitBelowLine, OnlyDrrCarries, QueuedHasMore

(* Every step of a slice keeps the accounts.                               *)
LEMMA AccountStep == TypeOK /\ WireInv /\ AccountInv /\ [Next]_vars => AccountInv'
<1> SUFFICES ASSUME TypeOK, WireInv, AccountInv, [Next]_vars PROVE AccountInv'
  OBVIOUS
<1>0. /\ rounds * sp.quantum \in Nat
      /\ (rounds + 1) * sp.quantum = rounds * sp.quantum + sp.quantum
      /\ TypeOK'
  BY OneRoundMore, ParamFacts, SliceTypeStep
<1>1. CASE StartRound
  <2>1. left = 0 /\ sent = 0 /\ offset \in Nat
    BY <1>1, ParamFacts DEF StartRound, WireInv, LocalsGone
  <2>2. CASE sp.policy = "rr"
    <3>1. left' = sp.quantum
      BY <1>1, <2>2 DEF StartRound
    <3>2. offset + forfeited + left = rounds * sp.quantum + overrun
      BY <1>1, <2>2 DEF StartRound, AccountInv, RrAccounting
    <3>3. RrAccounting'
      BY <1>0, <1>1, <2>1, <3>1, <3>2, ParamFacts DEF StartRound, RrAccounting
    <3> QED BY <1>1, <2>1, <2>2, <3>1, <3>3, ParamFacts
            DEF StartRound, AccountInv, DrrAccounting, DeficitBelowLine, RrLeft,
                OnlyDrrCarries, QueuedHasMore
  <2>3. CASE sp.policy = "drr"
    <3>1. offset + deficit = rounds * sp.quantum /\ forfeited = 0 /\ overrun = 0
      BY <1>1, <2>3 DEF StartRound, AccountInv, DrrAccounting
    <3>2. left' = IF deficit > Unbounded - sp.quantum THEN Unbounded ELSE deficit + sp.quantum
      BY <1>1, <2>3 DEF StartRound
    <3>3. offset' + left' = rounds' * sp'.quantum \/ left' >= file'.size - offset'
      BY <1>0, <1>1, <3>1, <3>2, ParamFacts DEF StartRound
    <3>4. DrrAccounting'
      BY <1>1, <3>1, <3>3 DEF StartRound, DrrAccounting
    <3> QED BY <1>1, <2>3, <3>4
            DEF StartRound, AccountInv, RrAccounting, DeficitBelowLine, RrLeft,
                OnlyDrrCarries, QueuedHasMore
  <2>4. CASE sp.policy \notin {"rr", "drr"}
    BY <1>1, <2>4 DEF StartRound, AccountInv, RrAccounting, DrrAccounting, DeficitBelowLine,
                      RrLeft, OnlyDrrCarries, QueuedHasMore
  <2> QED BY <2>2, <2>3, <2>4
<1>2. CASE SendOversized
  <2>1. /\ sp.policy = "rr" /\ sent = 0 /\ Line > sp.quantum /\ pc = "sending"
        /\ offset' = offset + Line /\ overrun' = overrun + (Line - sp.quantum)
        /\ left' = 0 /\ UNCHANGED <<sp, file, rounds, forfeited, deficit>>
        /\ pc' = IF offset' >= file.size THEN "done" ELSE "queued"
    BY <1>2 DEF SendOversized, Oversized, AtLine, Return
  <2>2. left = sp.quantum /\ offset + forfeited + left = rounds * sp.quantum + overrun
    BY <2>1, ParamFacts DEF AccountInv, RrLeft, RrAccounting
  <2>3. Line \in Nat
    BY <1>2, LineFacts DEF SendOversized, AtLine
  <2>4. RrAccounting'
    <3>1. (offset + Line) + forfeited + 0 = rounds * sp.quantum + (overrun + (Line - sp.quantum))
      BY <1>0, <2>2, <2>3, ParamFacts
    <3> QED BY <2>1, <3>1 DEF RrAccounting
  <2>5. deficit = 0
    BY <2>1 DEF AccountInv, OnlyDrrCarries
  <2>6. DeficitBelowLine'
    <3> SUFFICES ASSUME offset' < file'.size PROVE 0 < Line'
      BY <2>1, <2>5 DEF DeficitBelowLine
    <3> QED BY <1>0, LineLengthFacts DEF TypeOK, Line
  <2>7. QueuedHasMore'
    <3> SUFFICES ASSUME pc' = "queued" PROVE offset' < file'.size /\ Bounded(sp'.policy)
      BY DEF QueuedHasMore
    <3>1. ~ (offset' >= file.size)
      BY <2>1
    <3> QED BY <1>0, <2>1, <2>3, <3>1, ParamFacts DEF Bounded
  <2> QED BY <2>1, <2>4, <2>5, <2>6, <2>7 DEF AccountInv, DrrAccounting, RrLeft, OnlyDrrCarries
<1>3. CASE Preempt
  <2>1. /\ pc = "sending" /\ pc' = "queued" /\ offset < file.size /\ offset' = offset
        /\ Bounded(sp.policy) /\ Line > left /\ left' = 0
        /\ UNCHANGED <<sp, file, rounds, overrun>>
    BY <1>3 DEF Preempt, NoRoom, AtLine, Return
  <2>2. Line \in Nat /\ Line > 0 /\ offset + Line <= file.size /\ Line' = Line
    BY <2>1, LineFacts DEF Line
  <2>3. CASE sp.policy = "rr"
    <3>1. forfeited' = forfeited + left /\ deficit' = deficit /\ deficit = 0
      BY <1>3, <2>3 DEF Preempt, AccountInv, OnlyDrrCarries
    <3>2. offset + forfeited + left = rounds * sp.quantum + overrun
      BY <2>1, <2>3 DEF AccountInv, RrAccounting
    <3>3. RrAccounting'
      BY <1>0, <2>1, <3>1, <3>2, ParamFacts DEF RrAccounting
    <3> QED BY <2>1, <2>2, <2>3, <3>1, <3>3
            DEF AccountInv, DrrAccounting, DeficitBelowLine, RrLeft, OnlyDrrCarries,
                QueuedHasMore
  <2>4. CASE sp.policy = "drr"
    <3>1. deficit' = left /\ forfeited' = forfeited
      BY <1>3, <2>4 DEF Preempt
    <3>2. /\ forfeited = 0 /\ overrun = 0
          /\ offset + left = rounds * sp.quantum \/ left >= file.size - offset
      BY <2>1, <2>4 DEF AccountInv, DrrAccounting
    <3>3. offset + left = rounds * sp.quantum
      BY <2>1, <2>2, <3>2, ParamFacts
    <3>4. DrrAccounting'
      BY <2>1, <3>1, <3>2, <3>3 DEF DrrAccounting
    <3> QED BY <2>1, <2>2, <2>4, <3>1, <3>4
            DEF AccountInv, RrAccounting, DeficitBelowLine, RrLeft, OnlyDrrCarries,
                QueuedHasMore
  <2> QED BY <2>1, <2>3, <2>4 DEF Bounded
<1>4. CASE SendLong \/ SendBatched
  BY <1>4, ChargeStep DEF SendLong, SendBatched
<1>5. CASE Finish
  BY <1>5 DEF Finish, Return, AccountInv, RrAccounting, DrrAccounting, DeficitBelowLine,
              RrLeft, OnlyDrrCarries, QueuedHasMore
<1>6. CASE Fail
  BY <1>6 DEF Fail, request, locals, AccountInv, RrAccounting, DrrAccounting,
              DeficitBelowLine, RrLeft, OnlyDrrCarries, QueuedHasMore
<1>7. CASE UNCHANGED vars
  BY <1>7 DEF vars, request, locals, AccountInv, RrAccounting, DrrAccounting,
              DeficitBelowLine, RrLeft, OnlyDrrCarries, QueuedHasMore, Line
<1> QED BY <1>1, <1>2, <1>3, <1>4, <1>5, <1>6, <1>7 DEF Next, SliceStep

(* The wire and the accounts are right in every reachable state.           *)
LEMMA AllInvariants == Spec => [](TypeOK /\ WireInv /\ AccountInv)
<1>1. Init => WireInv
  BY DEF Init, WireInv, WireInOrder, LocalsGone, FirstRound, Started
<1> QED BY <1>1, SliceTypeInit, SliceTypeStep, WireStep, AccountInit, AccountStep, PTL
        DEF Spec

(* Every byte of every quantum is sent, forfeited, left or reported as an  *)
(* A14 overrun (slice.cpp:112-124).                                        *)
THEOREM RrAccounts == Spec => []RrAccounting
<1>1. AccountInv => RrAccounting
  BY DEF AccountInv
<1> QED BY <1>1, AllInvariants, PTL

(* Under drr nothing is lost, even where the sum saturates                 *)
(* (slice.cpp:97-100, 122).                                                *)
THEOREM DrrAccounts == Spec => []DrrAccounting
<1>1. AccountInv => DrrAccounting
  BY DEF AccountInv
<1> QED BY <1>1, AllInvariants, PTL

(* What a request saves up never pays for its next line.                   *)
THEOREM DeficitIsSmall == Spec => []DeficitBelowLine
<1>1. AccountInv => DeficitBelowLine
  BY DEF AccountInv
<1> QED BY <1>1, AllInvariants, PTL
-----------------------------------------------------------------------------
(* The number of rounds.  Under rr every round but the current one, if it  *)
(* has sent nothing yet, sent a line.                                      *)
EndsReached == {e \in LineEnds(file) : e <= offset}
LinesBound == sp.policy = "rr" =>
    /\ pc = "queued" => rounds <= LinesSent
    /\ pc = "sending" => rounds <= LinesSent + 1 /\ (sent > 0 => rounds <= LinesSent)

(* The lines sent can be counted.                                          *)
LEMMA LinesSentType ==
    ASSUME TypeOK
    PROVE  IsFiniteSet(EndsReached) /\ LinesSent = Cardinality(EndsReached) /\ LinesSent \in Nat
<1>1. EndsReached \subseteq 0 .. offset
  BY LineEndsType DEF EndsReached, TypeOK
<1>2. IsFiniteSet(EndsReached)
  BY <1>1, FiniteUpTo, ParamFacts
<1> QED BY <1>2, FS_CardinalityType DEF LinesSent, EndsReached

(* Sending a line reaches one more line end.                               *)
LEMMA LineReached ==
    ASSUME TypeOK, TypeOK', AtLine, offset' = offset + Line, file' = file
    PROVE  LinesSent + 1 <= LinesSent'
<1>1. /\ offset + Line \in LineEnds(file) /\ Line \in Nat /\ Line > 0 /\ offset \in Nat
      /\ \A e \in LineEnds(file) : e \in Nat
  BY LineFacts, LineEndsType, ParamFacts DEF AtLine, TypeOK
<1>2. EndsReached \subseteq EndsReached'
  BY <1>1 DEF EndsReached
<1>3. offset + Line \in EndsReached' /\ offset + Line \notin EndsReached
  BY <1>1 DEF EndsReached
<1>4. IsFiniteSet(EndsReached') /\ LinesSent' = Cardinality(EndsReached')
  <2>1. EndsReached' \subseteq 0 .. offset'
    BY LineEndsType DEF EndsReached, TypeOK
  <2>2. offset' \in Nat
    BY DEF TypeOK
  <2>3. IsFiniteSet(EndsReached')
    BY <2>1, <2>2, FiniteUpTo
  <2> QED BY <2>3 DEF LinesSent, EndsReached
<1> QED BY <1>2, <1>3, <1>4, LinesSentType, OneMore

(* The arithmetic of one line more.                                        *)
LEMMA NoMoreRoundsThanLines ==
    \A m, n, r \in Nat : m + 1 <= n /\ r <= m + 1 => r <= n /\ r <= n + 1
OBVIOUS

(* Under rr a round that starts has a line to send before it can end.      *)
LEMMA LinesStep ==
    TypeOK /\ WireInv /\ AccountInv /\ LinesBound /\ [Next]_vars => LinesBound'
<1> SUFFICES ASSUME TypeOK, WireInv, AccountInv, LinesBound, [Next]_vars, sp'.policy = "rr"
             PROVE  /\ pc' = "queued" => rounds' <= LinesSent'
                    /\ pc' = "sending" => /\ rounds' <= LinesSent' + 1
                                         /\ (sent' > 0 => rounds' <= LinesSent')
  BY DEF LinesBound
<1>0. /\ TypeOK' /\ sp' = sp /\ file' = file /\ LinesSent \in Nat /\ rounds \in Nat
      /\ LinesSent' \in Nat
  <2>1. TypeOK'
    BY SliceTypeStep
  <2>2. sp' = sp /\ file' = file
    BY DEF Next, SliceStep, StartRound, SendOversized, Preempt, SendLong, SendBatched,
           Finish, Fail, vars
  <2>3. LinesSent' \in Nat
    <3>1. EndsReached' \subseteq 0 .. offset' /\ offset' \in Nat
      BY <2>1, LineEndsType DEF EndsReached, TypeOK
    <3>2. IsFiniteSet(EndsReached')
      BY <3>1, FiniteUpTo
    <3> QED BY <3>2, FS_CardinalityType DEF LinesSent, EndsReached
  <2> QED BY <2>1, <2>2, <2>3, LinesSentType, ParamFacts
<1>s. offset' = offset => LinesSent' = LinesSent
  BY <1>0 DEF LinesSent
<1>1. CASE StartRound
  <2>1. /\ pc = "queued" /\ rounds' = rounds + 1 /\ pc' = "sending" /\ sent' = 0
        /\ offset' = offset
    BY <1>1 DEF StartRound, WireInv, LocalsGone
  <2> QED BY <1>0, <1>s, <2>1 DEF LinesBound
<1>2. CASE SendOversized
  <2>1. LinesSent + 1 <= LinesSent' /\ rounds' = rounds /\ pc = "sending" /\ pc' # "sending"
    BY <1>0, <1>2, LineReached DEF SendOversized, AtLine, Return
  <2>2. rounds <= LinesSent + 1
    BY <1>0, <2>1 DEF LinesBound
  <2>3. rounds <= LinesSent'
    BY <1>0, <2>1, <2>2, NoMoreRoundsThanLines
  <2> QED BY <2>1, <2>3
<1>3. CASE Preempt
  <2>1. /\ pc = "sending" /\ pc' = "queued" /\ rounds' = rounds /\ offset' = offset
        /\ ~Oversized /\ Line > left /\ offset < file.size
    BY <1>3 DEF Preempt, NoRoom, AtLine, Return
  <2>2. left + sent = sp.quantum /\ ~ (sent = 0 /\ Line > sp.quantum)
    BY <1>0, <2>1 DEF AccountInv, RrLeft, Oversized
  <2>3. sent > 0
    BY <2>1, <2>2, ParamFacts, LineFacts
  <2> QED BY <1>0, <1>s, <2>1, <2>3 DEF LinesBound
<1>4. CASE SendLong \/ SendBatched
  <2>1. LinesSent + 1 <= LinesSent' /\ rounds' = rounds /\ pc = "sending" /\ pc' = "sending"
    BY <1>0, <1>4, LineReached DEF SendLong, SendBatched, AtLine, Charge
  <2>2. rounds <= LinesSent + 1
    BY <1>0, <2>1 DEF LinesBound
  <2>3. rounds <= LinesSent' /\ rounds <= LinesSent' + 1
    BY <1>0, <2>1, <2>2, NoMoreRoundsThanLines
  <2> QED BY <2>1, <2>3
<1>5. CASE Finish \/ Fail
  BY <1>5 DEF Finish, Fail, Return
<1>6. CASE UNCHANGED vars
  BY <1>0, <1>s, <1>6 DEF vars, request, locals, LinesBound
<1> QED BY <1>1, <1>2, <1>3, <1>4, <1>5, <1>6 DEF Next, SliceStep

(* A GET comes back to the queue a bounded number of times: under rr at    *)
(* most once per line, under drr as long as the quanta do not add up to    *)
(* the size of the file, under fcfs and sjf never (A16).                   *)
THEOREM RoundsAreBounded == Spec => []RoundsBounded
<1> DEFINE IInv == TypeOK /\ WireInv /\ AccountInv /\ LinesBound
<1>1. Init => IInv
  <2> SUFFICES ASSUME Init PROVE LinesBound /\ WireInv
    BY SliceTypeInit, AccountInit
  <2>1. TypeOK
    BY SliceTypeInit
  <2>2. LinesSent \in Nat
    BY <2>1, LinesSentType
  <2> QED BY <2>2 DEF Init, WireInv, WireInOrder, LocalsGone, FirstRound, Started, LinesBound
<1>2. IInv /\ [Next]_vars => IInv'
  BY SliceTypeStep, WireStep, AccountStep, LinesStep
<1>3. IInv => RoundsBounded
  <2> SUFFICES ASSUME IInv, pc = "queued"
               PROVE  /\ Bounded(sp.policy) \/ rounds = 0
                      /\ sp.policy = "rr" => rounds <= LinesSent
                      /\ sp.policy = "drr" /\ rounds > 0 => rounds * sp.quantum < file.size
    BY DEF RoundsBounded
  <2>1. Bounded(sp.policy) \/ rounds = 0
    BY ParamFacts DEF AccountInv, QueuedHasMore
  <2>2. sp.policy = "rr" => rounds <= LinesSent
    BY DEF LinesBound
  <2>3. ASSUME sp.policy = "drr", rounds > 0 PROVE rounds * sp.quantum < file.size
    <3>1. offset < file.size /\ offset + deficit = rounds * sp.quantum
      BY <2>3 DEF AccountInv, QueuedHasMore, DrrAccounting
    <3>2. deficit < Line
      BY <3>1 DEF AccountInv, DeficitBelowLine
    <3> QED BY <3>1, <3>2, ParamFacts, LineFacts
  <2> QED BY <2>1, <2>2, <2>3
<1> HIDE DEF IInv
<1> QED BY <1>1, <1>2, <1>3, PTL DEF Spec
-----------------------------------------------------------------------------
(* How long a transfer can take.  Rounds that are still to come, each of   *)
(* at most one step per byte and two more, and what is left of this one.   *)
QueuedInRange == pc = "queued" => rounds <= file.size + 1
RoundsInRange ==
    /\ QueuedInRange
    /\ pc = "sending" => rounds <= file.size + 2

StepsLeft ==
    LET most == file.size + 2
    IN  CASE pc = "queued"  -> (most - rounds) * most
          [] pc = "sending" -> (most - rounds) * most + 1 + (file.size - offset)
          [] OTHER          -> 0

(* A product with a factor that is one less, or at least one.              *)
LEMMA Products ==
    ASSUME NEW a \in Nat, NEW b \in Nat
    PROVE  /\ a * b \in Nat
           /\ (a - 1) * b = a * b - b
           /\ b >= 1 => a <= a * b
<1>1. a * b \in Nat
  OBVIOUS
<1>2. (a - 1) * b = a * b - b
  OBVIOUS
<1>3. ASSUME b >= 1 PROVE a <= a * b
  <2>1. b - 1 \in Nat
    BY <1>3
  <2>2. a * (b - 1) \in Nat
    BY <2>1
  <2>3. a * b = a * (b - 1) + a
    OBVIOUS
  <2> QED BY <2>2, <2>3
<1> QED BY <1>1, <1>2, <1>3

(* A file has no more lines than bytes, but for an empty one, and under    *)
(* drr the quanta granted so far are less than its bytes.                  *)
LEMMA FewRounds ==
    TypeOK /\ RoundsBounded => QueuedInRange
<1> SUFFICES ASSUME TypeOK, RoundsBounded, pc = "queued"
             PROVE  rounds <= file.size + 1
  BY DEF QueuedInRange
<1>0. rounds \in Nat /\ file.size \in Nat /\ offset \in Nat /\ offset <= file.size
  BY ParamFacts DEF TypeOK
<1>1. CASE sp.policy = "rr"
  <2>1. EndsReached \subseteq 0 .. offset
    BY LineEndsType DEF EndsReached, TypeOK
  <2>2. IsFiniteSet(0 .. offset) /\ Cardinality(0 .. offset) = offset + 1
    <3>1. 0 \in Int /\ offset \in Int /\ ~ (0 > offset) /\ (offset - 0) + 1 = offset + 1
      BY <1>0
    <3> QED BY <3>1, FS_Interval
  <2>3. Cardinality(EndsReached) <= offset + 1
    <3>1. EndsReached \in SUBSET (0 .. offset)
      BY <2>1
    <3>2. Cardinality(EndsReached) <= Cardinality(0 .. offset)
      BY <2>2, <3>1, FS_Subset
    <3> QED BY <2>2, <3>2
  <2>4. LinesSent \in Nat /\ LinesSent <= offset + 1
    BY <2>3, LinesSentType
  <2>5. rounds <= LinesSent
    BY <1>1 DEF RoundsBounded
  <2> QED BY <1>0, <2>4, <2>5
<1>2. CASE sp.policy = "drr" /\ rounds > 0
  <2>1. sp.quantum \in Nat /\ sp.quantum >= 1
    BY <1>2, ParamFacts DEF Bounded
  <2>2. rounds * sp.quantum < file.size
    BY <1>2 DEF RoundsBounded
  <2>3. rounds <= rounds * sp.quantum /\ rounds * sp.quantum \in Nat
    BY <1>0, <2>1, Products
  <2> QED BY <1>0, <2>2, <2>3
<1>3. CASE rounds = 0
  BY <1>0, <1>3
<1>4. sp.policy \in {"rr", "drr"} \/ rounds = 0
  BY DEF RoundsBounded, Bounded
<1> QED BY <1>0, <1>1, <1>2, <1>3, <1>4

(* Every step of a slice is paid for.                                      *)
LEMMA StepIsPaid ==
    ASSUME TypeOK, RoundsInRange, Next
    PROVE  StepsLeft' < StepsLeft
<1> DEFINE most == file.size + 2
           a == most - rounds
<1>0. rounds \in Nat /\ file.size \in Nat /\ offset \in Nat /\ offset <= file.size
  BY ParamFacts DEF TypeOK
<1>1. CASE StartRound
  <2>1. /\ pc = "queued" /\ pc' = "sending" /\ rounds' = rounds + 1
        /\ file' = file /\ offset' = offset
    BY <1>1 DEF StartRound
  <2>2. a \in Nat /\ most \in Nat
    BY <1>0, <2>1 DEF RoundsInRange, QueuedInRange
  <2>3. StepsLeft = a * most
    BY <2>1 DEF StepsLeft
  <2>4. StepsLeft' = (most - (rounds + 1)) * most + 1 + (file.size - offset)
    BY <2>1 DEF StepsLeft
  <2>5. most - (rounds + 1) = a - 1
    BY <1>0
  <2>6. StepsLeft' = (a - 1) * most + 1 + (file.size - offset)
    BY <2>4, <2>5
  <2>7. (a - 1) * most = a * most - most /\ a * most \in Nat
    <3> HIDE DEF a, most
    <3> QED BY <2>2, Products
  <2>8. StepsLeft' = a * most - most + 1 + (file.size - offset)
    BY <2>6, <2>7
  <2> DEFINE p == a * most
  <2>9. p \in Nat /\ StepsLeft = p /\ StepsLeft' = p - (file.size + 2) + 1 + (file.size - offset)
    BY <2>3, <2>7, <2>8
  <2> HIDE DEF p
  <2> QED BY <1>0, <2>9
<1>2. ASSUME pc = "sending", rounds' = rounds, file' = file,
             \/ pc' = "sending" /\ offset' \in Nat /\ offset < offset'
             \/ pc' # "sending"
      PROVE  StepsLeft' < StepsLeft
  <2>2. a \in Nat /\ most \in Nat
    BY <1>0, <1>2 DEF RoundsInRange, QueuedInRange
  <2> DEFINE p == a * most
  <2>3. p \in Nat
    <3> HIDE DEF a, most
    <3> QED BY <2>2, Products
  <2>4. StepsLeft = p + 1 + (file.size - offset)
    BY <1>2 DEF StepsLeft
  <2>5. \/ StepsLeft' \in {0, p}
        \/ StepsLeft' = p + 1 + (file.size - offset') /\ offset' \in Nat /\ offset < offset'
    <3>1. CASE pc' = "sending"
      <4>1. StepsLeft' = p + 1 + (file.size - offset')
        BY <1>2, <3>1 DEF StepsLeft
      <4> HIDE DEF p
      <4> QED BY <1>2, <3>1, <4>1
    <3>2. CASE pc' = "queued"
      <4>1. StepsLeft' = p
        BY <1>2, <3>2 DEF StepsLeft
      <4> HIDE DEF p
      <4> QED BY <4>1
    <3>3. CASE pc' \notin {"queued", "sending"}
      <4>1. pc' # "queued" /\ pc' # "sending"
        BY <3>3
      <4>2. StepsLeft' = 0
        BY <4>1 DEF StepsLeft
      <4> HIDE DEF p
      <4> QED BY <4>2
    <3> QED BY <3>1, <3>2, <3>3
  <2> HIDE DEF p
  <2> QED BY <1>0, <2>3, <2>4, <2>5
<1>3. CASE SendOversized
  BY <1>2, <1>3 DEF SendOversized, AtLine, Return
<1>4. CASE Preempt
  BY <1>2, <1>4 DEF Preempt, AtLine, Return
<1>5. CASE SendLong \/ SendBatched
  <2>1. /\ pc = "sending" /\ pc' = "sending" /\ rounds' = rounds /\ file' = file
        /\ offset < file.size /\ offset' = offset + Line
    BY <1>5 DEF SendLong, SendBatched, AtLine, Charge
  <2>2. Line \in Nat /\ Line > 0
    BY <2>1, LineFacts
  <2>3. offset' \in Nat /\ offset < offset'
    BY <1>0, <2>1, <2>2
  <2> QED BY <1>2, <2>1, <2>3
<1>6. CASE Finish
  BY <1>2, <1>6 DEF Finish, Return
<1>7. CASE Fail
  BY <1>2, <1>7 DEF Fail, request
<1> QED BY <1>1, <1>3, <1>4, <1>5, <1>6, <1>7 DEF Next, SliceStep

(* A GET cannot go on for ever: whatever the file, the policy, the quantum *)
(* and --p, each step of its slices takes at least one from a number that  *)
(* starts at the square of the file's size plus two (slice.cpp:107-141;    *)
(* A16).  With the fairness of FairSpec this is why Terminates holds.      *)
THEOREM EveryStepCounts ==
    Spec => [](StepsLeft \in Nat) /\ [][StepsLeft' < StepsLeft]_vars
<1>1. Init /\ TypeOK => RoundsInRange
  BY ParamFacts DEF Init, RoundsInRange, QueuedInRange
<1>q. TypeOK' /\ RoundsBounded' => QueuedInRange'
  BY FewRounds, PTL
<1>2. ASSUME TypeOK, TypeOK', RoundsBounded', RoundsInRange, [Next]_vars
      PROVE  RoundsInRange'
  <2>0. rounds \in Nat /\ file.size \in Nat
    BY <1>2, ParamFacts DEF TypeOK
  <2>1. QueuedInRange'
    BY <1>q, <1>2
  <2>2. ASSUME pc' = "sending" PROVE rounds' <= file'.size + 2
    <3>1. CASE StartRound
      BY <1>2, <2>0, <3>1 DEF StartRound, RoundsInRange, QueuedInRange
    <3>2. CASE ~StartRound
      <4>1. pc = "sending" /\ rounds' = rounds /\ file' = file
        BY <1>2, <2>2, <3>2 DEF Next, SliceStep, SendOversized, Preempt, SendLong, SendBatched,
                                Finish, Fail, Return, AtLine, vars, request
      <4> QED BY <1>2, <4>1 DEF RoundsInRange, QueuedInRange
    <3> QED BY <3>1, <3>2
  <2> QED BY <2>1, <2>2 DEF RoundsInRange, QueuedInRange
<1>3. ASSUME TypeOK, RoundsInRange PROVE StepsLeft \in Nat
  <2>0. rounds \in Nat /\ file.size \in Nat /\ offset \in Nat /\ offset <= file.size
    BY <1>3, ParamFacts DEF TypeOK
  <2> DEFINE most == file.size + 2
             a == most - rounds
  <2>1. CASE pc \in {"queued", "sending"}
    <3>1. a \in Nat /\ most \in Nat
      BY <1>3, <2>0, <2>1 DEF RoundsInRange, QueuedInRange
    <3> DEFINE p == a * most
    <3>2. p \in Nat
      <4> HIDE DEF a, most
      <4> QED BY <3>1, Products
    <3>3. StepsLeft = p \/ StepsLeft = p + 1 + (file.size - offset)
      BY <2>1 DEF StepsLeft
    <3> HIDE DEF p
    <3> QED BY <2>0, <3>2, <3>3
  <2>2. CASE pc \notin {"queued", "sending"}
    BY <2>2 DEF StepsLeft
  <2> QED BY <2>1, <2>2
<1>4. ASSUME TypeOK, RoundsInRange, [Next]_vars PROVE [StepsLeft' < StepsLeft]_vars
  BY <1>4, StepIsPaid
<1> QED BY <1>1, <1>2, <1>3, <1>4, SliceTypeCorrect, RoundsAreBounded, PTL DEF Spec
-----------------------------------------------------------------------------
(* A line that is added to a batch that is not full leaves room for a line.*)
LEMMA BatchStep == TypeOK /\ BatchBounded /\ [Next]_vars => BatchBounded'
<1> SUFFICES ASSUME TypeOK, BatchBounded, [Next]_vars PROVE BatchBounded'
  OBVIOUS
<1>p. P' = P
  <2>1. sp' = sp
    BY DEF Next, SliceStep, StartRound, SendOversized, Preempt, SendLong, SendBatched,
           Finish, Fail, vars
  <2> QED BY <2>1 DEF P
<1> SUFFICES lines' < P /\ batch' <= lines' * Chunk
  BY <1>p, Zenon DEF BatchBounded
<1>0. /\ lines \in Nat /\ batch \in Nat /\ Chunk \in Nat /\ P \in Nat /\ P >= 1
      /\ lines < P /\ batch <= lines * Chunk
  BY ParamFacts DEF BatchBounded
<1>1. CASE lines' = 0 /\ batch' = 0
  BY <1>0, <1>1
<1>2. CASE lines' = lines /\ batch' = batch
  BY <1>0, <1>2
<1>3. CASE SendBatched /\ ~Full
  <2>1. lines' = lines + 1 /\ batch' = batch + Line /\ Line \in Nat /\ Line <= Chunk
    BY <1>3, LineFacts DEF SendBatched, AtLine
  <2>2. lines + 1 < P
    BY <1>0, <1>3 DEF Full
  <2>3. (lines + 1) * Chunk = lines * Chunk + Chunk /\ lines * Chunk \in Nat
    BY <1>0, OneRoundMore
  <2>4. batch + Line <= lines * Chunk + Chunk
    BY <1>0, <2>1, <2>3
  <2> QED BY <2>1, <2>2, <2>3, <2>4
<1>4. CASE SendOversized \/ Preempt \/ SendLong \/ Finish
  <2>1. lines' = 0 /\ batch' = 0
    BY <1>4 DEF SendOversized, Preempt, SendLong, Finish, Return
  <2> QED BY <1>1, <2>1
<1>5. CASE SendBatched /\ Full
  <2>1. lines' = 0 /\ batch' = 0
    BY <1>5 DEF SendBatched
  <2> QED BY <1>1, <2>1
<1>6. CASE StartRound \/ Fail \/ UNCHANGED vars
  <2>1. lines' = lines /\ batch' = batch
    BY <1>6 DEF StartRound, Fail, vars, locals
  <2> QED BY <1>2, <2>1
<1> QED BY <1>3, <1>4, <1>5, <1>6 DEF Next, SliceStep

(* Whatever the file and --p, a slice never holds more than P - 1 chunks   *)
(* of data back for a later write.                                         *)
THEOREM BatchIsBounded == Spec => []BatchBounded
<1>1. Init => BatchBounded
  <2> SUFFICES ASSUME Init PROVE BatchBounded
    OBVIOUS
  <2>1. TypeOK
    BY SliceTypeInit
  <2> QED BY <2>1, ParamFacts DEF Init, BatchBounded
<1> QED BY <1>1, SliceTypeCorrect, BatchStep, PTL DEF Spec
-----------------------------------------------------------------------------
(* The slices implement the rounds of GetRounds.  In the loop, what was    *)
(* sent and what is left make up the allowance the round started with, and *)
(* a round that has sent something did not start at an oversized line.     *)
Granted ==
    CASE sp.policy = "rr"  -> sp.quantum
      [] sp.policy = "drr" -> IF deficit > Unbounded - sp.quantum
                              THEN Unbounded ELSE deficit + sp.quantum
      [] OTHER          -> Unbounded

RoundInv ==
    pc = "sending" =>
        /\ sent <= offset
        /\ left + (IF Bounded(sp.policy) THEN sent ELSE 0) = Granted
        /\ sp.policy = "rr" /\ sent > 0 => LineLength(file, offset - sent) <= sp.quantum

(* A round begins with its grant, and a line that is charged moves from    *)
(* what is left to what was sent.                                          *)
LEMMA RoundStep ==
    TypeOK /\ WireInv /\ RoundInv /\ [Next]_vars => RoundInv'
<1> SUFFICES ASSUME TypeOK, WireInv, RoundInv, [Next]_vars, pc' = "sending"
             PROVE  /\ sent' <= offset'
                    /\ left' + (IF Bounded(sp'.policy) THEN sent' ELSE 0) = Granted'
                    /\ sp'.policy = "rr" /\ sent' > 0 =>
                           LineLength(file', offset' - sent') <= sp'.quantum
  BY DEF RoundInv
<1>1. CASE StartRound
  <2>1. sent' = 0 /\ offset' = offset /\ UNCHANGED <<sp, deficit>>
    BY <1>1 DEF StartRound, WireInv, LocalsGone
  <2>2. left' = Granted
    BY <1>1 DEF StartRound, Granted
  <2>3. Granted' = Granted
    BY <2>1 DEF Granted
  <2>4. left' \in Nat
    <3>1. TypeOK'
      BY SliceTypeStep
    <3> QED BY <3>1 DEF TypeOK
  <2> QED BY <2>1, <2>2, <2>3, <2>4, ParamFacts
<1>2. CASE SendLong \/ SendBatched
  <2>1. /\ AtLine /\ ~Oversized /\ ~NoRoom /\ Charge /\ pc = "sending" /\ offset < file.size
        /\ UNCHANGED <<sp, file, deficit>>
    BY <1>2 DEF SendLong, SendBatched, AtLine
  <2>2. /\ Line \in Nat /\ offset \in Nat /\ sent \in Nat /\ left \in Nat
        /\ offset' = offset + Line /\ sent' = sent + Line
        /\ left' = IF Bounded(sp.policy) THEN left - Line ELSE left
    BY <2>1, LineFacts, ParamFacts DEF Charge
  <2>3. Granted' = Granted
    BY <2>1 DEF Granted
  <2>4. /\ sent <= offset
        /\ left + (IF Bounded(sp.policy) THEN sent ELSE 0) = Granted
        /\ sp.policy = "rr" /\ sent > 0 => LineLength(file, offset - sent) <= sp.quantum
    BY <2>1 DEF RoundInv
  <2>5. offset' - sent' = offset - sent
    BY <2>2
  <2>6. left' + (IF Bounded(sp'.policy) THEN sent' ELSE 0) = Granted'
    <3>1. CASE Bounded(sp.policy)
      <4>1. left + sent = Granted
        BY <2>4, <3>1
      <4>2. left' + sent' = left + sent
        BY <2>2, <3>1
      <4> QED BY <2>1, <2>3, <3>1, <4>1, <4>2
    <3>2. CASE ~Bounded(sp.policy)
      <4>1. left = Granted
        BY <2>2, <2>4, <3>2
      <4> QED BY <2>1, <2>2, <2>3, <3>2, <4>1
    <3> QED BY <3>1, <3>2
  <2>7. ASSUME sp.policy = "rr" PROVE LineLength(file, offset - sent) <= sp.quantum
    <3>1. CASE sent > 0
      BY <2>4, <2>7, <3>1
    <3>2. CASE sent = 0
      <4>1. ~(Line > sp.quantum)
        BY <2>1, <2>7, <3>2 DEF Oversized
      <4>2. offset - sent = offset
        BY <2>2, <3>2
      <4>3. Line <= sp.quantum
        BY <2>2, <4>1, ParamFacts
      <4> QED BY <4>2, <4>3 DEF Line
    <3> QED BY <2>2, <3>1, <3>2
  <2> QED BY <2>1, <2>2, <2>4, <2>5, <2>6, <2>7
<1>3. CASE SendOversized \/ Preempt \/ Finish \/ Fail
  BY <1>3 DEF SendOversized, Preempt, Finish, Fail, Return
<1>4. CASE UNCHANGED vars
  BY <1>4 DEF vars, request, locals, RoundInv, Granted
<1> QED BY <1>1, <1>2, <1>3, <1>4 DEF Next, SliceStep

(* The operators on lines are the same on both sides of the refinement.    *)
LEMMA SameLines ==
    /\ \A f : abstract!Boundaries(f) = Boundaries(f)
    /\ \A f, o : abstract!LineEnd(f, o) = LineEnd(f, o)
    /\ \A f, o : abstract!LineLength(f, o) = LineLength(f, o)
<1>1. \A f : abstract!LineEnds(f) = LineEnds(f)
  BY DEF abstract!LineEnds, LineEnds
<1>2. \A S : abstract!Min(S) = Min(S)
  BY DEF abstract!Min, Min
<1>3. \A f, o : abstract!LineEnd(f, o) = LineEnd(f, o)
  BY <1>1, <1>2 DEF abstract!LineEnd, LineEnd
<1> QED BY <1>1, <1>3
        DEF abstract!Boundaries, Boundaries, abstract!LineLength, LineLength

(* What the loop was given is the allowance of the abstract round: the     *)
(* guard against overflow computes the minimum (slice.cpp:97-100).         *)
LEMMA GrantedIsAllowance ==
    ASSUME TypeOK
    PROVE  Granted = abstract!Allowance /\ Granted \in Nat
<1>1. CASE sp.policy = "drr"
  <2> DEFINE S == {Unbounded, deficit + sp.quantum}
  <2>1. /\ Granted \in S /\ \A y \in S : Granted <= y
        /\ Granted \in Nat /\ \A y \in S : y \in Nat
    BY <1>1, ParamFacts DEF Granted
  <2> HIDE DEF S
  <2>2. abstract!Min(S) \in S /\ \A y \in S : abstract!Min(S) <= y
    BY <2>1 DEF abstract!Min
  <2>3. abstract!Min(S) = Granted
    <3>1. abstract!Min(S) \in Nat /\ Granted \in Nat
      BY <2>1, <2>2
    <3>2. abstract!Min(S) <= Granted /\ Granted <= abstract!Min(S)
      BY <2>1, <2>2
    <3> QED BY <3>1, <3>2
  <2>4. abstract!Allowance = abstract!Min(S)
    BY <1>1 DEF abstract!Allowance, S
  <2> QED BY <2>1, <2>3, <2>4
<1>2. CASE sp.policy # "drr"
  BY <1>2, ParamFacts DEF Granted, abstract!Allowance
<1> QED BY <1>1, <1>2

(* The last boundary within an allowance.                                  *)
LEMMA ReachIs ==
    ASSUME TypeOK, NEW a \in Nat, NEW m \in Boundaries(file), m \in Nat,
           offset - sent <= m, m <= offset - sent + a,
           \A b \in Boundaries(file) : b <= offset - sent + a => b <= m
    PROVE  abstract!Reach(a) = m
<1> DEFINE S == {b \in Boundaries(file) : offset - sent <= b /\ b <= offset - sent + a}
<1>1. S \subseteq Nat
  <2>0. file \in Files
    BY DEF TypeOK
  <2>1. \A b \in Boundaries(file) : b \in Nat
    BY <2>0, LineEndsType DEF Boundaries
  <2> QED BY <2>1
<1>2. m \in S /\ \A y \in S : m >= y
  BY <1>1
<1>3. abstract!Reach(a) = abstract!Max(S)
  BY SameLines DEF abstract!Reach
<1> HIDE DEF S
<1>4. abstract!Max(S) \in S /\ \A y \in S : abstract!Max(S) >= y
  BY <1>2 DEF abstract!Max
<1>5. abstract!Max(S) \in Nat /\ m \in Nat /\ abstract!Max(S) >= m /\ m >= abstract!Max(S)
  BY <1>1, <1>2, <1>4
<1>6. abstract!Max(S) = m
  BY <1>5
<1> QED BY <1>3, <1>6

(* The abstract variables.                                                 *)
Base == offset - sent
Counted == IF InRound THEN rounds - 1 ELSE rounds
Status == IF pc = "sending" THEN "queued" ELSE pc

(* A round that ends in the loop did not start at an oversized line.       *)
LEMMA NotOversized ==
    ASSUME TypeOK, RoundInv, pc = "sending", offset < file.size => ~Oversized
    PROVE  ~abstract!Oversized
<1> SUFFICES ASSUME sp.policy = "rr", Base < file.size, LineLength(file, Base) > sp.quantum
             PROVE  FALSE
  BY SameLines DEF abstract!Oversized, Base
<1>1. sent \in Nat /\ offset \in Nat /\ sp.quantum \in Nat
  BY ParamFacts
<1>2. CASE sent = 0
  <2>1. Base = offset
    BY <1>1, <1>2 DEF Base
  <2> QED BY <1>2, <2>1 DEF Oversized, Line
<1>3. CASE sent > 0
  <2>1. LineLength(file, Base) <= sp.quantum
    BY <1>3 DEF RoundInv, Base
  <2>2. Base \in Nat /\ file \in Files
    BY <1>1 DEF RoundInv, Base, TypeOK
  <2>3. LineLength(file, Base) \in Nat
    BY <2>2, LineLengthFacts
  <2> QED BY <1>1, <2>1, <2>3
<1> QED BY <1>1, <1>2, <1>3

(* A14 is one abstract round.                                              *)
LEMMA OversizedImplements ==
    ASSUME TypeOK, WireInv, RoundInv, SendOversized
    PROVE  abstract!OversizedRound
<1>1. /\ pc = "sending" /\ offset < file.size /\ sp.policy = "rr" /\ sent = 0
      /\ Line > sp.quantum /\ offset' = offset + Line /\ sent' = 0
      /\ pc' = (IF offset' >= file.size THEN "done" ELSE "queued")
      /\ UNCHANGED <<sp, file, rounds, forfeited, deficit>>
  BY DEF SendOversized, AtLine, Oversized, Return
<1>2. /\ offset \in Nat /\ rounds \in Nat /\ file.size \in Nat
      /\ offset + Line = LineEnd(file, offset) /\ offset + Line <= file.size /\ Line \in Nat
  BY <1>1, ParamFacts, LineFacts
<1>3. offset - sent = offset /\ (offset - sent)' = offset'
  BY <1>1, <1>2
<1>4. abstract!Oversized
  BY <1>1, <1>3, SameLines DEF abstract!Oversized, Line
<1>5. (offset - sent)' = abstract!LineEnd(file, offset - sent)
  BY <1>1, <1>2, <1>3, SameLines
<1>6. Counted = rounds - 1 /\ Counted' = rounds
  BY <1>1 DEF Counted, InRound
<1>7. Counted' = Counted + 1
  BY <1>2, <1>6
<1>8. Status = "queued" /\ Status' = IF (offset - sent)' = file.size THEN "done" ELSE "queued"
  BY <1>1, <1>2, <1>3 DEF Status
<1> QED BY <1>1, <1>4, <1>5, <1>7, <1>8 DEF abstract!OversizedRound, Counted, Status

(* A13 is one abstract round: no further line fits.                        *)
LEMMA PreemptImplements ==
    ASSUME TypeOK, WholeLines, WireInv, RoundInv, Preempt
    PROVE  abstract!PreemptedRound
<1>1. /\ pc = "sending" /\ pc' = "queued" /\ offset < file.size /\ ~Oversized
      /\ Bounded(sp.policy) /\ Line > left /\ sent' = 0
      /\ UNCHANGED <<sp, file, offset, rounds>>
      /\ IF sp.policy = "rr"
         THEN forfeited' = forfeited + left /\ deficit' = deficit
         ELSE deficit' = left /\ forfeited' = forfeited
  BY DEF Preempt, NoRoom, AtLine, Return
<1>2. /\ offset \in Nat /\ sent \in Nat /\ left \in Nat /\ rounds \in Nat /\ file.size \in Nat
      /\ Line \in Nat /\ offset + Line = LineEnd(file, offset)
  BY <1>1, ParamFacts, LineFacts
<1>3. left + sent = Granted
  BY <1>1, <1>2 DEF RoundInv
<1>4. abstract!Reach(Granted) = offset
  <2>1. ASSUME NEW b \in Boundaries(file), b <= offset - sent + Granted PROVE b <= offset
    <3>1. b \in Nat
      BY LineEndsType DEF TypeOK, Boundaries
    <3>2. b > offset => b \in LineEnds(file)
      BY <1>2, <3>1 DEF Boundaries
    <3>3. b > offset => offset + Line <= b
      BY <1>1, <1>2, <3>2, LineEndFacts DEF TypeOK
    <3> QED BY <1>1, <1>2, <1>3, <2>1, <3>1, <3>3
  <2>2. offset - sent <= offset /\ offset <= offset - sent + Granted /\ Granted \in Nat
    BY <1>2, <1>3
  <2> QED BY <1>2, <2>1, <2>2, ReachIs DEF WholeLines
<1>5. Granted = abstract!Allowance
  BY GrantedIsAllowance
<1>6. (offset - sent)' = offset
  BY <1>1, <1>2
<1>7. abstract!Allowance - ((offset - sent)' - (offset - sent)) = left
  BY <1>2, <1>3, <1>5, <1>6
<1>8. Counted' = Counted + 1 /\ Status = "queued" /\ Status' = Status
  BY <1>1, <1>2 DEF Counted, InRound, Status
<1>9. ~abstract!Oversized
  BY <1>1, NotOversized
<1> QED BY <1>1, <1>4, <1>5, <1>6, <1>7, <1>8, <1>9
        DEF abstract!PreemptedRound, Counted, Status

(* The end of the loop is the last abstract round.                         *)
LEMMA FinishImplements ==
    ASSUME TypeOK, WireInv, RoundInv, Finish
    PROVE  abstract!LastRound
<1>1. /\ pc = "sending" /\ pc' = "done" /\ offset >= file.size /\ sent' = 0 /\ deficit' = 0
      /\ UNCHANGED <<sp, file, offset, rounds, forfeited>>
  BY DEF Finish, Return
<1>2. /\ offset \in Nat /\ sent \in Nat /\ left \in Nat /\ rounds \in Nat /\ offset = file.size
      /\ file.size \in Nat /\ file.size <= Unbounded /\ sent <= offset
  BY <1>1, ParamFacts DEF TypeOK, RoundInv
<1>3. Granted \in Nat /\ Granted = abstract!Allowance
  BY GrantedIsAllowance
<1>4. sent <= Granted
  <2>1. CASE Bounded(sp.policy)
    <3>1. left + sent = Granted
      BY <1>1, <2>1 DEF RoundInv
    <3> QED BY <1>2, <1>3, <3>1
  <2>2. CASE ~Bounded(sp.policy)
    <3>1. Granted = Unbounded
      BY <2>2 DEF Granted, Bounded
    <3> QED BY <1>2, <3>1, ParametersAssumption
  <2> QED BY <2>1, <2>2
<1>5. abstract!Reach(Granted) = file.size
  <2>1. file.size \in Boundaries(file) /\ \A b \in Boundaries(file) : b <= file.size
    BY <1>2, LineEndsType DEF TypeOK, Boundaries
  <2>2. offset - sent <= file.size /\ file.size <= offset - sent + Granted
    BY <1>2, <1>3, <1>4
  <2> QED BY <1>2, <1>3, <2>1, <2>2, ReachIs
<1>6. (offset - sent)' = file.size
  BY <1>1, <1>2
<1>7. Counted' = Counted + 1 /\ Status = "queued" /\ Status' = "done"
  BY <1>1, <1>2 DEF Counted, InRound, Status
<1>8. ~abstract!Oversized
  BY <1>1, <1>2, NotOversized
<1> QED BY <1>1, <1>3, <1>5, <1>6, <1>7, <1>8 DEF abstract!LastRound, Counted, Status

(* The other steps of a slice are invisible, but for a failure.            *)
LEMMA SliceImplements ==
    TypeOK /\ WholeLines /\ WireInv /\ RoundInv /\ [Next]_vars
        => [abstract!Next]_(abstract!vars)
<1> SUFFICES ASSUME TypeOK, WholeLines, WireInv, RoundInv, [Next]_vars
             PROVE  [abstract!Next]_(abstract!vars)
  OBVIOUS
<1>0. offset \in Nat /\ sent \in Nat /\ rounds \in Nat
  BY ParamFacts
<1>s. ASSUME UNCHANGED <<sp, file, forfeited, deficit>>, Base' = Base, Counted' = Counted,
             Status' = Status
      PROVE  UNCHANGED abstract!vars
  BY <1>s DEF abstract!vars, Base, Counted, Status
<1>1. CASE StartRound
  <2>1. /\ pc = "queued" /\ pc' = "sending" /\ rounds' = rounds + 1
        /\ UNCHANGED <<sp, file, offset, sent, forfeited, deficit>>
    BY <1>1 DEF StartRound
  <2>2. Base' = Base /\ Counted' = Counted /\ Status' = Status
    BY <1>0, <2>1 DEF Base, Counted, InRound, Status
  <2> QED BY <1>s, <2>1, <2>2
<1>2. CASE SendLong \/ SendBatched
  <2>1. /\ offset < file.size /\ offset' = offset + Line /\ sent' = sent + Line
        /\ UNCHANGED <<sp, file, pc, rounds, forfeited, deficit>>
    BY <1>2 DEF SendLong, SendBatched, AtLine, Charge
  <2>2. Line \in Nat
    BY <2>1, LineFacts
  <2>3. Base' = Base /\ Counted' = Counted /\ Status' = Status
    BY <1>0, <2>1, <2>2 DEF Base, Counted, InRound, Status
  <2> QED BY <1>s, <2>1, <2>3
<1>3. CASE Fail
  <2>1. /\ pc = "sending" /\ pc' = "failed"
        /\ UNCHANGED <<sp, file, offset, sent, rounds, forfeited, deficit>>
    BY <1>3 DEF Fail, request, locals
  <2>2. Base' = Base /\ Counted' = Counted /\ Status = "queued" /\ Status' = "failed"
    BY <2>1 DEF Base, Counted, InRound, Status
  <2>3. abstract!Fail
    BY <2>1, <2>2 DEF abstract!Fail, Base, Counted, Status
  <2> QED BY <2>3 DEF abstract!Next
<1>4. CASE UNCHANGED vars
  <2>1. UNCHANGED <<sp, file, pc, offset, sent, rounds, forfeited, deficit>>
    BY <1>4 DEF vars, request, locals
  <2>2. Base' = Base /\ Counted' = Counted /\ Status' = Status
    BY <2>1 DEF Base, Counted, InRound, Status
  <2> QED BY <1>s, <2>1, <2>2
<1>5. CASE SendOversized
  BY <1>5, OversizedImplements DEF abstract!Next
<1>6. CASE Preempt
  BY <1>6, PreemptImplements DEF abstract!Next
<1>7. CASE Finish
  BY <1>7, FinishImplements DEF abstract!Next
<1> QED BY <1>1, <1>2, <1>3, <1>4, <1>5, <1>6, <1>7 DEF Next, SliceStep

(* --p and the chunk size change neither what a round sends nor the        *)
(* accounting (README.md:127-130): for every file, quantum, p_lines and    *)
(* chunk size each slice is one round of GetRounds, the longest run of     *)
(* whole lines that the allowance covers (slice.cpp:87-142).               *)
THEOREM SlicesAreRounds == Spec => abstract!Spec
<1>1. Init => abstract!Init /\ RoundInv /\ WireInv /\ WholeLines /\ TypeOK
  <2> SUFFICES ASSUME Init
               PROVE  abstract!Init /\ RoundInv /\ WireInv /\ WholeLines
    BY SliceTypeInit
  <2>1. abstract!Init
    BY DEF Init, abstract!Init, InRound
  <2>2. RoundInv /\ WireInv /\ WholeLines
    BY DEF Init, RoundInv, WireInv, WireInOrder, LocalsGone, FirstRound, Started,
           WholeLines, Boundaries
  <2> QED BY <2>1, <2>2
<1> QED BY <1>1, SliceTypeStep, WholeLinesStep, WireStep, RoundStep, SliceImplements, PTL
        DEF Spec, abstract!Spec
=============================================================================
