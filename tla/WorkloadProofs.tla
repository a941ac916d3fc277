--------------------------- MODULE WorkloadProofs ---------------------------
(***************************************************************************)
(* gen_workload.py writes the files it is asked for, for every size, every *)
(* number and length of long lines and every choice of words.              *)
(***************************************************************************)
EXTENDS Workload, FiniteSetTheorems, SequenceTheorems, WellFoundedInduction, TLAPS

(* The order of the natural numbers as a set of pairs.                     *)
Less == {p \in Nat \X Nat : p[1] < p[2]}

(* Every non-empty set of natural numbers has a least element.             *)
LEMMA LeastElement ==
    ASSUME NEW S \in SUBSET Nat, S # {}
    PROVE  \E x \in S : \A y \in S : x <= y
<1>1. IsWellFoundedOn(Less, Nat)
  BY NatLessThanWellFounded DEF OpToRel, Less
<1>2. PICK x \in S : \A y \in S : <<y, x>> \notin Less
  BY <1>1, WFMin
<1>3. \A y \in S : ~ (y < x)
  BY <1>2 DEF Less
<1> QED BY <1>3

(* What it is for a function to hold the sums of the first numbers of s.   *)
Sums(s, n, f) ==
    /\ f[0] = 0
    /\ \A m \in 1 .. n : f[m] = f[m - 1] + s[m]

(* There is such a function: a shortest sequence without one would have a  *)
(* prefix with one, which one more value completes.                        *)
LEMMA SumsExist ==
    ASSUME NEW s \in Seq(Nat), NEW n \in 0 .. Len(s)
    PROVE  \E f \in [0 .. n -> Nat] : Sums(s, n, f)
<1> DEFINE Bad == {m \in 0 .. Len(s) : ~ \E f \in [0 .. m -> Nat] : Sums(s, m, f)}
<1>1. SUFFICES ASSUME Bad # {} PROVE FALSE
  OBVIOUS
<1>2. Bad \in SUBSET Nat
  OBVIOUS
<1>3. PICK m \in Bad : \A k \in Bad : m <= k
  BY <1>1, <1>2, LeastElement
<1>4. m \in 0 .. Len(s) /\ ~ \E f \in [0 .. m -> Nat] : Sums(s, m, f)
  BY <1>3
<1>5. m # 0
  <2>1. [i \in 0 .. 0 |-> 0] \in [0 .. 0 -> Nat] /\ Sums(s, 0, [i \in 0 .. 0 |-> 0])
    BY DEF Sums
  <2> QED BY <1>4, <2>1
<1>6. m - 1 \in 0 .. Len(s) /\ m - 1 \notin Bad
  <2> HIDE DEF Bad
  <2>1. m \in Nat /\ m - 1 \in 0 .. Len(s) /\ ~(m <= m - 1)
    BY <1>4, <1>5
  <2> QED BY <1>3, <2>1
<1>7. PICK g \in [0 .. m - 1 -> Nat] : Sums(s, m - 1, g)
  BY <1>6
<1> DEFINE h == [i \in 0 .. m |-> IF i = m THEN g[m - 1] + s[m] ELSE g[i]]
<1>8. /\ m \in 1 .. Len(s) /\ s[m] \in Nat
      /\ g \in [0 .. m - 1 -> Nat] /\ g[0] = 0
      /\ \A i \in 1 .. m - 1 : g[i] = g[i - 1] + s[i]
  BY <1>4, <1>5, <1>7, ElementOfSeq DEF Sums
<1>9. g[m - 1] \in Nat
  BY <1>8
<1>10. h \in [0 .. m -> Nat]
  BY <1>8, <1>9
<1>11. h[0] = 0
  BY <1>8
<1>12. \A i \in 1 .. m : h[i] = h[i - 1] + s[i]
  <2> SUFFICES ASSUME NEW i \in 1 .. m PROVE h[i] = h[i - 1] + s[i]
    OBVIOUS
  <2>1. m \in Nat /\ i - 1 \in 0 .. m /\ i \in 0 .. m /\ i - 1 # m
    BY <1>8
  <2>2. h[i - 1] = g[i - 1]
    BY <2>1
  <2>3. CASE i = m
    <3>1. h[i] = g[m - 1] + s[m]
      BY <2>1, <2>3
    <3> HIDE DEF h
    <3> QED BY <2>2, <2>3, <3>1
  <2>4. CASE i # m
    <3>1. h[i] = g[i]
      BY <2>1, <2>4
    <3>2. i \in 1 .. m - 1
      BY <2>1, <2>4
    <3> HIDE DEF h
    <3> QED BY <1>8, <2>2, <3>1, <3>2
  <2> QED BY <2>3, <2>4
<1>13. Sums(s, m, h)
  BY <1>10, <1>11, <1>12 DEF Sums
<1> QED BY <1>4, <1>10, <1>13

(* And it is the only one: where two of them first differed, they would    *)
(* have agreed one before.                                                 *)
LEMMA SumsUnique ==
    ASSUME NEW s, NEW n \in Nat, NEW f, NEW g, Sums(s, n, f), Sums(s, n, g)
    PROVE  \A m \in 0 .. n : f[m] = g[m]
<1> DEFINE Bad == {m \in 0 .. n : f[m] # g[m]}
<1>1. SUFFICES ASSUME Bad # {} PROVE FALSE
  OBVIOUS
<1>2. Bad \in SUBSET Nat
  OBVIOUS
<1>3. PICK m \in Bad : \A k \in Bad : m <= k
  BY <1>1, <1>2, LeastElement
<1>4. m \in 0 .. n /\ f[m] # g[m]
  BY <1>3
<1>5. m # 0
  BY <1>4 DEF Sums
<1>6. m \in 1 .. n /\ m - 1 \in 0 .. n /\ m - 1 \notin Bad
  BY <1>3, <1>4, <1>5
<1>7. f[m - 1] = g[m - 1]
  BY <1>6
<1>8. f[m] = f[m - 1] + s[m] /\ g[m] = g[m - 1] + s[m]
  BY <1>6 DEF Sums
<1> QED BY <1>4, <1>7, <1>8

(* PartialSums is that function.                                           *)
LEMMA PartialSumsFacts ==
    ASSUME NEW s \in Seq(Nat)
    PROVE  PartialSums(s) \in [0 .. Len(s) -> Nat] /\ Sums(s, Len(s), PartialSums(s))
<1> DEFINE Def(f) == f = [n \in 0 .. Len(s) |-> IF n = 0 THEN 0 ELSE f[n - 1] + s[n]]
<1>0. Len(s) \in Nat
  OBVIOUS
<1>1. PICK f \in [0 .. Len(s) -> Nat] : Sums(s, Len(s), f)
  BY <1>0, SumsExist
<1>2. Def(f)
  <2>1. /\ f[0] = 0
        /\ \A m \in 1 .. Len(s) : f[m] = f[m - 1] + s[m]
    BY <1>1 DEF Sums
  <2> QED BY <1>0, <2>1
<1>3. PartialSums(s) = CHOOSE g : Def(g)
  BY DEF PartialSums
<1>4. Def(PartialSums(s))
  BY <1>2, <1>3
<1> DEFINE t == PartialSums(s)
<1> HIDE DEF t
<1>5. t = [n \in 0 .. Len(s) |-> IF n = 0 THEN 0 ELSE t[n - 1] + s[n]]
  BY <1>4 DEF t
<1>6. DOMAIN t = 0 .. Len(s) /\ t[0] = 0 /\ \A m \in 1 .. Len(s) : t[m] = t[m - 1] + s[m]
  BY <1>0, <1>5
<1>7. Sums(s, Len(s), t)
  BY <1>6 DEF Sums
<1>8. \A m \in 0 .. Len(s) : t[m] = f[m]
  BY <1>0, <1>1, <1>7, SumsUnique
<1>9. t \in [0 .. Len(s) -> Nat]
  BY <1>5, <1>8
<1> QED BY <1>7, <1>9 DEF t

(* One number more leaves the sums as they are and adds one.               *)
LEMMA PartialSumsAppend ==
    ASSUME NEW s \in Seq(Nat), NEW x \in Nat
    PROVE  LET t == Append(s, x) IN
           /\ \A m \in 0 .. Len(s) : PartialSums(t)[m] = PartialSums(s)[m]
           /\ PartialSums(t)[Len(s) + 1] = PartialSums(s)[Len(s)] + x
<1> DEFINE t == Append(s, x)
<1>1. /\ t \in Seq(Nat) /\ Len(t) = Len(s) + 1 /\ Len(s) \in Nat
      /\ \A i \in 1 .. Len(s) : t[i] = s[i]
      /\ t[Len(s) + 1] = x
  OBVIOUS
<1> HIDE DEF t
<1>2. Sums(t, Len(t), PartialSums(t)) /\ Sums(s, Len(s), PartialSums(s))
  BY <1>1, PartialSumsFacts
<1>3. Sums(s, Len(s), PartialSums(t))
  BY <1>1, <1>2 DEF Sums
<1>4. \A m \in 0 .. Len(s) : PartialSums(t)[m] = PartialSums(s)[m]
  BY <1>1, <1>2, <1>3, SumsUnique
<1>5. PartialSums(t)[Len(s) + 1] = PartialSums(t)[Len(s)] + x
  BY <1>1, <1>2 DEF Sums
<1>6. PartialSums(t)[Len(s)] = PartialSums(s)[Len(s)]
  BY <1>1, <1>4
<1> QED BY <1>4, <1>5, <1>6 DEF t
-----------------------------------------------------------------------------
(* The numbers of the file being written.                                  *)
Target == file.target_bytes
Longs == file.num_long_lines
LongLen == file.long_line_len
Gap == GapBytes(file)
Done == Longs - long_lines_left         \* the long lines written so far
MaxShort == Max(ShortLens)

TypeInv ==
    /\ file \in Files
    /\ pc \in {"loop", "words", "closed"}
    /\ is_long \in BOOLEAN
    /\ target_len \in Nat /\ length \in Nat
    /\ written \in Nat /\ short_written \in Nat
    /\ long_lines_left \in 0 .. Longs
    /\ next_long_at \in Nat
    /\ lines \in Seq([long : BOOLEAN, len : Nat])

(* The counters: the bytes are those of the two kinds of lines, and while  *)
(* long lines are left the ordinary ones are at most one ordinary line     *)
(* ahead of the place of the next long one.                                *)
CountInv ==
    /\ next_long_at = (Done + 1) * Gap
    /\ written = short_written + Done * LongLen
    /\ long_lines_left > 0 => short_written < next_long_at + MaxShort

(* The line being put together was begun for a reason, which still holds.  *)
WordsInv ==
    pc = "words" =>
        /\ written < Target
        /\ IF is_long THEN LongIsDue /\ target_len = LongLen
                      ELSE ~LongIsDue /\ target_len \in ShortLens

(* The counters are those of the lines.                                    *)
LinesInv ==
    /\ written = BytesUpTo[Len(lines)]
    /\ short_written = ShortUpTo[Len(lines)]
    /\ Cardinality(LongLines) = Done
    /\ \A i \in DOMAIN lines :
          IF lines[i].long THEN lines[i].len = LongLen ELSE lines[i].len \in ShortLens

(* The loop stops with the first line that reaches the target.             *)
SizeInv ==
    /\ written < Target + LongestLine
    /\ pc = "closed" => written >= Target

IInv == TypeInv /\ CountInv /\ WordsInv /\ LinesInv /\ SizeInv /\ LongLinesSpread

(* The longest ordinary line, and the longest line of the file.            *)
LEMMA MaxFacts ==
    ASSUME NEW S \in SUBSET Nat, NEW m \in S, \A n \in S : n <= m
    PROVE  Max(S) \in S /\ \A n \in S : n <= Max(S)
  BY DEF Max

(* What the assumptions say of the file being written.                     *)
LEMMA FileFacts ==
    ASSUME TypeInv
    PROVE  /\ Target \in Nat /\ Longs \in Nat /\ LongLen \in Nat
           /\ Longs * LongLen <= Target
           /\ long_lines_left \in Nat /\ long_lines_left <= Longs
           /\ Done \in Nat /\ Done + long_lines_left = Longs
           /\ MaxShort \in Nat /\ \A n \in ShortLens : n \in Nat /\ n > 0 /\ n <= MaxShort
           /\ Longs > 0 => MaxShort < LongLen
           /\ LongestLine \in Nat /\ MaxShort <= LongestLine /\ LongLen <= LongestLine
           /\ LongestLine > 0
<1>1. /\ Target \in Nat /\ Longs \in Nat /\ LongLen \in Nat
      /\ Longs * LongLen <= Target
      /\ Longs > 0 => \A n \in ShortLens : n < LongLen
  BY WorkloadAssumption DEF TypeInv, Target, Longs, LongLen
<1>2. long_lines_left \in Nat /\ long_lines_left <= Longs
  BY <1>1 DEF TypeInv
<1>3. Done \in Nat /\ Done + long_lines_left = Longs
  BY <1>1, <1>2 DEF Done
<1>4. ShortLens \in SUBSET Nat /\ \A n \in ShortLens : n > 0
  BY WorkloadAssumption
<1>5. PICK longest \in ShortLens : \A n \in ShortLens : n <= longest
  BY WorkloadAssumption
<1>6. MaxShort \in ShortLens /\ \A n \in ShortLens : n <= MaxShort
  BY <1>4, <1>5, MaxFacts DEF MaxShort
<1>7. LongestLine \in Nat /\ MaxShort <= LongestLine /\ LongLen <= LongestLine
  <2> DEFINE S == ShortLens \cup {LongLen}
             m == IF LongLen < MaxShort THEN MaxShort ELSE LongLen
  <2>1. S \in SUBSET Nat /\ m \in S /\ MaxShort \in S /\ LongLen \in S
    BY <1>1, <1>4, <1>6
  <2>2. \A n \in S : n <= m
    BY <1>1, <1>4, <1>6
  <2>3. LongestLine = Max(S)
    BY DEF LongestLine, LongLen
  <2> HIDE DEF S, m
  <2>4. Max(S) \in S /\ \A n \in S : n <= Max(S)
    BY <2>1, <2>2, MaxFacts
  <2> QED BY <2>1, <2>3, <2>4
<1>8. MaxShort \in Nat /\ MaxShort > 0
  BY <1>4, <1>6
<1>9. Longs > 0 => MaxShort < LongLen
  BY <1>1, <1>6
<1>10. LongestLine > 0
  BY <1>7, <1>8
<1> QED BY <1>1, <1>2, <1>3, <1>4, <1>6, <1>7, <1>8, <1>9, <1>10

(* The division of gap_bytes.                                              *)
LEMMA DivFacts ==
    ASSUME NEW x \in Nat, NEW n \in Nat, n > 0
    PROVE  (x \div n) \in Nat /\ n * (x \div n) <= x
  OBVIOUS

(* The gaps and the long lines fit into the file.                          *)
LEMMA GapFacts ==
    ASSUME TypeInv
    PROVE  Gap \in Nat /\ (Longs + 1) * Gap <= Target - Longs * LongLen
<1> DEFINE x == Target - Longs * LongLen
           n == Longs + 1
<1>1. Longs * LongLen \in Nat
  BY FileFacts
<1>2. x \in Nat /\ n \in Nat /\ n > 0
  <2>1. Target \in Nat /\ Longs \in Nat /\ Longs * LongLen <= Target
    BY FileFacts
  <2> HIDE DEF Target, Longs, LongLen
  <2> QED BY <1>1, <2>1
<1>3. Gap = x \div n
  BY DEF Gap, GapBytes, Target, Longs, LongLen
<1> HIDE DEF x, n
<1>4. Gap \in Nat /\ n * Gap <= x
  BY <1>2, <1>3, DivFacts
<1> QED BY <1>4 DEF x, n

(* Products grow with their factors.                                       *)
LEMMA Products ==
    \A a, b, c \in Nat : /\ a * c \in Nat
                         /\ (a + b) * c = a * c + b * c
                         /\ (a + 1) * c = a * c + c
                         /\ b > 0 => b * c >= c
  OBVIOUS

(* The loop looks at the bytes only, yet it does not end with long lines   *)
(* left: the ordinary lines would have to be a long line ahead of where    *)
(* the next long one is due, and they are at most an ordinary one ahead.   *)
LEMMA AllLongWritten ==
    ASSUME TypeInv, CountInv, written >= Target
    PROVE  long_lines_left = 0
<1> SUFFICES ASSUME long_lines_left > 0
             PROVE  FALSE
  BY FileFacts
<1> DEFINE d == Done
           l == long_lines_left
<1>1. /\ d \in Nat /\ l \in Nat /\ l > 0 /\ d + l = Longs /\ LongLen \in Nat /\ Gap \in Nat
      /\ Target \in Nat /\ written \in Nat /\ short_written \in Nat /\ MaxShort \in Nat
      /\ MaxShort < LongLen /\ next_long_at \in Nat
  BY FileFacts, GapFacts DEF TypeInv
<1>2. /\ next_long_at = (d + 1) * Gap
      /\ written = short_written + d * LongLen
      /\ short_written < next_long_at + MaxShort
  BY DEF CountInv
<1>3. (Longs + 1) * Gap <= Target - Longs * LongLen
  BY GapFacts
<1> HIDE DEF d, l
<1>4. Longs * LongLen = d * LongLen + l * LongLen /\ l * LongLen >= LongLen
  BY <1>1, Products
<1>5. (Longs + 1) * Gap = (d + 1) * Gap + l * Gap
  <2>1. Longs + 1 = (d + 1) + l /\ d + 1 \in Nat
    BY <1>1
  <2> QED BY <1>1, <2>1, Products
<1>6. /\ d * LongLen \in Nat /\ l * LongLen \in Nat /\ l * Gap \in Nat /\ (d + 1) * Gap \in Nat
  <2>1. d + 1 \in Nat
    BY <1>1
  <2> QED BY <1>1, <2>1, Products
<1> QED BY <1>1, <1>2, <1>3, <1>4, <1>5, <1>6

(* A line that is written has the length that was asked for, however the   *)
(* words of it add up: it is filled with blanks or cut.                    *)
LEMMA LengthAsAsked ==
    ASSUME TypeInv
    PROVE  FitToLength(target_len - 1) + 1 = target_len
<1>1. Joined \in Int /\ target_len \in Int
  BY DEF TypeInv, Joined
<1> QED BY <1>1 DEF FitToLength

(* A sequence by its elements, and with one more.                          *)
LEMMA SeqFacts ==
    ASSUME NEW S, NEW s \in Seq(S), NEW e \in S
    PROVE  /\ Len(s) \in Nat /\ DOMAIN s = 1 .. Len(s)
           /\ \A j \in 1 .. Len(s) : s[j] \in S
           /\ Append(s, e) \in Seq(S)
           /\ Len(Append(s, e)) = Len(s) + 1
           /\ DOMAIN Append(s, e) = 1 .. Len(s) + 1
           /\ \A j \in 1 .. Len(s) : Append(s, e)[j] = s[j]
           /\ Append(s, e)[Len(s) + 1] = e
  OBVIOUS

(* A longer sequence as a function.                                        *)
LEMMA AppendIs ==
    ASSUME NEW S, NEW s \in Seq(S), NEW e \in S
    PROVE  Append(s, e) = [i \in 1 .. Len(s) + 1 |-> IF i = Len(s) + 1 THEN e ELSE s[i]]
<1> DEFINE t == Append(s, e)
<1>1. t \in Seq(S) /\ Len(t) = Len(s) + 1
  BY SeqFacts
<1> HIDE DEF t
<1>2. t \in [1 .. Len(s) + 1 -> S]
  BY <1>1, LenProperties
<1>3. t = [i \in 1 .. Len(s) + 1 |-> t[i]]
  BY <1>2
<1>4. \A i \in 1 .. Len(s) + 1 : t[i] = IF i = Len(s) + 1 THEN e ELSE s[i]
  BY SeqFacts DEF t
<1>5. t = [i \in 1 .. Len(s) + 1 |-> IF i = Len(s) + 1 THEN e ELSE s[i]]
  BY <1>3, <1>4
<1> QED BY <1>5 DEF t

(* A function with the values of a sequence of numbers and one more is     *)
(* that sequence with the number appended.                                 *)
LEMMA IsAppend ==
    ASSUME NEW s \in Seq(Nat), NEW e \in Nat, NEW f \in [1 .. Len(s) + 1 -> Nat],
           \A i \in 1 .. Len(s) : f[i] = s[i],
           f[Len(s) + 1] = e
    PROVE  f = Append(s, e)
<1>1. f = [i \in 1 .. Len(s) + 1 |-> f[i]]
  OBVIOUS
<1>2. Len(s) \in Nat
  BY SeqFacts
<1>3. \A i \in 1 .. Len(s) + 1 : f[i] = IF i = Len(s) + 1 THEN e ELSE s[i]
  BY <1>2
<1>4. f = [i \in 1 .. Len(s) + 1 |-> IF i = Len(s) + 1 THEN e ELSE s[i]]
  BY <1>1, <1>3
<1> QED BY <1>4, AppendIs

(* A function on 1 .. n is a sequence of length n.                         *)
LEMMA IsSequence ==
    ASSUME NEW n \in Nat, NEW S, NEW f \in [1 .. n -> S]
    PROVE  f \in Seq(S) /\ Len(f) = n
<1>1. f \in Seq(S)
  BY SeqDef
<1> QED BY <1>1, LenProperties

(* What one more line does to the sums and to the long lines.              *)
LEMMA OneLineMore ==
    ASSUME TypeInv, NEW x \in [long : BOOLEAN, len : Nat], lines' = Append(lines, x)
    PROVE  /\ lines' \in Seq([long : BOOLEAN, len : Nat])
           /\ Len(lines) \in Nat /\ Len(lines') = Len(lines) + 1
           /\ DOMAIN lines = 1 .. Len(lines) /\ DOMAIN lines' = 1 .. Len(lines) + 1
           /\ \A i \in DOMAIN lines : lines'[i] = lines[i]
           /\ lines'[Len(lines) + 1] = x
           /\ \A m \in 0 .. Len(lines) : BytesUpTo'[m] = BytesUpTo[m] /\ ShortUpTo'[m] = ShortUpTo[m]
           /\ BytesUpTo'[Len(lines) + 1] = BytesUpTo[Len(lines)] + x.len
           /\ ShortUpTo'[Len(lines) + 1] = ShortUpTo[Len(lines)] + (IF x.long THEN 0 ELSE x.len)
           /\ LongLines' = IF x.long THEN LongLines \cup {Len(lines) + 1} ELSE LongLines
<1> DEFINE R == [long : BOOLEAN, len : Nat]
           b == [i \in DOMAIN lines |-> lines[i].len]
           h == [i \in DOMAIN lines |-> IF lines[i].long THEN 0 ELSE lines[i].len]
           y == IF x.long THEN 0 ELSE x.len
<1>1. /\ lines \in Seq(R) /\ x \in R
      /\ x.long \in BOOLEAN /\ x.len \in Nat /\ y \in Nat
  BY DEF TypeInv
<1>2. /\ Len(lines) \in Nat /\ DOMAIN lines = 1 .. Len(lines)
      /\ \A i \in DOMAIN lines : lines[i] \in R
  <2> HIDE DEF R
  <2> QED BY <1>1, SeqFacts
<1>3. /\ lines' \in Seq(R) /\ Len(lines') = Len(lines) + 1
      /\ DOMAIN lines' = 1 .. Len(lines) + 1
      /\ \A i \in DOMAIN lines : lines'[i] = lines[i]
      /\ lines'[Len(lines) + 1] = x
  <2> HIDE DEF R
  <2> QED BY <1>1, SeqFacts
<1>4. b \in Seq(Nat) /\ Len(b) = Len(lines) /\ h \in Seq(Nat) /\ Len(h) = Len(lines)
  <2>1. \A i \in 1 .. Len(lines) : lines[i].len \in Nat
    BY <1>2
  <2>2. b \in [1 .. Len(lines) -> Nat] /\ h \in [1 .. Len(lines) -> Nat]
    BY <1>2, <2>1
  <2> HIDE DEF b, h
  <2> QED BY <1>2, <2>2, IsSequence
<1>5. b' = Append(b, x.len)
  <2>1. b' \in [1 .. Len(lines) + 1 -> Nat]
    BY <1>1, <1>2, <1>3
  <2>2. /\ \A i \in 1 .. Len(lines) : b'[i] = b[i]
        /\ b'[Len(lines) + 1] = x.len
    BY <1>1, <1>2, <1>3
  <2> HIDE DEF b, h, y, R
  <2>3. /\ b \in Seq(Nat) /\ x.len \in Nat
        /\ b' \in [1 .. Len(b) + 1 -> Nat]
    BY <1>1, <1>4, <2>1
  <2>4. /\ \A i \in 1 .. Len(b) : b'[i] = b[i]
        /\ b'[Len(b) + 1] = x.len
    BY <1>4, <2>2
  <2> QED BY <2>3, <2>4, IsAppend
<1>6. h' = Append(h, y)
  <2>1. h' \in [1 .. Len(lines) + 1 -> Nat]
    BY <1>1, <1>2, <1>3
  <2>2. /\ \A i \in 1 .. Len(lines) : h'[i] = h[i]
        /\ h'[Len(lines) + 1] = y
    BY <1>1, <1>2, <1>3
  <2> HIDE DEF b, h, y, R
  <2>3. /\ h \in Seq(Nat) /\ y \in Nat
        /\ h' \in [1 .. Len(h) + 1 -> Nat]
    BY <1>1, <1>4, <2>1
  <2>4. /\ \A i \in 1 .. Len(h) : h'[i] = h[i]
        /\ h'[Len(h) + 1] = y
    BY <1>4, <2>2
  <2> QED BY <2>3, <2>4, IsAppend
<1>7. /\ BytesUpTo = PartialSums(b) /\ BytesUpTo' = PartialSums(b')
      /\ ShortUpTo = PartialSums(h) /\ ShortUpTo' = PartialSums(h')
  BY DEF BytesUpTo, ShortUpTo
<1>8. LongLines' = IF x.long THEN LongLines \cup {Len(lines) + 1} ELSE LongLines
  BY <1>2, <1>3 DEF LongLines
<1>9. /\ \A m \in 0 .. Len(lines) : PartialSums(b')[m] = PartialSums(b)[m]
      /\ PartialSums(b')[Len(lines) + 1] = PartialSums(b)[Len(lines)] + x.len
  <2> HIDE DEF b, h, y
  <2> QED BY <1>1, <1>4, <1>5, PartialSumsAppend
<1>10. /\ \A m \in 0 .. Len(lines) : PartialSums(h')[m] = PartialSums(h)[m]
       /\ PartialSums(h')[Len(lines) + 1] = PartialSums(h)[Len(lines)] + y
  <2> HIDE DEF b, h, y
  <2> QED BY <1>1, <1>4, <1>6, PartialSumsAppend
<1> HIDE DEF b, h
<1> QED BY <1>2, <1>3, <1>7, <1>8, <1>9, <1>10
-----------------------------------------------------------------------------
(* Putting a line together touches nothing that has been written.          *)
LEMMA WordsKeep ==
    ASSUME IInv, TypeInv', WordsInv',
           UNCHANGED <<file, written, short_written, long_lines_left, next_long_at, lines>>,
           pc' = "closed" => written >= Target
    PROVE  IInv'
<1>1. /\ Target' = Target /\ Longs' = Longs /\ LongLen' = LongLen /\ Gap' = Gap
      /\ Done' = Done /\ MaxShort' = MaxShort /\ LongestLine' = LongestLine
  BY DEF Target, Longs, LongLen, Gap, Done, MaxShort, LongestLine
<1>2. LongLines' = LongLines /\ BytesUpTo' = BytesUpTo /\ ShortUpTo' = ShortUpTo
  BY DEF LongLines, BytesUpTo, ShortUpTo
<1>3. CountInv'
  BY <1>1 DEF IInv, CountInv
<1>4. LinesInv'
  BY <1>1, <1>2 DEF IInv, LinesInv
<1>5. SizeInv'
  BY <1>1 DEF IInv, SizeInv
<1>6. LongLinesSpread'
  BY <1>2 DEF IInv, LongLinesSpread
<1> QED BY <1>3, <1>4, <1>5, <1>6 DEF IInv

(* The head of the loop: a long line is begun if one is due.               *)
LEMMA StartKeeps ==
    ASSUME IInv, StartLong \/ StartShort
    PROVE  IInv'
<1>1. PICK long \in BOOLEAN, len \in Nat :
         /\ StartLine(long, len)
         /\ IF long THEN LongIsDue /\ len = LongLen ELSE ~LongIsDue /\ len \in ShortLens
  <2>1. CASE StartLong
    <3>1. LongLen \in Nat /\ StartLine(TRUE, LongLen) /\ LongIsDue
      BY <2>1, FileFacts DEF StartLong, IInv, LongLen
    <3> QED BY <3>1
  <2>2. CASE StartShort
    <3>1. PICK len \in ShortLens : StartLine(FALSE, len)
      BY <2>2 DEF StartShort
    <3>2. len \in Nat /\ ~LongIsDue
      BY <2>2, FileFacts DEF StartShort, IInv
    <3> QED BY <3>1, <3>2
  <2> QED BY <2>1, <2>2
<1>2. /\ written < Target /\ is_long' = long /\ target_len' = len /\ length' = 0 /\ pc' = "words"
      /\ UNCHANGED <<file, written, short_written, long_lines_left, next_long_at, lines>>
  BY <1>1 DEF StartLine, Target
<1>3. TypeInv'
  BY <1>2 DEF IInv, TypeInv, Longs
<1>4. WordsInv'
  <2>1. LongIsDue' = LongIsDue /\ Target' = Target /\ LongLen' = LongLen
    BY <1>2 DEF LongIsDue, Target, LongLen
  <2> QED BY <1>1, <1>2, <2>1 DEF WordsInv
<1> QED BY <1>2, <1>3, <1>4, WordsKeep

(* The word loop.                                                          *)
LEMMA AddWordKeeps ==
    ASSUME IInv, AddWord
    PROVE  IInv'
<1>1. PICK w \in WordLens : length' = length + w + 1
  BY DEF AddWord
<1>2. /\ pc = "words"
      /\ UNCHANGED <<file, pc, is_long, target_len, written, short_written, long_lines_left,
                     next_long_at, lines>>
  BY DEF AddWord
<1>3. length' \in Nat
  BY <1>1, WorkloadAssumption DEF IInv, TypeInv
<1>4. TypeInv'
  BY <1>2, <1>3 DEF IInv, TypeInv, Longs
<1>5. WordsInv'
  BY <1>2 DEF IInv, WordsInv, LongIsDue, Target, LongLen
<1> QED BY <1>2, <1>4, <1>5, WordsKeep

(* The file is closed when the target is reached.                          *)
LEMMA CloseKeeps ==
    ASSUME IInv, Close
    PROVE  IInv'
<1>1. /\ written >= Target /\ pc' = "closed"
      /\ UNCHANGED <<file, is_long, target_len, length, written, short_written,
                     long_lines_left, next_long_at, lines>>
  BY DEF Close, Target
<1>2. TypeInv' /\ WordsInv'
  BY <1>1 DEF IInv, TypeInv, WordsInv, Longs
<1> QED BY <1>1, <1>2, WordsKeep

(* The size of the set of long lines after one more.                       *)
LEMMA LongLinesFacts ==
    ASSUME TypeInv
    PROVE  /\ IsFiniteSet(LongLines) /\ Len(lines) + 1 \notin LongLines
           /\ LongLines \subseteq 1 .. Len(lines) /\ Len(lines) \in Nat
<1>1. Len(lines) \in Nat /\ DOMAIN lines = 1 .. Len(lines)
  BY DEF TypeInv
<1>2. LongLines \subseteq 1 .. Len(lines)
  BY <1>1 DEF LongLines
<1>3. IsFiniteSet(1 .. Len(lines))
  BY <1>1, FS_Interval
<1>4. IsFiniteSet(LongLines)
  BY <1>2, <1>3, FS_Subset
<1>5. Len(lines) + 1 \notin LongLines
  BY <1>1, <1>2
<1> QED BY <1>1, <1>2, <1>4, <1>5

(* The long lines that were there are as far apart as they were.           *)
LEMMA SpreadKept ==
    ASSUME IInv, NEW x \in [long : BOOLEAN, len : Nat], lines' = Append(lines, x), file' = file,
           x.long => Cardinality(LongLines') = Done + 1 /\ LongIsDue
    PROVE  LongLinesSpread'
<1> DEFINE n == Len(lines)
<1>0. TypeInv
  BY DEF IInv
<1>1. /\ n \in Nat
      /\ \A m \in 0 .. n : ShortUpTo'[m] = ShortUpTo[m]
      /\ x.long => ShortUpTo'[n + 1] = ShortUpTo[n] + 0
      /\ LongLines' = IF x.long THEN LongLines \cup {n + 1} ELSE LongLines
  <2>1. /\ Len(lines) \in Nat
        /\ \A m \in 0 .. Len(lines) : ShortUpTo'[m] = ShortUpTo[m]
        /\ ShortUpTo'[Len(lines) + 1] = ShortUpTo[Len(lines)] + (IF x.long THEN 0 ELSE x.len)
        /\ LongLines' = IF x.long THEN LongLines \cup {Len(lines) + 1} ELSE LongLines
    BY <1>0, OneLineMore
  <2> QED BY <2>1
<1>2. LongLines \subseteq 1 .. n
  BY <1>0, LongLinesFacts
<1>3. GapBytes(file)' = GapBytes(file)
  BY DEF GapBytes
<1> HIDE DEF n
<1>4. ASSUME NEW i \in LongLines
      PROVE  LET k == Cardinality({j \in LongLines' : j <= i})
             IN  /\ ShortUpTo'[i] >= k * GapBytes(file)
                 /\ ShortUpTo'[i] < k * GapBytes(file) + Max(ShortLens)
  <2>1. i \in 1 .. n /\ ~(n + 1 <= i)
    BY <1>1, <1>2
  <2>2. {j \in LongLines' : j <= i} = {j \in LongLines : j <= i}
    BY <1>1, <2>1
  <2>3. ShortUpTo'[i] = ShortUpTo[i]
    BY <1>1, <2>1
  <2> QED BY <2>2, <2>3 DEF IInv, LongLinesSpread
<1>5. ASSUME NEW i \in LongLines', i \notin LongLines
      PROVE  LET k == Cardinality({j \in LongLines' : j <= i})
             IN  /\ ShortUpTo'[i] >= k * GapBytes(file)
                 /\ ShortUpTo'[i] < k * GapBytes(file) + Max(ShortLens)
  <2>1. x.long /\ i = n + 1
    BY <1>1, <1>5
  <2>2. {j \in LongLines' : j <= i} = LongLines'
    <3>1. \A j \in LongLines : j <= n + 1
      BY <1>1, <1>2
    <3>2. \A j \in LongLines' : j <= i
      BY <1>1, <2>1, <3>1
    <3> QED BY <3>2
  <2>3. Cardinality({j \in LongLines' : j <= i}) = Done + 1
    BY <2>1, <2>2
  <2>4. short_written \in Nat /\ short_written = ShortUpTo[n]
    BY DEF IInv, TypeInv, LinesInv, n
  <2>5. ShortUpTo'[i] = short_written
    BY <1>1, <2>1, <2>4
  <2>6. /\ short_written >= next_long_at /\ next_long_at = (Done + 1) * GapBytes(file)
        /\ short_written < next_long_at + Max(ShortLens)
    BY <2>1 DEF IInv, CountInv, LongIsDue, Gap, MaxShort
  <2> QED BY <2>3, <2>5, <2>6
<1> QED BY <1>3, <1>4, <1>5 DEF LongLinesSpread

(* One line more, of either kind.                                          *)
LEMMA WriteKeeps ==
    ASSUME IInv, WriteShort \/ WriteLong
    PROVE  IInv'
<1> DEFINE x == [long |-> is_long, len |-> target_len]
           n == Len(lines)
<1>0. /\ TypeInv /\ CountInv /\ WordsInv /\ LinesInv /\ SizeInv /\ LongLinesSpread
  BY DEF IInv
<1>1. /\ pc = "words" /\ pc' = "loop" /\ lines' = Append(lines, x)
      /\ written' = written + target_len
      /\ UNCHANGED <<file, is_long, target_len, length>>
      /\ IF is_long
         THEN /\ long_lines_left' = long_lines_left - 1
              /\ next_long_at' = next_long_at + Gap
              /\ short_written' = short_written
         ELSE /\ short_written' = short_written + target_len
              /\ UNCHANGED <<long_lines_left, next_long_at>>
  BY <1>0, LengthAsAsked DEF WriteShort, WriteLong, LineWith, Gap
<1>2. /\ x \in [long : BOOLEAN, len : Nat] /\ x.long = is_long /\ x.len = target_len
      /\ target_len \in Nat /\ written \in Nat /\ short_written \in Nat /\ next_long_at \in Nat
      /\ is_long \in BOOLEAN
  BY <1>0 DEF TypeInv
<1>3. /\ written < Target
      /\ is_long => LongIsDue /\ target_len = LongLen
      /\ ~is_long => ~LongIsDue /\ target_len \in ShortLens
  BY <1>0, <1>1, <1>2 DEF WordsInv
<1>4. /\ Target' = Target /\ Longs' = Longs /\ LongLen' = LongLen /\ Gap' = Gap
      /\ MaxShort' = MaxShort /\ LongestLine' = LongestLine
  BY <1>1 DEF Target, Longs, LongLen, Gap, MaxShort, LongestLine
<1>5. /\ lines' \in Seq([long : BOOLEAN, len : Nat])
      /\ n \in Nat /\ Len(lines') = n + 1
      /\ DOMAIN lines = 1 .. n /\ DOMAIN lines' = 1 .. n + 1
      /\ \A i \in DOMAIN lines : lines'[i] = lines[i]
      /\ lines'[n + 1] = x
      /\ BytesUpTo'[n + 1] = BytesUpTo[n] + x.len
      /\ ShortUpTo'[n + 1] = ShortUpTo[n] + (IF x.long THEN 0 ELSE x.len)
      /\ LongLines' = IF x.long THEN LongLines \cup {n + 1} ELSE LongLines
  <2> HIDE DEF x
  <2> QED BY <1>0, <1>1, <1>2, OneLineMore
<1> HIDE DEF x, n
<1>6. /\ Gap \in Nat /\ Done \in Nat /\ LongLen \in Nat /\ MaxShort \in Nat
      /\ long_lines_left \in Nat /\ long_lines_left <= Longs /\ Longs \in Nat
      /\ Done + long_lines_left = Longs /\ LongestLine \in Nat /\ Target \in Nat
      /\ target_len <= LongestLine
      /\ ~is_long => target_len <= MaxShort
  <2>1. is_long => target_len <= LongestLine
    BY <1>0, <1>3, FileFacts
  <2>2. ~is_long => target_len <= MaxShort /\ MaxShort <= LongestLine
    BY <1>0, <1>3, FileFacts
  <2>3. /\ MaxShort \in Nat /\ LongestLine \in Nat /\ LongLen \in Nat /\ Gap \in Nat
        /\ Done \in Nat /\ Longs \in Nat /\ Target \in Nat
        /\ long_lines_left \in Nat /\ long_lines_left <= Longs
        /\ Done + long_lines_left = Longs
    BY <1>0, FileFacts, GapFacts
  <2> QED BY <1>2, <2>1, <2>2, <2>3
<1>7. /\ Done' = IF is_long THEN Done + 1 ELSE Done
      /\ long_lines_left' \in 0 .. Longs
      /\ is_long => long_lines_left > 0
  BY <1>1, <1>3, <1>4, <1>6 DEF Done, LongIsDue
<1>8. TypeInv'
  <2>1. written' \in Nat /\ short_written' \in Nat /\ next_long_at' \in Nat
    BY <1>1, <1>2, <1>6
  <2>2. file' \in Files /\ is_long' \in BOOLEAN /\ target_len' \in Nat /\ length' \in Nat
    BY <1>0, <1>1 DEF TypeInv
  <2> QED BY <1>1, <1>4, <1>5, <1>7, <2>1, <2>2 DEF TypeInv
<1>9. CountInv'
  <2>1. /\ next_long_at = (Done + 1) * Gap
        /\ written = short_written + Done * LongLen
        /\ long_lines_left > 0 => short_written < next_long_at + MaxShort
    BY <1>0 DEF CountInv
  <2>2. CASE is_long
    <3>1. Done' = Done + 1 /\ Done + 1 \in Nat
      BY <1>6, <1>7, <2>2
    <3>2. /\ (Done + 1) * LongLen = Done * LongLen + LongLen /\ Done * LongLen \in Nat
          /\ ((Done + 1) + 1) * Gap = (Done + 1) * Gap + Gap
      BY <1>6, <3>1, Products
    <3>3. next_long_at' = (Done' + 1) * Gap'
      BY <1>1, <1>4, <2>1, <2>2, <3>1, <3>2
    <3>4. written' = short_written' + Done' * LongLen'
      <4>1. written' = written + LongLen /\ short_written' = short_written
        BY <1>1, <1>3, <2>2
      <4>2. written' = short_written + (Done * LongLen + LongLen)
        BY <1>2, <1>6, <2>1, <3>2, <4>1
      <4> QED BY <1>4, <3>1, <3>2, <4>1, <4>2
    <3>5. short_written' < next_long_at' + MaxShort'
      <4>1. short_written < next_long_at + MaxShort
        BY <1>7, <2>1, <2>2
      <4> QED BY <1>1, <1>2, <1>4, <1>6, <2>2, <4>1
    <3> QED BY <3>3, <3>4, <3>5 DEF CountInv
  <2>3. CASE ~is_long
    <3>1. Done' = Done /\ next_long_at' = next_long_at /\ long_lines_left' = long_lines_left
      BY <1>1, <1>7, <2>3
    <3>2. written' = short_written' + Done' * LongLen'
      <4>1. Done * LongLen \in Nat
        BY <1>6, Products
      <4>2. written + target_len = short_written + target_len + Done * LongLen
        BY <1>2, <2>1, <4>1
      <4> QED BY <1>1, <1>4, <2>3, <3>1, <4>2
    <3>3. ASSUME long_lines_left > 0 PROVE short_written' < next_long_at' + MaxShort'
      <4>1. short_written < next_long_at
        BY <1>2, <1>3, <2>3, <3>3 DEF LongIsDue
      <4> QED BY <1>1, <1>2, <1>4, <1>6, <2>3, <3>1, <4>1
    <3> QED BY <1>4, <2>1, <3>1, <3>2, <3>3 DEF CountInv
  <2> QED BY <2>2, <2>3
<1>10. WordsInv'
  BY <1>1 DEF WordsInv
<1>11. LinesInv' /\ (is_long => Cardinality(LongLines') = Done + 1)
  <2>1. /\ written = BytesUpTo[n] /\ short_written = ShortUpTo[n]
        /\ Cardinality(LongLines) = Done
        /\ \A i \in DOMAIN lines :
              IF lines[i].long THEN lines[i].len = LongLen ELSE lines[i].len \in ShortLens
    BY <1>0 DEF LinesInv, n
  <2>2. written' = BytesUpTo'[Len(lines')]
    BY <1>1, <1>2, <1>5, <2>1
  <2>3. short_written' = ShortUpTo'[Len(lines')]
    BY <1>1, <1>2, <1>5, <2>1
  <2>4. is_long => Cardinality(LongLines') = Done + 1
    <3>1. IsFiniteSet(LongLines) /\ n + 1 \notin LongLines
      BY <1>0, LongLinesFacts DEF n
    <3>2. Cardinality(LongLines \cup {n + 1}) = Cardinality(LongLines) + 1
      BY <3>1, FS_AddElement
    <3> QED BY <1>2, <1>5, <2>1, <3>2
  <2>5. Cardinality(LongLines') = Done'
    BY <1>2, <1>5, <1>7, <2>1, <2>4
  <2>6. ASSUME NEW i \in DOMAIN lines'
        PROVE  IF lines'[i].long THEN lines'[i].len = LongLen' ELSE lines'[i].len \in ShortLens
    <3>1. CASE i \in DOMAIN lines
      BY <1>4, <1>5, <2>1, <3>1
    <3>2. CASE i = n + 1
      BY <1>2, <1>3, <1>4, <1>5, <3>2
    <3> QED BY <1>5, <3>1, <3>2
  <2> QED BY <2>2, <2>3, <2>4, <2>5, <2>6 DEF LinesInv
<1>12. SizeInv'
  BY <1>1, <1>2, <1>3, <1>4, <1>6 DEF SizeInv
<1>13. LongLinesSpread'
  BY <1>1, <1>2, <1>3, <1>11, SpreadKept
<1> QED BY <1>8, <1>9, <1>10, <1>11, <1>12, <1>13 DEF IInv

(* An empty file.                                                          *)
LEMMA InitIInv == Init => IInv
<1> SUFFICES ASSUME Init
             PROVE  IInv
  OBVIOUS
<1>1. /\ file \in Files /\ pc = "loop" /\ is_long = FALSE /\ target_len = 0 /\ length = 0
      /\ written = 0 /\ short_written = 0 /\ long_lines_left = Longs /\ next_long_at = Gap
      /\ lines = << >>
  BY DEF Init, Longs, Gap
<1>2. Longs \in Nat /\ Target \in Nat /\ LongLen \in Nat
  BY <1>1, WorkloadAssumption DEF Longs, Target, LongLen
<1>3. Gap \in Nat
  <2>1. file.num_long_lines * file.long_line_len <= file.target_bytes
    BY <1>1, WorkloadAssumption
  <2>2. Longs * LongLen \in Nat /\ Longs * LongLen <= Target
    BY <1>2, <2>1, Products DEF Longs, LongLen, Target
  <2>3. Target - Longs * LongLen \in Nat /\ Longs + 1 \in Nat /\ Longs + 1 > 0
    BY <1>2, <2>2
  <2>4. Gap = (Target - Longs * LongLen) \div (Longs + 1)
    BY DEF Gap, GapBytes, Target, Longs, LongLen
  <2> QED BY <2>3, <2>4, DivFacts
<1>4. lines \in Seq([long : BOOLEAN, len : Nat]) /\ Len(lines) = 0 /\ DOMAIN lines = {}
  BY <1>1, EmptySeq
<1>5. TypeInv
  <2>1. long_lines_left \in 0 .. Longs /\ next_long_at \in Nat
    BY <1>1, <1>2, <1>3
  <2>2. pc \in {"loop", "words", "closed"} /\ is_long \in BOOLEAN
    BY <1>1
  <2>3. target_len \in Nat /\ length \in Nat /\ written \in Nat /\ short_written \in Nat
    BY <1>1
  <2> QED BY <1>1, <1>4, <2>1, <2>2, <2>3, Zenon DEF TypeInv
<1>6. Done = 0 /\ MaxShort \in Nat /\ MaxShort > 0 /\ LongestLine \in Nat /\ LongestLine > 0
  <2>1. Done = 0
    BY <1>1, <1>2 DEF Done
  <2>2. PICK m \in ShortLens : TRUE
    BY WorkloadAssumption
  <2>3. m \in Nat /\ m > 0 /\ m <= MaxShort
    BY <1>5, FileFacts
  <2> QED BY <1>5, <2>1, <2>3, FileFacts
<1>7. CountInv
  BY <1>1, <1>2, <1>3, <1>6 DEF CountInv
<1>8. WordsInv /\ SizeInv
  BY <1>1, <1>2, <1>6 DEF WordsInv, SizeInv
<1>9. LongLines = {}
  BY <1>4 DEF LongLines
<1>10. BytesUpTo[0] = 0 /\ ShortUpTo[0] = 0
  <2>1. [i \in DOMAIN lines |-> lines[i].len] = << >>
    BY <1>4
  <2>2. [i \in DOMAIN lines |-> IF lines[i].long THEN 0 ELSE lines[i].len] = << >>
    BY <1>4
  <2>3. << >> \in Seq(Nat)
    OBVIOUS
  <2>4. PartialSums(<< >>)[0] = 0
    BY <2>3, PartialSumsFacts DEF Sums
  <2> QED BY <2>1, <2>2, <2>4 DEF BytesUpTo, ShortUpTo
<1>11. LinesInv
  BY <1>1, <1>4, <1>6, <1>9, <1>10, FS_EmptySet DEF LinesInv
<1>12. LongLinesSpread
  BY <1>9 DEF LongLinesSpread
<1> QED BY <1>5, <1>7, <1>8, <1>11, <1>12 DEF IInv

(* Every step of the generator keeps the invariant.                        *)
LEMMA NextIInv == IInv /\ [Next]_vars => IInv'
<1> SUFFICES ASSUME IInv, [Next]_vars
             PROVE  IInv'
  OBVIOUS
<1>1. CASE UNCHANGED vars
  <2>1. UNCHANGED <<file, pc, is_long, target_len, length, written, short_written,
                    long_lines_left, next_long_at, lines>>
    BY <1>1 DEF vars
  <2>2. TypeInv' /\ WordsInv'
    BY <2>1 DEF IInv, TypeInv, WordsInv, Longs, Target, LongLen, LongIsDue
  <2>3. pc' = "closed" => written >= Target
    BY <2>1 DEF IInv, SizeInv
  <2> QED BY <2>1, <2>2, <2>3, WordsKeep
<1> QED BY <1>1, StartKeeps, AddWordKeeps, WriteKeeps, CloseKeeps DEF Next

(* The file has its long lines, its lengths and its size in every case.    *)
LEMMA WorkloadInv == Spec => []IInv
<1> QED BY InitIInv, NextIInv, PTL DEF Spec

(* gen_workload.py writes the file it was asked for, for every target,     *)
(* number and length of long lines and every choice of words: the loop,    *)
(* which looks at the bytes only, never ends before the last long line     *)
(* (gen_workload.py:48-71).                                                *)
THEOREM FilesAreAsOrdered == Spec => []FileAsOrdered
<1>1. IInv => FileAsOrdered
  <2> SUFFICES ASSUME IInv, pc = "closed"
               PROVE  /\ Cardinality(LongLines) = file.num_long_lines
                      /\ \A i \in DOMAIN lines :
                            IF lines[i].long THEN lines[i].len = file.long_line_len
                                             ELSE lines[i].len \in ShortLens
                      /\ BytesUpTo[Len(lines)]
                            \in file.target_bytes .. file.target_bytes + LongestLine - 1
    BY DEF FileAsOrdered
  <2>1. written >= Target /\ written < Target + LongestLine
    BY DEF IInv, SizeInv
  <2>2. long_lines_left = 0
    BY <2>1, AllLongWritten DEF IInv
  <2>3. Cardinality(LongLines) = Longs
    BY <2>2, FileFacts DEF IInv, LinesInv
  <2>4. written \in Nat /\ Target \in Nat /\ LongestLine \in Nat
    BY FileFacts DEF IInv, TypeInv
  <2>5. written \in Target .. Target + LongestLine - 1
    BY <2>1, <2>4
  <2> QED BY <2>3, <2>5 DEF IInv, LinesInv, Longs, Target, LongLen
<1> QED BY <1>1, WorkloadInv, PTL

(* The long lines are spread evenly over the ordinary ones and do not      *)
(* drift, for every file (gen_workload.py:52-65).                          *)
THEOREM LongLinesAreSpread == Spec => []LongLinesSpread
<1>1. IInv => LongLinesSpread
  BY DEF IInv
<1> QED BY <1>1, WorkloadInv, PTL
-----------------------------------------------------------------------------
(* How long the generator can take: two steps for each byte the file may   *)
(* still get, and in the word loop one for each character still missing,   *)
(* paid for by the line.                                                   *)
Missing == IF length < target_len - 1 THEN target_len - 1 - length ELSE 0

StepsLeft ==
    LET room == Target + LongestLine - written
    IN  CASE pc = "loop"  -> 2 * room + 1
          [] pc = "words" -> 2 * room + 1 + Missing - target_len
          [] OTHER        -> 0

(* The line in the making has a length and fits into the last bytes.       *)
LEMMA LineIsShort ==
    ASSUME IInv, pc = "words"
    PROVE  target_len \in Nat /\ target_len > 0 /\ target_len <= LongestLine /\ written < Target
<1>0. TypeInv
  BY DEF IInv
<1>1. CASE is_long
  <2>1. target_len = LongLen /\ long_lines_left > 0
    BY <1>1 DEF IInv, WordsInv, LongIsDue
  <2>2. Longs > 0
    BY <1>0, <2>1, FileFacts
  <2> QED BY <1>0, <2>1, <2>2, FileFacts DEF IInv, WordsInv
<1>2. CASE ~is_long
  <2>1. target_len \in ShortLens
    BY <1>2 DEF IInv, WordsInv
  <2> QED BY <1>0, <2>1, FileFacts DEF IInv, WordsInv
<1> QED BY <1>1, <1>2

(* What is left is a number, and not zero before the file is closed.       *)
LEMMA StepsFacts ==
    ASSUME IInv
    PROVE  /\ StepsLeft \in Nat
           /\ pc = "loop" => StepsLeft > 0
<1> DEFINE room == Target + LongestLine - written
<1>0. TypeInv
  BY DEF IInv
<1>1. room \in Nat /\ LongestLine \in Nat /\ written \in Nat /\ Target \in Nat
  <2>1. LongestLine \in Nat /\ Target \in Nat
    BY <1>0, FileFacts
  <2>2. written \in Nat /\ written < Target + LongestLine
    BY DEF IInv, TypeInv, SizeInv
  <2> QED BY <2>1, <2>2
<1>2. CASE pc = "loop"
  <2>1. StepsLeft = 2 * room + 1
    BY <1>2 DEF StepsLeft
  <2> HIDE DEF room
  <2> QED BY <1>1, <2>1
<1>3. CASE pc = "words"
  <2>1. StepsLeft = 2 * room + 1 + Missing - target_len
    BY <1>3 DEF StepsLeft
  <2>2. Missing \in Nat
    BY <1>0 DEF Missing, TypeInv
  <2>3. target_len \in Nat /\ target_len <= LongestLine /\ written < Target
    BY <1>3, LineIsShort
  <2>4. LongestLine <= room
    BY <1>1, <2>3
  <2> HIDE DEF room
  <2> QED BY <1>1, <1>3, <2>1, <2>2, <2>3, <2>4
<1>4. CASE pc = "closed"
  BY <1>4 DEF StepsLeft
<1> QED BY <1>2, <1>3, <1>4 DEF IInv, TypeInv

(* Every step of the generator is paid for.                                *)
LEMMA StepIsPaid ==
    ASSUME IInv, Next
    PROVE  StepsLeft' < StepsLeft
<1> DEFINE room == Target + LongestLine - written
<1>0. TypeInv
  BY DEF IInv
<1>1. /\ room \in Nat /\ LongestLine \in Nat /\ written \in Nat /\ Target \in Nat
      /\ length \in Nat /\ target_len \in Nat
  <2>1. LongestLine \in Nat /\ Target \in Nat
    BY <1>0, FileFacts
  <2>2. written \in Nat /\ written < Target + LongestLine
    BY DEF IInv, TypeInv, SizeInv
  <2>3. length \in Nat /\ target_len \in Nat
    BY DEF IInv, TypeInv
  <2> QED BY <2>1, <2>2, <2>3
<1>2. file' = file /\ Target' = Target /\ LongestLine' = LongestLine
  BY DEF Next, StartLong, StartShort, StartLine, AddWord, WriteShort, WriteLong, LineWith, Close,
         Target, LongestLine
<1>3. ASSUME NEW long, NEW len \in Nat, len > 0, StartLine(long, len)
      PROVE  StepsLeft' < StepsLeft
  <2>1. pc = "loop" /\ pc' = "words" /\ written' = written /\ length' = 0 /\ target_len' = len
    BY <1>3 DEF StartLine
  <2>2. Missing' = len - 1
    BY <1>3, <2>1 DEF Missing
  <2>3. StepsLeft = 2 * room + 1
    BY <2>1 DEF StepsLeft
  <2>4. StepsLeft' = 2 * room + 1 + (len - 1) - len
    BY <1>2, <2>1, <2>2 DEF StepsLeft
  <2> HIDE DEF room
  <2> QED BY <1>1, <1>3, <2>3, <2>4
<1>4. CASE StartLong
  <2>1. Longs > 0
    BY <1>0, <1>4, FileFacts DEF StartLong, LongIsDue
  <2>2. LongLen \in Nat /\ LongLen > 0
    BY <1>0, <2>1, FileFacts
  <2> QED BY <1>3, <1>4, <2>2 DEF StartLong, LongLen
<1>5. CASE StartShort
  <2>1. PICK len \in ShortLens : StartLine(FALSE, len)
    BY <1>5 DEF StartShort
  <2> QED BY <1>0, <1>3, <2>1, FileFacts
<1>6. CASE AddWord
  <2>1. PICK w \in WordLens : length' = length + w + 1
    BY <1>6 DEF AddWord
  <2>2. w \in Nat /\ w > 0
    BY WorkloadAssumption
  <2>3. /\ pc = "words" /\ pc' = "words" /\ written' = written /\ target_len' = target_len
        /\ length < target_len - 1
    BY <1>6 DEF AddWord
  <2>4. Missing' < Missing /\ Missing \in Int /\ Missing' \in Int
    BY <1>1, <2>1, <2>2, <2>3 DEF Missing
  <2>5. StepsLeft = 2 * room + 1 + Missing - target_len
    BY <2>3 DEF StepsLeft
  <2>6. StepsLeft' = 2 * room + 1 + Missing' - target_len
    BY <1>2, <2>3 DEF StepsLeft
  <2>7. \A r \in Nat, m, n \in Int, l \in Nat : n < m => 2 * r + 1 + n - l < 2 * r + 1 + m - l
    OBVIOUS
  <2> HIDE DEF room
  <2>8. room \in Nat /\ target_len \in Nat
    BY <1>1
  <2>9. 2 * room + 1 + Missing' - target_len < 2 * room + 1 + Missing - target_len
    BY <2>4, <2>7, <2>8, Zenon
  <2> QED BY <2>5, <2>6, <2>9, Zenon
<1>7. CASE WriteShort \/ WriteLong
  <2>1. LineWith(FitToLength(target_len - 1) + 1)
    BY <1>7 DEF WriteShort, WriteLong
  <2>2. pc = "words" /\ pc' = "loop" /\ length >= target_len - 1
    BY <2>1 DEF LineWith
  <2>3. target_len > 0
    BY <2>2, LineIsShort
  <2>4. FitToLength(target_len - 1) + 1 = target_len
    BY <1>0, LengthAsAsked
  <2>5. written' = written + target_len
    BY <2>1, <2>4 DEF LineWith
  <2>6. Missing = 0
    BY <1>1, <2>2 DEF Missing
  <2>7. StepsLeft = 2 * room + 1 - target_len
    BY <1>1, <2>2, <2>6 DEF StepsLeft
  <2>8. StepsLeft' = 2 * (Target + LongestLine - (written + target_len)) + 1
    BY <1>2, <2>2, <2>5 DEF StepsLeft
  <2> QED BY <1>1, <2>3, <2>7, <2>8
<1>8. CASE Close
  <2>1. pc = "loop" /\ pc' = "closed"
    BY <1>8 DEF Close
  <2>2. StepsLeft' = 0
    BY <2>1 DEF StepsLeft
  <2> QED BY <2>1, <2>2, StepsFacts
<1> QED BY <1>4, <1>5, <1>6, <1>7, <1>8 DEF Next

(* The generator ends, whatever lengths the random generator picks: each   *)
(* step of its loops takes at least one from a number that starts at twice *)
(* the bytes of the file and a line (gen_workload.py:15-33, 61-70).        *)
THEOREM GeneratorEnds ==
    Spec => [](StepsLeft \in Nat) /\ [][StepsLeft' < StepsLeft]_vars
<1>1. IInv => StepsLeft \in Nat
  BY StepsFacts
<1>2. IInv /\ [Next]_vars => [StepsLeft' < StepsLeft]_vars
  BY StepIsPaid
<1> QED BY <1>1, <1>2, WorkloadInv, PTL DEF Spec
=============================================================================
