----------------------------- MODULE PutStringProofs -----------------------------
(***************************************************************************)
(* Proofs about PutString, for files of any length, any setting and any    *)
(* size of the buffer.  First the copying of lines, for which NewEntry     *)
(* stands for whatever is written; then the text of the value: what the    *)
(* functions of IniText make of it and back.                               *)
(***************************************************************************)
EXTENDS PutString, PutSectionProofs, WellFoundedInduction

(* What the lines of the two files are taken from *)
PutLines == Range(file) \cup {Blank, NewEntry, Heading(setting.section, FALSE)}

(* The section the setting is in begins behind this line. *)
Start == Min(SectionLines(file, setting.section))
HasStart ==
    /\ SectionLines(file, setting.section) # {}
    /\ setting.section = None => Start = 0
    /\ setting.section # None => /\ Start \in 1 .. Len(file) /\ Matches(file[Start])
                                 /\ \A j \in 1 .. Start - 1 : ~Matches(file[j])

(* The loops stop at this line of the section. *)
Stops(line) == IsKey(line) \/ Bracketed(line)

(* The file with the lines between a and b taken out and the new one put   *)
(* in their place, as the copying gets to it: up to line n                 *)
Splice(a, b, n) ==
    SubSeq(file, 1, a) \o (IF Writes THEN <<NewEntry>> ELSE <<>>) \o SubSeq(file, b, n)

(* Up to the heading everything is copied or accumulated. *)
PutSearching ==
    /\ setting.section # None
    /\ rpos = mark + cachelen
    /\ out = SubSeq(file, 1, mark - 1)
    /\ \A j \in 1 .. rpos - 1 : ~Matches(file[j])

(* The heading too, unless the section goes. *)
PutFinding ==
    /\ HasStart
    /\ mark + cachelen <= Len(file) + 1
    /\ out = SubSeq(file, 1, mark - 1)
    /\ setting.key # None => mark + cachelen = Start + 1
    /\ setting.key = None => mark + cachelen = IF Start = 0 THEN 1 ELSE Start

(* Inside the section everything is copied or accumulated, or nothing is   *)
(* and the mark moves on.  The line the loop stopped at is the last one    *)
(* read.                                                                   *)
PutInside ==
    /\ HasStart
    /\ Start < mark
    /\ setting.key # None => out = SubSeq(file, 1, mark - 1)
    /\ setting.key = None => cachelen = 0 /\ out = SubSeq(file, 1, Start - 1)
    /\ ~LosesHeading => \A j \in Start + 1 .. mark + cachelen - 1 : ~Stops(file[j])
    /\ pc = "putKeys" => rpos = mark + cachelen
    /\ pc = "putKey" => /\ mark + cachelen <= Len(file)
                        /\ rpos = mark + cachelen + 1
                        /\ buffer = file[mark + cachelen]
                        /\ Stops(buffer)

(* Behind it what is copied and what is accumulated add up again. *)
PutResuming ==
    /\ rpos = mark + cachelen
    /\ ~LosesHeading => \E a \in -1 .. Len(file), b \in 1 .. mark :
          Edited = Splice(a, b, Len(file)) /\ out = Splice(a, b, mark - 1)

PutPcs == {"puts", "putSearch", "putFound", "putKeys", "putKey", "rest", "done"}

(* What is accumulated fits into the buffer; the loop that would read on   *)
(* behind the end of the file is not among the pcs.                        *)
PutTypeOK ==
    /\ terminated \in BOOLEAN /\ exists \in BOOLEAN /\ wiped \in BOOLEAN
    /\ pc \in PutPcs
    /\ rpos \in 1 .. Len(file) + 1
    /\ mark \in 1 .. Len(file) + 1
    /\ cachelen \in 0 .. BufferSize - 1

PutInv ==
    /\ file \in Seq(Range(file))
    /\ PutTypeOK
    /\ out \in Seq(PutLines)
    /\ pc = "puts" => out = <<>> /\ mark = 1 /\ cachelen = 0 /\ rpos = 1
    /\ pc \notin {"puts", "done"} => exists /\ ~SameValue
    /\ pc = "putSearch" => PutSearching
    /\ pc = "putFound" => PutFinding
    /\ pc \in {"putKeys", "putKey"} => PutInside
    /\ pc = "rest" => PutResuming
    /\ pc = "done" => EditsOneKey
-------------------------------------------------------------------------------
(* Numbers and sequences                                                   *)

LEMMA MinIs ==
    ASSUME NEW S, S \subseteq Int, NEW h \in S, \A x \in S : h <= x
    PROVE  Min(S) = h
<1> DEFINE P(x) == \A y \in S : x =< y
<1>1. P(h)
  OBVIOUS
<1>2. ASSUME NEW x \in S, P(x)
      PROVE  x = h
  <2>1. x <= h /\ h <= x /\ x \in Int /\ h \in Int
    BY <1>2
  <2> QED  BY <2>1
<1>3. Min(S) = CHOOSE x \in S : P(x)
  BY DEF Min
<1> HIDE DEF P
<1> QED  BY <1>1, <1>2, <1>3

LEMMA MinOfOne == Min({0}) = 0
<1> DEFINE S == {0}
<1>1. S \subseteq Int /\ 0 \in S /\ \A x \in S : 0 <= x
  OBVIOUS
<1> HIDE DEF S
<1>2. Min(S) = 0
  BY ONLY <1>1, MinIs
<1> QED  BY <1>2 DEF S

(* A set of numbers has a least one. *)
LEMMA Least ==
    ASSUME NEW S, S \subseteq Nat, S # {}
    PROVE  \E x \in S : \A y \in S : x <= y
<1> DEFINE R == OpToRel(<, Nat)
<1>1. IsWellFoundedOn(R, Nat)
  BY NatLessThanWellFounded
<1>2. PICK x \in S : \A y \in S : ~(<<y, x>> \in R)
  <2> HIDE DEF R
  <2> QED  BY <1>1, WFMin
<1>3. \A y \in S : y < x => <<y, x>> \in R
  BY DEF OpToRel
<1> HIDE DEF R
<1>4. x \in Nat /\ \A y \in S : y \in Nat /\ ~(y < x)
  BY <1>2, <1>3
<1> QED  BY <1>4

(* Induction, over the set of the numbers something holds for *)
LEMMA Induction ==
    ASSUME NEW T, 0 \in T, \A k \in Nat : k \in T => k + 1 \in T
    PROVE  Nat \subseteq T
<1> SUFFICES ASSUME Nat \ T # {} PROVE FALSE
  OBVIOUS
<1>1. PICK k \in Nat \ T : \A j \in Nat \ T : k <= j
  <2>1. Nat \ T \subseteq Nat
    OBVIOUS
  <2> QED  BY <2>1, Least
<1>2. k # 0 /\ k \in Nat
  OBVIOUS
<1>3. k - 1 \in Nat /\ ~(k <= k - 1) /\ (k - 1) + 1 = k
  BY <1>2
<1>4. k - 1 \in T
  BY <1>1, <1>3
<1> QED  BY <1>3, <1>4

(* A function whose value is computed from those at places of a lower      *)
(* measure exists: the value at x is step[x], of the function as a whole.  *)
Descends(I, V, m, step) ==
    /\ m \in [I -> Nat]
    /\ \E n \in Nat : \A x \in I : m[x] < n
    /\ V # {}
    /\ step \in [I -> [[I -> V] -> V]]
    /\ \A x \in I : \A g, h \in [I -> V] :
          (\A y \in I : m[y] < m[x] => g[y] = h[y]) => step[x][g] = step[x][h]

Computes(I, V, step) == \E f \in [I -> V] : \A x \in I : f[x] = step[x][f]

LEMMA Recursion ==
    ASSUME NEW I, NEW V, NEW m, NEW step, Descends(I, V, m, step)
    PROVE  Computes(I, V, step)
<1>0. PICK n \in Nat : \A x \in I : m[x] < n
  BY DEF Descends
<1>a. PICK v : v \in V
  BY DEF Descends
<1>b. m \in [I -> Nat] /\ step \in [I -> [[I -> V] -> V]]
  BY DEF Descends
<1>c. \A x \in I : \A g, h \in [I -> V] :
          (\A y \in I : m[y] < m[x] => g[y] = h[y]) => step[x][g] = step[x][h]
  BY DEF Descends
<1> DEFINE P(k) == \E f \in [I -> V] : \A x \in I : m[x] < k => f[x] = step[x][f]
<1>1. P(0)
  <2>1. [x \in I |-> v] \in [I -> V]
    BY <1>a
  <2>2. \A x \in I : ~(m[x] < 0)
    BY <1>b
  <2> QED  BY <2>1, <2>2
<1>2. ASSUME NEW k \in Nat, P(k)
      PROVE  P(k + 1)
  <2>1. PICK f \in [I -> V] : \A x \in I : m[x] < k => f[x] = step[x][f]
    BY <1>2
  <2> DEFINE g == [x \in I |-> IF m[x] < k THEN f[x] ELSE step[x][f]]
  <2>2. g \in [I -> V]
    BY <1>b, <2>1
  <2>3. ASSUME NEW x \in I, m[x] < k + 1
        PROVE  g[x] = step[x][g]
    <3>1. \A y \in I : m[y] < m[x] => f[y] = g[y]
      BY <1>b, <2>3
    <3>2. step[x][f] = step[x][g]
      BY <1>c, <2>1, <2>2, <3>1
    <3> QED  BY <2>1, <3>2
  <2> QED  BY <2>2, <2>3
<1> DEFINE T == {k \in Nat : P(k)}
<1>3. 0 \in T /\ \A k \in Nat : k \in T => k + 1 \in T
  <2> HIDE DEF P
  <2>1. \A k \in Nat : k \in T => k + 1 \in T
    BY <1>2
  <2> QED  BY <1>1, <2>1
<1>4. n \in T
  <2> HIDE DEF T
  <2> QED  BY <1>3, Induction
<1>5. PICK f \in [I -> V] : \A x \in I : m[x] < n => f[x] = step[x][f]
  BY <1>4
<1> QED  BY <1>0, <1>5 DEF Computes

LEMMA MaxIs ==
    ASSUME NEW S, S \subseteq Int, NEW h \in S, \A x \in S : x <= h
    PROVE  Max(S) = h
<1> DEFINE P(x) == \A y \in S : x >= y
<1>1. P(h)
  OBVIOUS
<1>2. ASSUME NEW x \in S, P(x)
      PROVE  x = h
  <2>1. x <= h /\ h <= x /\ x \in Int /\ h \in Int
    BY <1>2
  <2> QED  BY <2>1
<1>3. Max(S) = CHOOSE x \in S : P(x)
  BY DEF Max
<1> HIDE DEF P
<1> QED  BY <1>1, <1>2, <1>3

LEMMA Greatest ==
    ASSUME NEW n \in Nat, NEW S, S \subseteq 0 .. n, S # {}
    PROVE  Max(S) \in S /\ \A x \in S : x <= Max(S)
<1> DEFINE R == {n - x : x \in S}
<1>1. R \subseteq Nat /\ R # {}
  <2>1. \A x \in S : x \in 0 .. n /\ n - x \in Nat
    OBVIOUS
  <2>2. PICK x \in S : TRUE
    OBVIOUS
  <2>3. n - x \in R
    OBVIOUS
  <2> QED  BY <2>1, <2>3
<1>2. PICK r \in R : \A q \in R : r <= q
  <2> HIDE DEF R
  <2> QED  BY <1>1, Least
<1>3. PICK h \in S : r = n - h
  OBVIOUS
<1>4. \A x \in S : x <= h
  <2> TAKE x \in S
  <2>1. n - h <= n - x
    BY <1>2, <1>3
  <2>2. n \in Int /\ h \in Int /\ x \in Int
    OBVIOUS
  <2> QED  BY <2>1, <2>2
<1>5. S \subseteq Int
  OBVIOUS
<1>6. Max(S) = h
  BY <1>4, <1>5, MaxIs
<1> QED  BY <1>4, <1>6

(* The numbers of the invariant *)
LEMMA PutNumbers ==
    ASSUME PutInv
    PROVE  /\ file \in Seq(Range(file)) /\ file \in Seq(PutLines)
           /\ Len(file) \in Nat
           /\ DOMAIN file = 1 .. Len(file)
           /\ BufferSize \in Nat /\ BufferSize >= 2
           /\ rpos \in 1 .. Len(file) + 1
           /\ mark \in 1 .. Len(file) + 1
           /\ cachelen \in 0 .. BufferSize - 1
           /\ terminated \in BOOLEAN /\ exists \in BOOLEAN /\ wiped \in BOOLEAN
           /\ out \in Seq(PutLines)
<1>1. file \in Seq(Range(file)) /\ PutTypeOK /\ out \in Seq(PutLines)
  BY DEF PutInv
<1>2. Range(file) \subseteq PutLines
  BY DEF PutLines
<1>3. file \in Seq(PutLines)
  BY <1>1, <1>2, SeqMonotonic
<1>4. Len(file) \in Nat /\ DOMAIN file = 1 .. Len(file)
  BY <1>1, LenProperties
<1> QED  BY <1>1, <1>3, <1>4, BufferAssumption DEF PutTypeOK

(* The counters among them *)
LEMMA PutRanges ==
    ASSUME PutInv
    PROVE  /\ Len(file) \in Nat /\ BufferSize \in Nat
           /\ rpos \in 1 .. Len(file) + 1
           /\ mark \in 1 .. Len(file) + 1
           /\ cachelen \in 0 .. BufferSize - 1
  BY PutNumbers

(* None of the arguments changes, nor what is said of them. *)
LEMMA PutInputsKept ==
    ASSUME UNCHANGED puts
    PROVE  /\ file' = file /\ setting' = setting /\ terminated' = terminated
           /\ exists' = exists /\ vals' = vals
           /\ PutLines' = PutLines /\ NewEntry' = NewEntry /\ NewHeading' = NewHeading
           /\ Writes' = Writes /\ SameValue' = SameValue
           /\ HasStart' = HasStart /\ Start' = Start
           /\ Edited' = Edited /\ LosesHeading' = LosesHeading
           /\ \A a, b, n : Splice(a, b, n)' = Splice(a, b, n)
           /\ \A line : Stops(line)' = Stops(line)
<1>1. /\ file' = file /\ setting' = setting /\ terminated' = terminated
      /\ exists' = exists /\ vals' = vals
  BY DEF puts, inputs
<1>2. NewEntry' = NewEntry /\ Writes' = Writes /\ NewHeading' = NewHeading
  BY <1>1 DEF NewEntry, Writes, NewHeading
<1>3. Old' = Old
  BY <1>1 DEF Old
<1>4. SameValue' = SameValue
  BY <1>1, <1>2, <1>3 DEF SameValue
<1>5. PutLines' = PutLines
  BY <1>1, <1>2 DEF PutLines
<1>6. Start' = Start /\ HasStart' = HasStart
  BY <1>1 DEF Start, HasStart
<1>7. Edited' = Edited
  BY <1>1, <1>2, <1>3, <1>4 DEF Edited
<1>8. LosesHeading' = LosesHeading
  BY <1>1 DEF LosesHeading
<1>9. \A a, b, n : Splice(a, b, n)' = Splice(a, b, n)
  BY <1>1, <1>2 DEF Splice
<1>10. \A line : Stops(line)' = Stops(line)
  BY <1>1 DEF Stops, IsKey
<1> QED  BY <1>1, <1>2, <1>4, <1>5, <1>6, <1>7, <1>8, <1>9, <1>10

(* What is copied up to line m - 1 of the file, and what follows as far as *)
(* line n, is the file up to line n.                                       *)
LEMMA FileGrows ==
    ASSUME PutInv, NEW m \in 1 .. Len(file) + 1, NEW n \in m - 1 .. Len(file)
    PROVE  /\ SubSeq(file, 1, m - 1) \o SubSeq(file, m, n) = SubSeq(file, 1, n)
           /\ SubSeq(file, 1, n) \in Seq(PutLines)
           /\ SubSeq(file, m, n) \in Seq(PutLines)
<1>1. file \in Seq(PutLines) /\ Len(file) \in Nat
  BY PutNumbers
<1>2. 1 \in 1 .. Len(file) + 1 /\ n \in 1 - 1 .. Len(file) /\ m \in 1 .. n + 1
  BY <1>1
<1> QED  BY <1>1, <1>2, NextPiece

(* Copying the lines from m to n takes the reference from m - 1 to n. *)
LEMMA SpliceGrows ==
    ASSUME PutInv, NEW a \in -1 .. Len(file), NEW b \in 1 .. Len(file) + 1,
           NEW m \in b .. Len(file) + 1, NEW n \in m - 1 .. Len(file)
    PROVE  /\ Splice(a, b, m - 1) \in Seq(PutLines)
           /\ Splice(a, b, m - 1) \o SubSeq(file, m, n) = Splice(a, b, n)
<1> DEFINE new == IF Writes THEN <<NewEntry>> ELSE <<>>
           x == SubSeq(file, 1, a) \o new
           y == SubSeq(file, b, m - 1)
           z == SubSeq(file, m, n)
<1>0. file \in Seq(PutLines) /\ Len(file) \in Nat
  BY PutNumbers
<1>1. SubSeq(file, 1, a) \in Seq(PutLines)
  <2>1. CASE a = -1
    <3>1. SubSeq(file, 1, a) = <<>>
      BY <2>1, SubSeqEmpty
    <3> QED  BY <3>1, EmptySeq
  <2>2. CASE a # -1
    <3>1. a \in 1 - 1 .. Len(file) /\ 1 \in 1 .. Len(file) + 1
      BY <1>0, <2>2
    <3> QED  BY <1>0, <3>1, NextPiece
  <2> QED  BY <2>1, <2>2
<1>2. new \in Seq(PutLines)
  <2>1. NewEntry \in PutLines
    BY DEF PutLines
  <2> QED  BY <2>1
<1>3. x \in Seq(PutLines)
  <2> HIDE DEF new
  <2> QED  BY <1>1, <1>2, ConcatProperties
<1>4. y \in Seq(PutLines) /\ z \in Seq(PutLines) /\ y \o z = SubSeq(file, b, n)
  <2>1. /\ m - 1 \in b - 1 .. Len(file) /\ n \in b - 1 .. Len(file)
        /\ m \in b .. n + 1 /\ m \in 1 .. Len(file) + 1
    BY <1>0
  <2> QED  BY <1>0, <2>1, NextPiece
<1> HIDE DEF x, y, z
<1>5. x \in Seq(PutLines) /\ y \in Seq(PutLines) /\ z \in Seq(PutLines)
  BY <1>3, <1>4
<1>6. (x \o y) \o z = x \o (y \o z)
  BY ONLY <1>5, ConcatAssociative, SMTT(30)
<1>7. x \o y \in Seq(PutLines)
  BY ONLY <1>5, ConcatProperties
<1> QED  BY <1>4, <1>6, <1>7 DEF Splice, x, y, z
-------------------------------------------------------------------------------
(* What the loops find                                                     *)

(* The first line that matches is the heading the setting goes under. *)
LEMMA StartIs ==
    ASSUME PutInv, setting.section # None, NEW h \in 1 .. Len(file), Matches(file[h]),
           \A j \in 1 .. h - 1 : ~Matches(file[j])
    PROVE  HasStart /\ Start = h
<1>1. SectionLines(file, setting.section) = {i \in 1 .. Len(file) : Matches(file[i])}
  BY PutNumbers DEF SectionLines
<1> DEFINE S == SectionLines(file, setting.section)
<1>2. S \subseteq Int /\ h \in S
  BY <1>1
<1>3. \A x \in S : h <= x
  BY <1>1
<1> HIDE DEF S
<1>4. Min(S) = h
  BY <1>2, <1>3, MinIs
<1> QED  BY <1>2, <1>4, PutNumbers DEF HasStart, Start, S

LEMMA StartIsNone ==
    ASSUME PutInv, setting.section = None
    PROVE  HasStart /\ Start = 0
<1>1. SectionLines(file, setting.section) = {0}
  BY DEF SectionLines
<1> QED  BY <1>1, MinOfOne, PutNumbers DEF HasStart, Start

(* Whether the loops stopped at the key: it is the first one in Old.       *)
LEMMA OldIs ==
    ASSUME PutInv, HasStart, NEW p \in Start + 1 .. Len(file) + 1,
           \A j \in Start + 1 .. p - 1 : ~Stops(file[j]),
           p <= Len(file) => Stops(file[p]),
           setting.key # None
    PROVE  /\ p <= Len(file) /\ IsKey(file[p]) => Old # {} /\ Min(Old) = p
           /\ ~(p <= Len(file) /\ IsKey(file[p])) => Old = {}
<1>1. \A i : i \in Old <=> /\ i \in 1 .. Len(file)
                           /\ IsKey(file[i])
                           /\ Start < i /\ \A j \in Start + 1 .. i : ~Bracketed(file[j])
  BY PutNumbers DEF Old, KeyLines, IsKey, HasStart, Start
<1>2. Start \in Nat /\ p \in Nat /\ Len(file) \in Nat /\ Start < p
  BY PutNumbers DEF HasStart
<1>3. \A i \in Old : i >= p
  <2> SUFFICES ASSUME NEW i \in Old, i < p PROVE FALSE
    BY <1>1, <1>2
  <2>1. i \in Start + 1 .. p - 1
    BY <1>1, <1>2
  <2> QED  BY <1>1, <2>1 DEF Stops
<1>4. ASSUME p <= Len(file), IsKey(file[p])
      PROVE  Old # {} /\ Min(Old) = p
  <2>1. \A j \in Start + 1 .. p : ~Bracketed(file[j])
    <3>1. \A j \in Start + 1 .. p - 1 : ~Bracketed(file[j])
      BY DEF Stops
    <3>2. ~Bracketed(file[p])
      BY <1>4 DEF IsKey, Bracketed
    <3>3. \A j \in Start + 1 .. p : j \in Start + 1 .. p - 1 \/ j = p
      BY <1>2
    <3> QED  BY <3>1, <3>2, <3>3
  <2>2. p \in 1 .. Len(file)
    BY <1>2, <1>4
  <2>3. p \in Old
    BY <1>1, <1>2, <1>4, <2>1, <2>2
  <2>4. Old \subseteq Int
    BY <1>1
  <2>5. \A i \in Old : p <= i
    BY <1>2, <1>3, <2>4
  <2> QED  BY <2>3, <2>4, <2>5, MinIs
<1>5. ASSUME ~(p <= Len(file) /\ IsKey(file[p]))
      PROVE  Old = {}
  <2> SUFFICES ASSUME NEW i \in Old PROVE FALSE
    OBVIOUS
  <2>1. /\ i \in 1 .. Len(file) /\ i >= p /\ IsKey(file[i])
        /\ \A j \in Start + 1 .. i : ~Bracketed(file[j])
    BY <1>1, <1>3
  <2>2. p <= Len(file) /\ p \in Start + 1 .. i
    BY <1>2, <2>1
  <2>3. Bracketed(file[p])
    BY <1>5, <2>2 DEF Stops
  <2> QED  BY <2>1, <2>2, <2>3
<1> QED  BY <1>4, <1>5

(* Where the section ends *)
SectionEnds == Min({i \in Start + 1 .. Len(file) + 1 : i <= Len(file) => Bracketed(file[i])})

LEMMA EndIs ==
    ASSUME PutInv, HasStart, NEW p \in Start + 1 .. Len(file) + 1,
           \A j \in Start + 1 .. p - 1 : ~Bracketed(file[j]),
           p <= Len(file) => Bracketed(file[p])
    PROVE  SectionEnds = p
<1> DEFINE S == {i \in Start + 1 .. Len(file) + 1 : i <= Len(file) => Bracketed(file[i])}
<1>1. Start \in Nat /\ p \in Nat /\ Len(file) \in Nat /\ Start < p
  BY PutNumbers DEF HasStart
<1>2. S \subseteq Int /\ p \in S
  BY <1>1
<1>3. \A x \in S : p <= x
  <2> SUFFICES ASSUME NEW x \in S, x < p PROVE FALSE
    BY <1>1
  <2>1. x \in Start + 1 .. p - 1 /\ x <= Len(file)
    BY <1>1
  <2> QED  BY <2>1
<1> HIDE DEF S
<1>4. Min(S) = p
  BY <1>2, <1>3, MinIs
<1> QED  BY <1>4 DEF SectionEnds, S
-------------------------------------------------------------------------------
(* The reference, by what the loops find                                   *)

LEMMA EditedBy ==
    ASSUME HasStart
    PROVE  Edited =
        IF Writes THEN
            IF SameValue THEN file
            ELSE IF Old # {} THEN [file EXCEPT ![Min(Old)] = NewEntry]
            ELSE InsertAt(file, SectionEnds, NewEntry)
        ELSE IF setting.key # None THEN IF Old # {} THEN RemoveAt(file, Min(Old)) ELSE file
        ELSE SubSeq(file, 1, Start - 1) \o SubSeq(file, SectionEnds, Len(file))
  BY DEF Edited, HasStart, Start, SectionEnds

(* No section, nothing in it *)
LEMMA EditedNoSection ==
    ASSUME PutInv, setting.section # None, ~SameValue,
           \A j \in 1 .. Len(file) : ~Matches(file[j])
    PROVE  Edited = IF Writes THEN file \o NewHeading \o <<NewEntry>> ELSE file
<1>1. SectionLines(file, setting.section) = {}
  BY PutNumbers DEF SectionLines
<1>2. Old = {}
  BY <1>1 DEF Old, KeyLines
<1> QED  BY <1>1, <1>2 DEF Edited

(* Replacing a line puts the new one between the lines before it and those *)
(* behind it.                                                              *)
LEMMA ExceptSplits ==
    ASSUME NEW S, NEW s \in Seq(S), NEW p \in 1 .. Len(s), NEW e \in S
    PROVE  [s EXCEPT ![p] = e] = SubSeq(s, 1, p - 1) \o <<e>> \o SubSeq(s, p + 1, Len(s))
<1> DEFINE n == Len(s)
           x == SubSeq(s, 1, p - 1)
           z == SubSeq(s, p + 1, n)
           t == [s EXCEPT ![p] = e]
<1>1. n \in Nat /\ p \in 1 .. n
  BY LenProperties
<1>2. t \in Seq(S) /\ Len(t) = n /\ \A j \in 1 .. n : t[j] = IF j = p THEN e ELSE s[j]
  BY ExceptSeq
<1>3. x \in Seq(S) /\ z \in Seq(S) /\ <<e>> \in Seq(S)
  <2>1. /\ 1 \in 1 .. n + 1 /\ p - 1 \in 1 - 1 .. n
        /\ p + 1 \in 1 .. n + 1 /\ n \in (p + 1) - 1 .. n
    BY <1>1
  <2>2. x \in Seq(S)
    BY <2>1, NextPiece
  <2>3. z \in Seq(S)
    <3>1. PICK q \in 1 .. n + 1 : q = p + 1
      BY <2>1
    <3>2. n \in q - 1 .. n
      BY <1>1, <3>1
    <3>3. SubSeq(s, q, n) \in Seq(S)
      BY <3>2, NextPiece
    <3> QED  BY <3>1, <3>3
  <2> QED  BY <2>2, <2>3
<1>4. /\ Len(x) = p - 1 /\ \A i \in 1 .. p - 1 : x[i] = s[i]
      /\ Len(z) = n - p /\ \A i \in 1 .. n - p : z[i] = s[p + i]
  <2>1. \A i \in 1 .. n : s[i] \in S
    BY ElementOfSeq
  <2>2. /\ \A i \in 1 .. p - 1 : s[i] \in S
        /\ \A i \in p + 1 .. n : s[i] \in S
    BY <1>1, <2>1
  <2>3. 1 \in Int /\ p - 1 \in Int /\ p + 1 \in Int /\ n \in Int
    BY <1>1
  <2>4. /\ Len(x) = IF 1 <= p - 1 THEN (p - 1) - 1 + 1 ELSE 0
        /\ \A i \in 1 .. (p - 1) - 1 + 1 : x[i] = s[1 + i - 1]
    BY <2>2, <2>3, SubSeqProperties
  <2>5. /\ Len(z) = IF p + 1 <= n THEN n - (p + 1) + 1 ELSE 0
        /\ \A i \in 1 .. n - (p + 1) + 1 : z[i] = s[(p + 1) + i - 1]
    BY <2>2, <2>3, SubSeqProperties
  <2> HIDE DEF x, z
  <2>6. Len(x) = p - 1 /\ Len(z) = n - p
    BY <1>1, <2>4, <2>5
  <2>7. ASSUME NEW i \in 1 .. p - 1 PROVE x[i] = s[i]
    <3>1. i \in 1 .. (p - 1) - 1 + 1 /\ 1 + i - 1 = i
      BY <1>1
    <3> QED  BY <2>4, <3>1
  <2>8. ASSUME NEW i \in 1 .. n - p PROVE z[i] = s[p + i]
    <3>1. i \in 1 .. n - (p + 1) + 1 /\ (p + 1) + i - 1 = p + i
      BY <1>1
    <3> QED  BY <2>5, <3>1
  <2> QED  BY <2>6, <2>7, <2>8
<1> HIDE DEF x, z, t, n
<1>5. PICK y : y = x \o <<e>> \o z
  OBVIOUS
<1>6. y \in Seq(S) /\ Joined(y, x, <<e>>, z)
  <2>0. x \in Seq(S) /\ <<e>> \in Seq(S) /\ z \in Seq(S)
    BY <1>3
  <2>1. Joined(x \o <<e>> \o z, x, <<e>>, z)
    BY ONLY <2>0, Three
  <2>2. x \o <<e>> \in Seq(S)
    BY ONLY <2>0, ConcatProperties
  <2>3. (x \o <<e>>) \o z \in Seq(S)
    BY ONLY <2>0, <2>2, ConcatProperties
  <2> QED  BY ONLY <1>5, <2>1, <2>3
<1>7. /\ DOMAIN y = 1 .. Len(x) + Len(<<e>>) + Len(z)
      /\ \A i \in 1 .. Len(x) : y[i] = x[i]
      /\ \A i \in 1 .. Len(<<e>>) : y[Len(x) + i] = <<e>>[i]
      /\ \A i \in 1 .. Len(z) : y[Len(x) + Len(<<e>>) + i] = z[i]
  BY <1>6 DEF Joined
<1>8. Len(<<e>>) = 1 /\ <<e>>[1] = e
  OBVIOUS
<1>9. DOMAIN y = 1 .. n
  <2>1. Len(x) + Len(<<e>>) + Len(z) = n
    BY <1>1, <1>4, <1>8
  <2> QED  BY <1>7, <2>1
<1>10. Len(y) = n
  <2>1. Len(y) \in Nat /\ DOMAIN y = 1 .. Len(y)
    BY ONLY <1>6, LenProperties
  <2> QED  BY <1>1, <1>9, <2>1
<1>11. ASSUME NEW i \in 1 .. n
       PROVE  t[i] = y[i]
  <2>1. CASE i < p
    <3>1. i \in 1 .. p - 1 /\ i \in 1 .. Len(x) /\ i # p
      BY <1>1, <1>4, <2>1
    <3> QED  BY <1>2, <1>4, <1>7, <3>1 DEF n
  <2>2. CASE i = p
    <3>1. i = Len(x) + 1 /\ 1 \in 1 .. Len(<<e>>)
      BY <1>1, <1>4, <1>8, <2>2
    <3>2. y[i] = e
      BY <1>7, <1>8, <3>1
    <3> QED  BY <1>2, <2>2, <3>2
  <2>3. CASE i > p
    <3>1. PICK j \in 1 .. n - p : i = p + j
      <4>1. i - p \in 1 .. n - p /\ i = p + (i - p)
        BY <1>1, <2>3
      <4> QED  BY <4>1
    <3>2. i = Len(x) + Len(<<e>>) + j /\ j \in 1 .. Len(z) /\ i # p
      BY <1>1, <1>4, <1>8, <3>1
    <3>3. y[i] = z[j] /\ z[j] = s[p + j]
      BY <1>4, <1>7, <3>2
    <3> QED  BY <1>2, <3>1, <3>2, <3>3
  <2> QED  BY <1>1, <2>1, <2>2, <2>3
<1>12. t = y
  <2>1. t \in Seq(S) /\ y \in Seq(S) /\ Len(t) = Len(y) /\ \A i \in 1 .. Len(t) : t[i] = y[i]
    BY <1>2, <1>6, <1>10, <1>11
  <2> QED  BY ONLY <2>1, SeqEqual
<1> QED  BY <1>5, <1>12 DEF t, x, z, n

(* Where the loops stop is where the file is taken apart. *)
LEMMA EditedIsSplice ==
    ASSUME PutInv, HasStart, ~SameValue, NEW p \in Start + 1 .. Len(file) + 1,
           \A j \in Start + 1 .. p - 1 : ~Stops(file[j]),
           p <= Len(file) => Stops(file[p])
    PROVE  /\ setting.key # None /\ p <= Len(file) /\ IsKey(file[p]) =>
                 Edited = Splice(p - 1, p + 1, Len(file))
           /\ setting.key # None /\ ~(p <= Len(file) /\ IsKey(file[p])) =>
                 Edited = Splice(p - 1, p, Len(file))
           /\ setting.key = None => Edited = Splice(Start - 1, p, Len(file))
<1>1. /\ Start \in Nat /\ p \in Nat /\ Len(file) \in Nat /\ Start < p
      /\ Start <= Len(file) /\ p <= Len(file) + 1
      /\ file \in Seq(PutLines)
  BY PutNumbers DEF HasStart
<1>2. SubSeq(file, 1, p - 1) \in Seq(PutLines)
      /\ SubSeq(file, 1, p - 1) \o SubSeq(file, p, Len(file)) = file
  <2>1. p \in 1 .. Len(file) + 1 /\ Len(file) \in p - 1 .. Len(file) /\ p - 1 \in 1 - 1 .. Len(file)
    BY <1>1
  <2>2. SubSeq(file, 1, p - 1) \o SubSeq(file, p, Len(file)) = SubSeq(file, 1, Len(file))
    BY <2>1, FileGrows
  <2>3. SubSeq(file, 1, Len(file)) = file
    BY <1>1, SubSeqFull
  <2>4. SubSeq(file, 1, p - 1) \in Seq(PutLines)
    <3>1. 1 \in 1 .. Len(file) + 1
      BY <1>1
    <3> QED  BY <1>1, <2>1, <3>1, NextPiece
  <2> QED  BY <2>2, <2>3, <2>4
<1>3. SubSeq(file, 1, p - 1) \o <<>> = SubSeq(file, 1, p - 1)
  BY <1>2, ConcatEmptySeq
<1>4. \A j \in Start + 1 .. p - 1 : ~Bracketed(file[j])
  BY DEF Stops
<1>5. ASSUME ~(p <= Len(file) /\ IsKey(file[p]))
      PROVE  SectionEnds = p
  <2>1. p <= Len(file) => Bracketed(file[p])
    BY <1>5 DEF Stops
  <2> QED  BY <1>4, <2>1, EndIs
<1>6. ASSUME setting.key # None, p <= Len(file), IsKey(file[p])
      PROVE  Edited = Splice(p - 1, p + 1, Len(file))
  <2>1. Old # {} /\ Min(Old) = p
    BY <1>6, OldIs
  <2>2. CASE Writes
    <3>1. Edited = [file EXCEPT ![p] = NewEntry]
      BY <2>1, <2>2, EditedBy
    <3>2. p \in 1 .. Len(file) /\ NewEntry \in PutLines
      BY <1>1, <1>6 DEF PutLines
    <3>3. [file EXCEPT ![p] = NewEntry]
             = SubSeq(file, 1, p - 1) \o <<NewEntry>> \o SubSeq(file, p + 1, Len(file))
      BY <1>1, <3>2, ExceptSplits
    <3> QED  BY <2>2, <3>1, <3>3 DEF Splice
  <2>3. CASE ~Writes
    <3>1. Edited = SubSeq(file, 1, p - 1) \o SubSeq(file, p + 1, Len(file))
      BY <1>6, <2>1, <2>3, EditedBy DEF RemoveAt
    <3> QED  BY <1>3, <2>3, <3>1 DEF Splice
  <2> QED  BY <2>2, <2>3
<1>7. ASSUME setting.key # None, ~(p <= Len(file) /\ IsKey(file[p]))
      PROVE  Edited = Splice(p - 1, p, Len(file))
  <2>1. Old = {}
    BY <1>7, OldIs
  <2>2. SectionEnds = p
    BY <1>5, <1>7
  <2>3. CASE Writes
    <3>1. Edited = SubSeq(file, 1, p - 1) \o <<NewEntry>> \o SubSeq(file, p, Len(file))
      BY <2>1, <2>2, <2>3, EditedBy DEF InsertAt
    <3> QED  BY <2>3, <3>1 DEF Splice
  <2>4. CASE ~Writes
    <3>1. Edited = file
      BY <1>7, <2>1, <2>4, EditedBy
    <3> QED  BY <1>2, <1>3, <2>4, <3>1 DEF Splice
  <2> QED  BY <2>3, <2>4
<1>8. ASSUME setting.key = None
      PROVE  Edited = Splice(Start - 1, p, Len(file))
  <2>1. ~Writes /\ SectionEnds = p
    <3>1. ~(p <= Len(file) /\ IsKey(file[p]))
      BY <1>8 DEF IsKey
    <3> QED  BY <1>5, <1>8, <3>1 DEF Writes
  <2>2. Edited = SubSeq(file, 1, Start - 1) \o SubSeq(file, p, Len(file))
    BY <1>8, <2>1, EditedBy
  <2>3. SubSeq(file, 1, Start - 1) \o <<>> = SubSeq(file, 1, Start - 1)
    <3>1. SubSeq(file, 1, Start - 1) \in Seq(PutLines)
      <4>1. CASE Start = 0
        <5>1. SubSeq(file, 1, Start - 1) = <<>>
          BY <4>1, SubSeqEmpty
        <5> QED  BY <5>1, EmptySeq
      <4>2. CASE Start # 0
        <5>1. Start - 1 \in 1 - 1 .. Len(file) /\ 1 \in 1 .. Len(file) + 1
          BY <1>1, <4>2
        <5> QED  BY <1>1, <5>1, NextPiece
      <4> QED  BY <4>1, <4>2
    <3> QED  BY <3>1, ConcatEmptySeq
  <2> QED  BY <2>1, <2>2, <2>3 DEF Splice
<1> QED  BY <1>6, <1>7, <1>8
-------------------------------------------------------------------------------
(* Steps                                                                   *)

(* What there is to show of a step that is not the last one *)
LEMMA StepInv ==
    ASSUME PutInv, UNCHANGED puts, PutTypeOK', out' \in Seq(PutLines),
           pc' \notin {"puts", "done"}, exists, ~SameValue,
           pc' = "putSearch" => PutSearching',
           pc' = "putFound" => PutFinding',
           pc' \in {"putKeys", "putKey"} => PutInside',
           pc' = "rest" => PutResuming'
    PROVE  PutInv'
<1>1. file' = file /\ PutLines' = PutLines /\ exists' = exists /\ SameValue' = SameValue
  BY PutInputsKept
<1>2. file \in Seq(Range(file))
  BY DEF PutInv
<1> QED  BY <1>1, <1>2 DEF PutInv

LEMMA TypesKept ==
    ASSUME PutInv, UNCHANGED puts, pc' \in PutPcs, wiped' \in BOOLEAN,
           rpos' \in 1 .. Len(file) + 1, mark' \in 1 .. Len(file) + 1,
           cachelen' \in 0 .. BufferSize - 1
    PROVE  PutTypeOK'
<1>1. file' = file /\ terminated' = terminated /\ exists' = exists
  BY PutInputsKept
<1>2. terminated \in BOOLEAN /\ exists \in BOOLEAN
  BY PutNumbers
<1> QED  BY <1>1, <1>2 DEF PutTypeOK

(* And of the last one *)
LEMMA LastStepInv ==
    ASSUME PutInv, NEW lines \in Seq(PutLines),
           UNCHANGED puts, PutTypeOK', pc' = "done", out' = lines,
           exists /\ ~LosesHeading =>
               \/ lines = Edited
               \/ /\ Writes
                  /\ \E added \in {<<NewEntry>>, NewHeading \o <<NewEntry>>} :
                        Edited = file \o added /\ lines = Append(file, Blank) \o added
    PROVE  PutInv'
<1>1. /\ file' = file /\ PutLines' = PutLines /\ exists' = exists
      /\ Writes' = Writes /\ NewEntry' = NewEntry /\ NewHeading' = NewHeading
      /\ Edited' = Edited /\ LosesHeading' = LosesHeading
  BY PutInputsKept
<1>2. file \in Seq(Range(file))
  BY DEF PutInv
<1>3. EditsOneKey'
  BY <1>1 DEF EditsOneKey
<1> QED  BY <1>1, <1>2, <1>3 DEF PutInv

LEMMA DoneInv ==
    ASSUME PutInv, NEW lines \in Seq(PutLines), Done(lines),
           exists /\ ~LosesHeading =>
               \/ lines = Edited
               \/ /\ Writes
                  /\ \E added \in {<<NewEntry>>, NewHeading \o <<NewEntry>>} :
                        Edited = file \o added /\ lines = Append(file, Blank) \o added
    PROVE  PutInv'
<1>1. /\ pc' = "done" /\ out' = lines /\ UNCHANGED puts
      /\ rpos' = rpos /\ mark' = mark /\ cachelen' = cachelen /\ wiped' = wiped
  BY DEF Done
<1>2. file' = file /\ terminated' = terminated /\ exists' = exists
  BY <1>1, PutInputsKept
<1>3. PutTypeOK'
  BY <1>1, <1>2, PutNumbers DEF PutTypeOK, PutPcs
<1> QED  BY <1>1, <1>3, LastStepInv

(* The line that is written, with its heading or without *)
LEMMA Added ==
    ASSUME NEW s \in Seq(PutLines)
    PROVE  /\ <<NewEntry>> \in Seq(PutLines)
           /\ NewHeading \o <<NewEntry>> \in Seq(PutLines)
           /\ NewHeading \in Seq(PutLines)
           /\ Append(s, Blank) \in Seq(PutLines)
           /\ s \o NewHeading \o <<NewEntry>> = s \o (NewHeading \o <<NewEntry>>)
           /\ s \o <<NewEntry>> \in Seq(PutLines)
           /\ s \o (NewHeading \o <<NewEntry>>) \in Seq(PutLines)
<1>1. NewEntry \in PutLines /\ Blank \in PutLines /\ Heading(setting.section, FALSE) \in PutLines
  BY DEF PutLines
<1>2. <<NewEntry>> \in Seq(PutLines) /\ <<Heading(setting.section, FALSE)>> \in Seq(PutLines)
  <2>1. \A line \in PutLines : <<line>> \in Seq(PutLines)
    OBVIOUS
  <2> QED  BY ONLY <1>1, <2>1, Zenon
<1>3. NewHeading \in Seq(PutLines)
  BY <1>2, EmptySeq DEF NewHeading
<1>4. Append(s, Blank) \in Seq(PutLines)
  BY <1>1, AppendProperties
<1> DEFINE e == <<NewEntry>>
<1>5. s \in Seq(PutLines) /\ NewHeading \in Seq(PutLines) /\ e \in Seq(PutLines)
  BY <1>2, <1>3
<1> HIDE DEF e
<1>6. NewHeading \o e \in Seq(PutLines) /\ s \o e \in Seq(PutLines)
  BY ONLY <1>5, ConcatProperties
<1>7. (s \o NewHeading) \o e = s \o (NewHeading \o e)
  BY ONLY <1>5, ConcatAssociative, SMTT(30)
<1>8. s \o (NewHeading \o e) \in Seq(PutLines)
  BY ONLY <1>5, <1>6, ConcatProperties
<1> QED  BY <1>2, <1>3, <1>4, <1>6, <1>7, <1>8 DEF e

LEMMA NewFileInv ==
    ASSUME PutInv, NewFile
    PROVE  PutInv'
<1>1. ~exists /\ Done(IF Writes THEN NewHeading \o <<NewEntry>> ELSE <<>>)
  BY DEF NewFile
<1>2. (IF Writes THEN NewHeading \o <<NewEntry>> ELSE <<>>) \in Seq(PutLines)
  BY Added, EmptySeq
<1> QED  BY <1>1, <1>2, DoneInv

LEMMA KeepValueInv ==
    ASSUME PutInv, KeepValue
    PROVE  PutInv'
<1>1. SameValue /\ Done(file)
  BY DEF KeepValue
<1>2. Edited = file
  BY <1>1 DEF Edited, SameValue
<1>3. file \in Seq(PutLines)
  BY PutNumbers
<1> QED  BY <1>1, <1>2, <1>3, DoneInv

LEMMA RewriteInPlaceInv ==
    ASSUME PutInv, RewriteInPlace
    PROVE  PutInv'
<1> DEFINE lines == [file EXCEPT ![Min(Old)] = NewEntry]
<1>1. ~SameValue /\ Writes /\ Old # {} /\ Done(lines)
  BY DEF RewriteInPlace, SameLength
<1>2. Edited = lines
  BY <1>1 DEF Edited
<1>3. lines \in Seq(PutLines)
  <2>1. file \in Seq(PutLines) /\ DOMAIN file = 1 .. Len(file) /\ NewEntry \in PutLines
    BY PutNumbers DEF PutLines
  <2>2. CASE Min(Old) \in 1 .. Len(file)
    BY <2>1, <2>2, ExceptSeq
  <2>3. CASE Min(Old) \notin 1 .. Len(file)
    <3>1. lines = [j \in DOMAIN file |-> file[j]]
      BY <2>1, <2>3
    <3>2. file = [j \in DOMAIN file |-> file[j]]
      BY <2>1, LenProperties
    <3> QED  BY <2>1, <3>1, <3>2
  <2> QED  BY <2>2, <2>3
<1> QED  BY <1>1, <1>2, <1>3, DoneInv

LEMMA OpenCopyInv ==
    ASSUME PutInv, OpenCopy
    PROVE  PutInv'
<1>1. /\ pc = "puts" /\ exists /\ ~SameValue
      /\ pc' = IF setting.section = None THEN "putFound" ELSE "putSearch"
      /\ UNCHANGED puts /\ out' = out /\ wiped' = wiped
      /\ rpos' = rpos /\ mark' = mark /\ cachelen' = cachelen
  BY DEF OpenCopy
<1>2. out = <<>> /\ mark = 1 /\ cachelen = 0 /\ rpos = 1
  BY <1>1 DEF PutInv
<1>3. /\ file' = file /\ setting' = setting /\ terminated' = terminated
      /\ exists' = exists /\ HasStart' = HasStart /\ Start' = Start
  BY <1>1, PutInputsKept
<1>4. PutTypeOK'
  BY <1>1, <1>3, PutNumbers DEF PutTypeOK, PutPcs
<1>5. out = SubSeq(file, 1, mark - 1)
  BY <1>2, SubSeqEmpty
<1>6. CASE setting.section = None
  <2>1. HasStart /\ Start = 0
    BY <1>6, StartIsNone
  <2>2. PutFinding'
    BY <1>1, <1>2, <1>3, <1>5, <2>1, PutNumbers DEF PutFinding
  <2> QED  BY <1>1, <1>4, <1>6, <2>2, PutNumbers, StepInv
<1>7. CASE setting.section # None
  <2>1. PutSearching'
    BY <1>1, <1>2, <1>3, <1>5, <1>7 DEF PutSearching
  <2> QED  BY <1>1, <1>4, <1>7, <2>1, PutNumbers, StepInv
<1> QED  BY <1>6, <1>7

(* As long as everything is copied or accumulated, a flush copies the file *)
(* as far as it was accumulated ...                                        *)
LEMMA Flushes ==
    ASSUME PutInv, mark + cachelen <= Len(file) + 1, out = SubSeq(file, 1, mark - 1)
    PROVE  /\ out \o Cached = SubSeq(file, 1, mark + cachelen - 1)
           /\ out \o Cached \in Seq(PutLines)
<1>1. PICK n \in mark - 1 .. Len(file) : n = mark + cachelen - 1
  <2>1. mark + cachelen - 1 \in mark - 1 .. Len(file)
    BY PutNumbers
  <2> QED  BY <2>1
<1>2. Cached = SubSeq(file, mark, n)
  BY ONLY <1>1 DEF Cached
<1>3. /\ SubSeq(file, 1, mark - 1) \o SubSeq(file, mark, n) = SubSeq(file, 1, n)
      /\ SubSeq(file, 1, n) \in Seq(PutLines)
  BY PutNumbers, FileGrows
<1> QED  BY <1>1, <1>2, <1>3

(* ... and accumulating a line, with a flush before it or not, leaves it   *)
(* that way.                                                               *)
LEMMA PutAccumulates ==
    ASSUME PutInv, Accumulate, mark + cachelen <= Len(file), out = SubSeq(file, 1, mark - 1)
    PROVE  \E c \in 0 .. BufferSize - 1, m \in mark .. Len(file) :
               /\ cachelen' = c /\ mark' = m
               /\ m + c = mark + cachelen + 1
               /\ out' = SubSeq(file, 1, m - 1) /\ out' \in Seq(PutLines)
<1>1. PICK c \in 0 .. BufferSize - 1, m \in mark .. Len(file) :
               /\ cachelen' = c /\ mark' = m
               /\ m + c = mark + cachelen + 1
               /\ \/ m = mark /\ out' = out
                  \/ m = mark + cachelen /\ out' = out \o Cached
  BY PutNumbers, Accumulates
<1>2. out' = SubSeq(file, 1, m - 1) /\ out' \in Seq(PutLines)
  <2>1. CASE m = mark /\ out' = out
    BY <2>1, PutNumbers
  <2>2. CASE m = mark + cachelen /\ out' = out \o Cached
    <3>1. mark + cachelen <= Len(file) + 1
      BY PutNumbers
    <3>2. /\ out \o Cached = SubSeq(file, 1, mark + cachelen - 1)
          /\ out \o Cached \in Seq(PutLines)
      BY <3>1, Flushes
    <3>3. m - 1 = mark + cachelen - 1
      BY <2>2, PutNumbers
    <3> QED  BY ONLY <2>2, <3>2, <3>3
  <2> QED  BY <1>1, <2>1, <2>2
<1> QED  BY <1>1, <1>2

LEMMA PutSearchLineInv ==
    ASSUME PutInv, PutSearchLine
    PROVE  PutInv'
<1>1. /\ pc = "putSearch" /\ UNCHANGED puts
      /\ rpos' = rpos + 1 /\ wiped' = FALSE
      /\ pc' = IF Matches(file[rpos]) THEN "putFound" ELSE pc
  BY DEF PutSearchLine, ReadLine
<1>2. rpos <= Len(file)
  BY PutNumbers DEF PutSearchLine, AtEnd
<1>3. /\ exists /\ ~SameValue
      /\ setting.section # None /\ rpos = mark + cachelen /\ out = SubSeq(file, 1, mark - 1)
      /\ \A j \in 1 .. rpos - 1 : ~Matches(file[j])
  BY <1>1 DEF PutInv, PutSearching
<1>4. /\ file' = file /\ setting' = setting /\ terminated' = terminated
      /\ exists' = exists /\ HasStart' = HasStart /\ Start' = Start
  BY <1>1, PutInputsKept
<1>5. rpos + 1 \in 1 .. Len(file) + 1 /\ rpos \in 1 .. Len(file)
  BY <1>2, PutNumbers
<1>6. CASE Matches(file[rpos]) /\ setting.key = None
  <2>1. pc' = "putFound" /\ mark' = mark /\ cachelen' = cachelen /\ out' = out
    BY <1>1, <1>6 DEF PutSearchLine
  <2>2. HasStart /\ Start = rpos
    BY <1>3, <1>5, <1>6, StartIs
  <2>3. PutTypeOK'
    BY <1>1, <1>4, <1>5, <2>1, PutNumbers DEF PutTypeOK, PutPcs
  <2>4. PutFinding'
    <3>1. mark + cachelen <= Len(file) + 1 /\ Start # 0 /\ mark + cachelen = Start
      BY <1>3, <1>5, <2>2, PutNumbers
    <3> QED  BY <1>3, <1>4, <1>6, <2>1, <2>2, <3>1 DEF PutFinding
  <2> QED  BY <1>1, <1>3, <2>1, <2>3, <2>4, PutNumbers, StepInv
<1>7. CASE ~(Matches(file[rpos]) /\ setting.key = None)
  <2>1. Accumulate
    BY <1>7 DEF PutSearchLine
  <2>2. PICK c \in 0 .. BufferSize - 1, m \in mark .. Len(file) :
               /\ cachelen' = c /\ mark' = m
               /\ m + c = mark + cachelen + 1
               /\ out' = SubSeq(file, 1, m - 1) /\ out' \in Seq(PutLines)
    BY <1>2, <1>3, <2>1, PutAccumulates
  <2>3. m \in 1 .. Len(file) + 1 /\ m + c = rpos + 1
    <3>1. rpos = mark + cachelen /\ m + c = mark + cachelen + 1
      BY <1>3, <2>2
    <3> QED  BY ONLY <3>1, PutInv, PutRanges, m \in mark .. Len(file), c \in 0 .. BufferSize - 1
  <2>4. PutTypeOK'
    BY <1>1, <1>4, <1>5, <2>2, <2>3, PutNumbers DEF PutTypeOK, PutPcs
  <2>5. CASE Matches(file[rpos])
    <3>1. HasStart /\ Start = rpos
      BY <1>3, <1>5, <2>5, StartIs
    <3>2. setting.key # None
      BY <1>7, <2>5
    <3>3. PutFinding'
      <4>1. m + c = Start + 1 /\ m + c <= Len(file) + 1
        BY <1>5, <2>3, <3>1
      <4> QED  BY <1>4, <2>2, <3>1, <3>2, <4>1 DEF PutFinding
    <3> QED  BY <1>1, <1>3, <2>2, <2>4, <2>5, <3>3, StepInv
  <2>6. CASE ~Matches(file[rpos])
    <3>1. \A j \in 1 .. rpos + 1 - 1 : ~Matches(file[j])
      <4>1. \A j \in 1 .. rpos + 1 - 1 : j \in 1 .. rpos - 1 \/ j = rpos
        BY <1>5
      <4> QED  BY <1>3, <2>6, <4>1
    <3>2. PutSearching'
      BY <1>1, <1>3, <1>4, <2>2, <2>3, <3>1 DEF PutSearching
    <3> QED  BY <1>1, <1>3, <2>2, <2>4, <2>6, <3>2, StepInv
  <2> QED  BY <2>5, <2>6
<1> QED  BY <1>6, <1>7

(* What is written when the loops reach the end of the file: all of it,    *)
(* and what was missing.                                                   *)
LEMMA EndedIs ==
    ASSUME PutInv
    PROVE  Ended(file) \in {file, Append(file, Blank)}
  BY DEF Ended

LEMMA FlushedAtEnd ==
    ASSUME PutInv, AtEnd, rpos = mark + cachelen, out = SubSeq(file, 1, mark - 1)
    PROVE  out \o Cached = file
<1>1. mark + cachelen - 1 = Len(file) /\ mark + cachelen <= Len(file) + 1
  BY PutNumbers DEF AtEnd
<1>2. out \o Cached = SubSeq(file, 1, mark + cachelen - 1)
  BY <1>1, Flushes
<1>3. SubSeq(file, 1, Len(file)) = file
  BY PutNumbers, SubSeqFull
<1> QED  BY ONLY <1>1, <1>2, <1>3

LEMMA PutSearchEndInv ==
    ASSUME PutInv, PutSearchEnd
    PROVE  PutInv'
<1> DEFINE heading == NewHeading \o <<NewEntry>>
           lines == IF Writes THEN Ended(out \o Cached) \o NewHeading \o <<NewEntry>>
                    ELSE out \o Cached
<1>1. pc = "putSearch" /\ AtEnd /\ Done(lines)
  BY DEF PutSearchEnd
<1>2. /\ exists /\ ~SameValue
      /\ setting.section # None /\ rpos = mark + cachelen /\ out = SubSeq(file, 1, mark - 1)
      /\ \A j \in 1 .. rpos - 1 : ~Matches(file[j])
  BY <1>1 DEF PutInv, PutSearching
<1>3. out \o Cached = file
  BY <1>1, <1>2, FlushedAtEnd
<1>4. \A j \in 1 .. Len(file) : ~Matches(file[j])
  <2>1. ~(rpos <= Len(file)) /\ \A j \in 1 .. rpos - 1 : ~Matches(file[j])
    BY <1>1, <1>2 DEF AtEnd
  <2>2. rpos - 1 = Len(file)
    <3>1. ~(rpos <= Len(file))
      BY <2>1
    <3> QED  BY ONLY <3>1, PutInv, PutRanges
  <2> QED  BY <2>1, <2>2
<1>5. Edited = IF Writes THEN file \o NewHeading \o <<NewEntry>> ELSE file
  BY <1>2, <1>4, EditedNoSection
<1>6. file \in Seq(PutLines) /\ Append(file, Blank) \in Seq(PutLines)
  BY PutNumbers, Added
<1>7. CASE Writes
  <2>1. \A s \in Seq(PutLines) : /\ s \o NewHeading \o <<NewEntry>> = s \o heading
                                 /\ s \o heading \in Seq(PutLines)
    BY Added
  <2>2. lines = Ended(file) \o NewHeading \o <<NewEntry>>
    BY <1>3, <1>7
  <2>3. lines = file \o heading \/ lines = Append(file, Blank) \o heading
    BY <1>6, <2>1, <2>2, EndedIs
  <2>4. lines \in Seq(PutLines) /\ Edited = file \o heading
    BY <1>5, <1>6, <1>7, <2>1, <2>3
  <2> HIDE DEF heading, lines
  <2>5. \/ lines = Edited
        \/ Edited = file \o heading /\ lines = Append(file, Blank) \o heading
    BY ONLY <2>3, <2>4
  <2> QED  BY <1>1, <1>7, <2>4, <2>5, DoneInv DEF heading
<1>8. CASE ~Writes
  <2>1. lines = Edited /\ lines \in Seq(PutLines)
    BY <1>3, <1>5, <1>6, <1>8
  <2> QED  BY <1>1, <2>1, DoneInv
<1> QED  BY <1>7, <1>8

(* The heading is copied, or it is skipped. *)
LEMMA PutFoundInv ==
    ASSUME PutInv, PutFound
    PROVE  PutInv'
<1> DEFINE next == mark + cachelen
<1>1. /\ pc = "putFound" /\ pc' = "putKeys" /\ UNCHANGED puts /\ wiped' = wiped
      /\ out' = out \o Cached /\ cachelen' = 0 /\ mark' = rpos'
      /\ rpos' = IF setting.key = None /\ next <= Len(file) THEN next + 1 ELSE next
  BY DEF PutFound
<1>2. /\ exists /\ ~SameValue
      /\ HasStart /\ next <= Len(file) + 1
      /\ out = SubSeq(file, 1, mark - 1)
      /\ setting.key # None => next = Start + 1
      /\ setting.key = None => next = IF Start = 0 THEN 1 ELSE Start
  BY <1>1 DEF PutInv, PutFinding
<1>3. /\ file' = file /\ setting' = setting /\ terminated' = terminated
      /\ exists' = exists /\ HasStart' = HasStart /\ Start' = Start
      /\ LosesHeading' = LosesHeading /\ \A line : Stops(line)' = Stops(line)
  BY <1>1, PutInputsKept
<1>4. out' = SubSeq(file, 1, next - 1) /\ out' \in Seq(PutLines)
  <2>1. /\ out \o Cached = SubSeq(file, 1, mark + cachelen - 1)
        /\ out \o Cached \in Seq(PutLines)
    BY <1>2, Flushes
  <2>2. next - 1 = mark + cachelen - 1
    BY PutNumbers
  <2> HIDE DEF next
  <2> QED  BY ONLY <1>1, <2>1, <2>2
<1>5. Start \in 0 .. Len(file) /\ Len(file) \in Nat
  BY <1>2, PutNumbers DEF HasStart
<1>6. next \in Nat
  BY PutNumbers
<1> HIDE DEF next
<1>7. CASE setting.key # None
  <2>1. /\ rpos' = next /\ mark' = next /\ next = Start + 1
        /\ next \in 1 .. Len(file) + 1 /\ Start < next /\ next + 0 = next
    BY <1>1, <1>2, <1>5, <1>7
  <2>2. PutTypeOK'
    BY <1>1, <1>3, <2>1, PutNumbers DEF PutTypeOK, PutPcs
  <2>3. \A j \in Start + 1 .. next + 0 - 1 : ~Stops(file[j])
    BY <1>5, <2>1
  <2>4. PutInside'
    BY <1>1, <1>2, <1>3, <1>4, <1>7, <2>1, <2>3 DEF PutInside
  <2> QED  BY <1>1, <1>2, <1>4, <2>2, <2>4, StepInv
<1>8. CASE setting.key = None
  <2>1. out' = SubSeq(file, 1, Start - 1)
    <3>1. CASE Start = 0
      <4>1. SubSeq(file, 1, next - 1) = <<>> /\ SubSeq(file, 1, Start - 1) = <<>>
        BY <1>2, <1>8, <3>1, SubSeqEmpty
      <4> QED  BY <1>4, <4>1
    <3>2. CASE Start # 0
      <4>1. next = Start
        BY <1>2, <1>8, <3>2
      <4> QED  BY <1>4, <4>1
    <3> QED  BY <3>1, <3>2
  <2>2. PICK r \in 1 .. Len(file) + 1 :
           /\ rpos' = r /\ mark' = r /\ Start < r
           /\ r = Start + 1 \/ (Start = 0 /\ r = 2 /\ Len(file) >= 1)
    <3>1. CASE next <= Len(file)
      <4>1. /\ next + 1 \in 1 .. Len(file) + 1 /\ Start < next + 1
            /\ next + 1 = Start + 1 \/ (Start = 0 /\ next + 1 = 2 /\ Len(file) >= 1)
        BY <1>2, <1>5, <1>6, <1>8, <3>1
      <4>2. rpos' = next + 1 /\ mark' = next + 1
        BY <1>1, <1>8, <3>1
      <4> QED  BY <4>1, <4>2
    <3>2. CASE ~(next <= Len(file))
      <4>1. next \in 1 .. Len(file) + 1 /\ Start = 0 /\ next = Start + 1
        BY <1>2, <1>5, <1>6, <1>8, <3>2
      <4>2. rpos' = next /\ mark' = next
        BY <1>1, <3>2
      <4> QED  BY <4>1, <4>2
    <3> QED  BY <3>1, <3>2
  <2>3. ASSUME ~LosesHeading
        PROVE  \A j \in Start + 1 .. r + 0 - 1 : ~Stops(file[j])
    <3> SUFFICES ASSUME NEW j \in Start + 1 .. r + 0 - 1 PROVE ~Stops(file[j])
      OBVIOUS
    <3>1. Start = 0 /\ j = 1 /\ Len(file) >= 1
      BY <1>5, <2>2
    <3>2. setting.section = None
      BY <1>2, <3>1 DEF HasStart
    <3>3. file # <<>>
      BY <3>1, EmptySeq
    <3>4. ~Bracketed(file[1])
      BY <1>8, <2>3, <3>2, <3>3 DEF LosesHeading
    <3> QED  BY <1>8, <3>1, <3>4 DEF Stops, IsKey
  <2>4. PutTypeOK'
    BY <1>1, <1>3, <2>2, PutNumbers DEF PutTypeOK, PutPcs
  <2>5. PutInside'
    <3>1. r = r + 0
      BY <2>2
    <3> QED  BY <1>1, <1>2, <1>3, <1>8, <2>1, <2>2, <2>3, <3>1 DEF PutInside
  <2> QED  BY <1>1, <1>2, <1>4, <2>4, <2>5, StepInv
<1> QED  BY <1>7, <1>8

LEMMA PutKeyLineInv ==
    ASSUME PutInv, PutKeyLine
    PROVE  PutInv'
<1>1. /\ pc = "putKeys" /\ UNCHANGED puts
      /\ rpos' = rpos + 1 /\ wiped' = FALSE /\ buffer' = file[rpos]
  BY DEF PutKeyLine, ReadLine
<1>2. rpos <= Len(file)
  BY PutNumbers DEF PutKeyLine, AtEnd
<1>3. /\ exists /\ ~SameValue
      /\ HasStart /\ Start < mark /\ rpos = mark + cachelen
      /\ setting.key # None => out = SubSeq(file, 1, mark - 1)
      /\ setting.key = None => cachelen = 0 /\ out = SubSeq(file, 1, Start - 1)
      /\ ~LosesHeading => \A j \in Start + 1 .. mark + cachelen - 1 : ~Stops(file[j])
  BY <1>1 DEF PutInv, PutInside
<1>4. /\ file' = file /\ setting' = setting /\ terminated' = terminated
      /\ exists' = exists /\ HasStart' = HasStart /\ Start' = Start
      /\ LosesHeading' = LosesHeading /\ \A line : Stops(line)' = Stops(line)
  BY <1>1, PutInputsKept
<1>5. rpos + 1 \in 1 .. Len(file) + 1 /\ mark + cachelen <= Len(file) /\ Start \in Nat
  <2>1. rpos <= Len(file) /\ rpos = mark + cachelen
    BY <1>2, <1>3
  <2>2. Start \in Nat
    <3>1. HasStart
      BY <1>3
    <3> QED  BY ONLY <3>1, PutInv, PutRanges DEF HasStart
  <2> QED  BY ONLY <2>1, <2>2, PutInv, PutRanges
<1>6. CASE Stops(file[rpos])
  <2>1. pc' = "putKey" /\ mark' = mark /\ cachelen' = cachelen /\ out' = out
    BY <1>6 DEF PutKeyLine, Stops
  <2>2. PutTypeOK'
    BY <1>1, <1>4, <1>5, <2>1, PutNumbers DEF PutTypeOK, PutPcs
  <2>3. PutInside'
    BY <1>1, <1>3, <1>4, <1>5, <1>6, <2>1 DEF PutInside
  <2> QED  BY <1>1, <1>3, <2>1, <2>2, <2>3, PutNumbers, StepInv
<1>7. CASE ~Stops(file[rpos])
  <2>1. /\ pc' = "putKeys"
        /\ setting.key = None => mark' = rpos' /\ cachelen' = cachelen /\ out' = out
        /\ setting.key # None => Accumulate
    BY <1>1, <1>7 DEF PutKeyLine, Stops
  <2>2. ASSUME ~LosesHeading
        PROVE  \A j \in Start + 1 .. (rpos + 1) - 1 : ~Stops(file[j])
    <3>1. \A j \in Start + 1 .. (rpos + 1) - 1 : j \in Start + 1 .. mark + cachelen - 1 \/ j = rpos
      <4>1. rpos = mark + cachelen /\ Start \in Nat /\ rpos <= Len(file)
        BY <1>2, <1>3, <1>5
      <4> QED  BY ONLY <4>1, PutInv, PutRanges
    <3> QED  BY <1>3, <1>7, <2>2, <3>1
  <2>3. CASE setting.key = None
    <3>1. mark' = rpos + 1 /\ cachelen' = 0 /\ out' = out
      BY <1>1, <1>3, <2>1, <2>3
    <3>2. PutTypeOK'
      <4>1. rpos' \in 1 .. Len(file) + 1 /\ mark' \in 1 .. Len(file) + 1 /\ wiped' \in BOOLEAN
        BY <1>1, <1>5, <3>1
      <4>2. pc' \in PutPcs /\ cachelen' \in 0 .. BufferSize - 1
        BY <2>1, <3>1, PutNumbers DEF PutPcs
      <4> QED  BY <1>1, <4>1, <4>2, TypesKept
    <3>3. Start < rpos + 1 /\ (rpos + 1) + 0 = rpos + 1
      BY <1>3, <1>5, PutNumbers
    <3>4. PutInside'
      BY <1>1, <1>3, <1>4, <2>1, <2>2, <2>3, <3>1, <3>3 DEF PutInside
    <3> QED  BY <1>1, <1>3, <2>1, <3>1, <3>2, <3>4, PutNumbers, StepInv
  <2>4. CASE setting.key # None
    <3>1. PICK c \in 0 .. BufferSize - 1, m \in mark .. Len(file) :
               /\ cachelen' = c /\ mark' = m
               /\ m + c = mark + cachelen + 1
               /\ out' = SubSeq(file, 1, m - 1) /\ out' \in Seq(PutLines)
      BY <1>3, <1>5, <2>1, <2>4, PutAccumulates
    <3>2. m \in 1 .. Len(file) + 1 /\ m + c = rpos + 1 /\ Start < m
      <4>1. rpos = mark + cachelen /\ Start < mark /\ m + c = mark + cachelen + 1
        BY <1>3, <3>1
      <4>2. /\ Start \in Nat /\ Len(file) \in Nat /\ mark \in 1 .. Len(file) + 1
            /\ cachelen \in Nat
        BY <1>5, PutNumbers
      <4> QED  BY ONLY <4>1, <4>2, m \in mark .. Len(file), c \in 0 .. BufferSize - 1
    <3>3. PutTypeOK'
      <4>1. rpos' \in 1 .. Len(file) + 1 /\ wiped' \in BOOLEAN
        BY <1>1, <1>5
      <4>2. pc' \in PutPcs
        BY <2>1 DEF PutPcs
      <4>3. mark' \in 1 .. Len(file) + 1 /\ cachelen' \in 0 .. BufferSize - 1
        BY <3>1, <3>2
      <4> QED  BY <1>1, <4>1, <4>2, <4>3, TypesKept
    <3>4. m + c - 1 = (rpos + 1) - 1
      BY <3>1, <3>2, PutNumbers
    <3>5. PutInside'
      BY <1>1, <1>3, <1>4, <2>1, <2>2, <2>4, <3>1, <3>2, <3>4 DEF PutInside
    <3> QED  BY <1>1, <1>3, <2>1, <3>1, <3>3, <3>5, StepInv
  <2> QED  BY <2>3, <2>4
<1> QED  BY <1>6, <1>7

(* The section goes on to the end of the file; the line is added there. *)
LEMMA PutKeysEndInv ==
    ASSUME PutInv, PutKeysEnd
    PROVE  PutInv'
<1> DEFINE lines == IF Writes THEN Ended(out \o Cached) \o <<NewEntry>> ELSE out \o Cached
<1>1. pc = "putKeys" /\ AtEnd /\ Done(lines)
  BY DEF PutKeysEnd
<1>2. /\ exists /\ ~SameValue
      /\ HasStart /\ Start < mark /\ rpos = mark + cachelen
      /\ setting.key # None => out = SubSeq(file, 1, mark - 1)
      /\ setting.key = None => cachelen = 0 /\ out = SubSeq(file, 1, Start - 1)
      /\ ~LosesHeading => \A j \in Start + 1 .. mark + cachelen - 1 : ~Stops(file[j])
  BY <1>1 DEF PutInv, PutInside
<1>3. PICK p \in Start + 1 .. Len(file) + 1 :
           /\ p = Len(file) + 1 /\ ~(p <= Len(file))
           /\ p - 1 = mark + cachelen - 1 /\ p - 1 = Len(file)
  <2>1. /\ Len(file) + 1 \in Start + 1 .. Len(file) + 1 /\ ~(Len(file) + 1 <= Len(file))
        /\ Len(file) + 1 - 1 = mark + cachelen - 1 /\ (Len(file) + 1) - 1 = Len(file)
    <3>1. Start < mark /\ rpos = mark + cachelen /\ ~(rpos <= Len(file))
      BY <1>1, <1>2 DEF AtEnd
    <3>2. Start \in 0 .. Len(file)
      <4>1. HasStart
        BY <1>2
      <4> QED  BY ONLY <4>1, PutInv, PutRanges DEF HasStart
    <3> QED  BY ONLY <3>1, <3>2, PutInv, PutRanges
  <2> QED  BY <2>1
<1>4. file \in Seq(PutLines) /\ SubSeq(file, 1, Len(file)) = file /\ SubSeq(file, p, Len(file)) = <<>>
  <2>1. Len(file) < p /\ p \in Int /\ Len(file) \in Int
    BY <1>3, PutNumbers
  <2> QED  BY <2>1, PutNumbers, SubSeqFull, SubSeqEmpty
<1>5. CASE setting.key # None
  <2>1. out \o Cached = file
    BY <1>1, <1>2, <1>5, FlushedAtEnd
  <2>2. ~LosesHeading
    BY <1>5 DEF LosesHeading
  <2>3. Edited = Splice(p - 1, p, Len(file))
    BY <1>2, <1>3, <1>5, <2>2, EditedIsSplice
  <2>4. CASE Writes
    <3>1. file \o <<NewEntry>> \in Seq(PutLines)
          /\ Append(file, Blank) \o <<NewEntry>> \in Seq(PutLines)
      <4>1. Append(file, Blank) \in Seq(PutLines)
        BY <1>4, Added
      <4> QED  BY <1>4, <4>1, Added
    <3>2. Edited = file \o <<NewEntry>> \o <<>>
      BY <1>3, <1>4, <2>3, <2>4 DEF Splice
    <3>3. Edited = file \o <<NewEntry>>
      BY <3>1, <3>2, ConcatEmptySeq
    <3>4. lines = file \o <<NewEntry>> \/ lines = Append(file, Blank) \o <<NewEntry>>
      BY <2>1, <2>4, EndedIs
    <3>5. lines \in Seq(PutLines)
      BY ONLY <3>1, <3>4
    <3> HIDE DEF lines
    <3> QED  BY <1>1, <2>4, <3>3, <3>4, <3>5, DoneInv
  <2>5. CASE ~Writes
    <3>1. Edited = file \o <<>> \o <<>>
      BY <1>3, <1>4, <2>3, <2>5 DEF Splice
    <3>2. file \o <<>> = file
      BY <1>4, ConcatEmptySeq
    <3>3. lines = file /\ Edited = file
      BY <2>1, <2>5, <3>1, <3>2
    <3> QED  BY <1>1, <1>4, <3>3, DoneInv
  <2> QED  BY <2>4, <2>5
<1>6. CASE setting.key = None
  <2>1. ~Writes /\ cachelen = 0 /\ out = SubSeq(file, 1, Start - 1)
    BY <1>2, <1>6 DEF Writes
  <2>2. out \in Seq(PutLines)
    BY PutNumbers
  <2>3. Cached = <<>>
    <3>1. mark + cachelen - 1 < mark /\ mark + cachelen - 1 \in Int /\ mark \in Int
      BY <2>1, PutNumbers
    <3> QED  BY <3>1, SubSeqEmpty DEF Cached
  <2>4. out \o <<>> = out
    BY <2>2, ConcatEmptySeq
  <2>5. lines = out
    BY <2>1, <2>3, <2>4
  <2>6. ASSUME ~LosesHeading
        PROVE  Edited = out
    <3>1. Edited = Splice(Start - 1, p, Len(file))
      BY <1>2, <1>3, <1>6, <2>6, EditedIsSplice
    <3> QED  BY <1>4, <2>1, <2>4, <3>1 DEF Splice
  <2> QED  BY <1>1, <2>2, <2>5, <2>6, DoneInv
<1> QED  BY <1>5, <1>6

(* The file is taken apart at the line the loop stopped at. *)
LEMMA PutKeyInv ==
    ASSUME PutInv, PutKey
    PROVE  PutInv'
<1> DEFINE new == IF Writes THEN <<NewEntry>> ELSE <<>>
<1>1. /\ pc = "putKey" /\ pc' = "rest" /\ UNCHANGED puts /\ wiped' = FALSE
      /\ out' = out \o Cached \o new
      /\ rpos' = mark + cachelen + 1
      /\ cachelen' = IF Bracketed(buffer) THEN 1 ELSE 0
      /\ mark' = IF Bracketed(buffer) THEN mark + cachelen ELSE rpos'
  BY DEF PutKey, ReadLine
<1>2. /\ exists /\ ~SameValue
      /\ HasStart /\ Start < mark
      /\ setting.key # None => out = SubSeq(file, 1, mark - 1)
      /\ setting.key = None => cachelen = 0 /\ out = SubSeq(file, 1, Start - 1)
      /\ ~LosesHeading => \A j \in Start + 1 .. mark + cachelen - 1 : ~Stops(file[j])
      /\ mark + cachelen <= Len(file)
      /\ buffer = file[mark + cachelen] /\ Stops(buffer)
  BY <1>1 DEF PutInv, PutInside
<1>3. /\ file' = file /\ setting' = setting /\ terminated' = terminated
      /\ exists' = exists /\ HasStart' = HasStart /\ Start' = Start
      /\ LosesHeading' = LosesHeading /\ Edited' = Edited
      /\ \A a, b, n : Splice(a, b, n)' = Splice(a, b, n)
  BY <1>1, PutInputsKept
<1>4. PICK p \in Start + 1 .. Len(file) :
           p = mark + cachelen /\ p - 1 = mark + cachelen - 1
  <2>1. mark + cachelen \in Start + 1 .. Len(file) /\ (mark + cachelen) - 1 = mark + cachelen - 1
    <3>1. Start < mark /\ mark + cachelen <= Len(file)
      BY <1>2
    <3>2. Start \in 0 .. Len(file)
      <4>1. HasStart
        BY <1>2
      <4> QED  BY ONLY <4>1, PutInv, PutRanges DEF HasStart
    <3> QED  BY ONLY <3>1, <3>2, PutInv, PutRanges
  <2> QED  BY <2>1
<1>5. /\ p \in Start + 1 .. Len(file) + 1 /\ p <= Len(file) /\ p \in Nat /\ p >= 1
      /\ Start \in 0 .. Len(file) /\ Start < p /\ Len(file) \in Nat
  <2>1. Start \in 0 .. Len(file) /\ Len(file) \in Nat
    <3>1. HasStart
      BY <1>2
    <3> QED  BY ONLY <3>1, PutInv, PutRanges DEF HasStart
  <2> QED  BY <2>1
<1>6. /\ rpos' = p + 1 /\ buffer = file[p]
      /\ mark' = IF Bracketed(file[p]) THEN p ELSE p + 1
      /\ ~LosesHeading => \A j \in Start + 1 .. p - 1 : ~Stops(file[j])
  BY <1>1, <1>2, <1>4
<1>7. Bracketed(file[p]) <=> ~IsKey(file[p])
  BY <1>2, <1>6 DEF Stops, IsKey, Bracketed
<1>8. PICK a \in -1 .. Len(file) :
           /\ out \o Cached = SubSeq(file, 1, a) /\ SubSeq(file, 1, a) \in Seq(PutLines)
           /\ setting.key # None => a = p - 1
           /\ setting.key = None => a = Start - 1
  <2>1. CASE setting.key # None
    <3>1. mark + cachelen <= Len(file) + 1
      BY <1>2, PutNumbers
    <3>2. /\ out \o Cached = SubSeq(file, 1, mark + cachelen - 1)
          /\ out \o Cached \in Seq(PutLines)
      BY <1>2, <2>1, <3>1, Flushes
    <3>3. p - 1 \in -1 .. Len(file) /\ p - 1 = mark + cachelen - 1
      BY <1>4, <1>5
    <3>4. out \o Cached = SubSeq(file, 1, p - 1) /\ SubSeq(file, 1, p - 1) \in Seq(PutLines)
      BY ONLY <3>2, <3>3
    <3> QED  BY <2>1, <3>3, <3>4
  <2>2. CASE setting.key = None
    <3>1. mark + cachelen - 1 < mark /\ mark + cachelen - 1 \in Int /\ mark \in Int
      BY <1>2, <2>2, PutNumbers
    <3>2. Cached = <<>>
      BY <3>1, SubSeqEmpty DEF Cached
    <3>3. out \in Seq(PutLines) /\ out \o <<>> = out /\ out = SubSeq(file, 1, Start - 1)
      BY <1>2, <2>2, PutNumbers, ConcatEmptySeq
    <3>4. Start - 1 \in -1 .. Len(file)
      BY <1>5
    <3> QED  BY <2>2, <3>2, <3>3, <3>4
  <2> QED  BY <2>1, <2>2
<1>9. PICK b \in 1 .. Len(file) + 1 :
           mark' = b /\ b = IF Bracketed(file[p]) THEN p ELSE p + 1
  <2>1. p \in 1 .. Len(file) + 1 /\ p + 1 \in 1 .. Len(file) + 1
    BY <1>5
  <2> QED  BY <1>6, <2>1
<1>10. out' = Splice(a, b, b - 1) /\ out' \in Seq(PutLines)
  <2>1. SubSeq(file, b, b - 1) = <<>>
    BY <1>9, SubSeqEmpty
  <2>2. new \in Seq(PutLines)
    BY Added, <1>8, EmptySeq
  <2>3. SubSeq(file, 1, a) \o new \in Seq(PutLines)
    <3> HIDE DEF new
    <3> QED  BY ONLY <1>8, <2>2, ConcatProperties
  <2>4. (SubSeq(file, 1, a) \o new) \o <<>> = SubSeq(file, 1, a) \o new
    <3> HIDE DEF new
    <3> QED  BY ONLY <2>3, ConcatEmptySeq
  <2>5. out' = SubSeq(file, 1, a) \o new
    BY <1>1, <1>8
  <2>6. Splice(a, b, b - 1) = (SubSeq(file, 1, a) \o new) \o <<>>
    BY <2>1 DEF Splice
  <2> QED  BY ONLY <2>3, <2>4, <2>5, <2>6
<1>11. ASSUME ~LosesHeading
       PROVE  Edited = Splice(a, b, Len(file))
  <2>1. \A j \in Start + 1 .. p - 1 : ~Stops(file[j])
    BY <1>6, <1>11
  <2>2. p <= Len(file) /\ Stops(file[p])
    BY <1>2, <1>5, <1>6
  <2>3. /\ setting.key # None /\ p <= Len(file) /\ IsKey(file[p]) =>
              Edited = Splice(p - 1, p + 1, Len(file))
        /\ setting.key # None /\ ~(p <= Len(file) /\ IsKey(file[p])) =>
              Edited = Splice(p - 1, p, Len(file))
        /\ setting.key = None => Edited = Splice(Start - 1, p, Len(file))
    BY <1>2, <1>5, <2>1, <2>2, EditedIsSplice
  <2>4. setting.key = None => ~IsKey(file[p])
    BY DEF IsKey
  <2> QED  BY <1>7, <1>8, <1>9, <2>2, <2>3, <2>4
<1>12. PutTypeOK'
  <2>1. p + 1 \in 1 .. Len(file) + 1 /\ 0 \in 0 .. BufferSize - 1 /\ 1 \in 0 .. BufferSize - 1
    BY <1>5, PutNumbers
  <2> QED  BY <1>1, <1>3, <1>6, <1>9, <2>1, PutNumbers DEF PutTypeOK, PutPcs
<1>13. PutResuming'
  <2>1. rpos' = mark' + cachelen'
    BY <1>1, <1>5, <1>6
  <2>2. b \in 1 .. b
    BY <1>9
  <2> QED  BY <1>3, <1>9, <1>10, <1>11, <2>1, <2>2 DEF PutResuming
<1> QED  BY <1>1, <1>2, <1>10, <1>12, <1>13, StepInv

LEMMA PutRestInv ==
    ASSUME PutInv, PutRest
    PROVE  PutInv' /\ pc' # "reading"
<1>1. pc = "rest" /\ UNCHANGED puts
  BY DEF PutRest, RestLine, RestEnd, puts
<1>2. exists /\ ~SameValue /\ PutResuming
  BY <1>1 DEF PutInv
<1>3. /\ file' = file /\ Edited' = Edited /\ LosesHeading' = LosesHeading
      /\ \A a, b, n : Splice(a, b, n)' = Splice(a, b, n)
  BY <1>1, PutInputsKept
<1>4. rpos = mark + cachelen
  BY <1>2 DEF PutResuming
<1>5. out \in Seq(PutLines)
  BY PutNumbers
<1>6. CASE RestLine
  <2>1. pc' = "rest" /\ rpos' = rpos + 1 /\ wiped' = FALSE /\ Accumulate
    BY <1>6 DEF RestLine, ReadLine
  <2>2. rpos <= Len(file)
    BY <1>6, PutNumbers DEF RestLine, AtEnd
  <2>3. PICK c \in 0 .. BufferSize - 1, m \in mark .. Len(file) :
               /\ cachelen' = c /\ mark' = m
               /\ m + c = mark + cachelen + 1
               /\ \/ m = mark /\ out' = out
                  \/ m = mark + cachelen /\ out' = out \o Cached
    BY <1>4, <2>1, <2>2, PutNumbers, Accumulates
  <2>4. /\ m \in 1 .. Len(file) + 1 /\ m + c = rpos + 1 /\ rpos + 1 \in 1 .. Len(file) + 1
        /\ m - 1 \in mark - 1 .. Len(file) /\ mark \in 1 .. m
    <3>1. rpos = mark + cachelen /\ rpos <= Len(file) /\ m + c = mark + cachelen + 1
      BY <1>4, <2>2, <2>3
    <3> QED  BY ONLY <3>1, PutInv, PutRanges, m \in mark .. Len(file), c \in 0 .. BufferSize - 1
  <2>5. m = mark + cachelen => Cached = SubSeq(file, mark, m - 1)
    <3>1. m = mark + cachelen => m - 1 = mark + cachelen - 1
      BY PutNumbers
    <3> QED  BY <3>1 DEF Cached
  <2>6. out' \in Seq(PutLines)
    <3>1. SubSeq(file, mark, m - 1) \in Seq(PutLines)
      BY <2>4, PutNumbers, FileGrows
    <3>2. out \o SubSeq(file, mark, m - 1) \in Seq(PutLines)
      BY ONLY <1>5, <3>1, ConcatProperties
    <3> QED  BY <1>5, <2>3, <2>5, <3>2
  <2>7. ASSUME ~LosesHeading
        PROVE  \E a \in -1 .. Len(file), b \in 1 .. m :
                  Edited = Splice(a, b, Len(file)) /\ out' = Splice(a, b, m - 1)
    <3>1. PICK a \in -1 .. Len(file), b \in 1 .. mark :
             Edited = Splice(a, b, Len(file)) /\ out = Splice(a, b, mark - 1)
      BY <1>2, <2>7 DEF PutResuming
    <3>2. b \in 1 .. Len(file) + 1 /\ mark \in b .. Len(file) + 1 /\ b \in 1 .. m
      BY <2>4, PutNumbers
    <3>3. Splice(a, b, mark - 1) \o SubSeq(file, mark, m - 1) = Splice(a, b, m - 1)
      BY <2>4, <3>2, SpliceGrows
    <3>4. out' = Splice(a, b, m - 1)
      BY <2>3, <2>5, <3>1, <3>3
    <3> QED  BY <3>1, <3>2, <3>4
  <2>8. PutResuming'
    BY <1>3, <2>1, <2>3, <2>4, <2>7 DEF PutResuming
  <2>9. PutTypeOK'
    <3>1. pc' \in PutPcs /\ wiped' \in BOOLEAN
      BY <2>1 DEF PutPcs
    <3> QED  BY <1>1, <2>1, <2>3, <2>4, <3>1, TypesKept
  <2> QED  BY <1>1, <1>2, <2>1, <2>6, <2>8, <2>9, StepInv
<1>7. CASE RestEnd
  <2>1. /\ rpos' = rpos /\ mark' = mark /\ cachelen' = cachelen /\ wiped' = wiped
    BY <1>7 DEF RestEnd
  <2>2. /\ mark + cachelen <= Len(file) + 1 /\ mark + cachelen - 1 = Len(file)
        /\ Len(file) \in mark - 1 .. Len(file)
    BY <1>4, <1>7, PutNumbers DEF RestEnd, AtEnd
  <2>3. pc' = "done" /\ out' = out \o Cached
    BY <1>7, <2>2 DEF RestEnd
  <2>4. Cached = SubSeq(file, mark, Len(file))
    BY ONLY <2>2 DEF Cached
  <2>5. out \o Cached \in Seq(PutLines)
    <3>1. Cached \in Seq(PutLines)
      BY <2>2, <2>4, PutNumbers, FileGrows
    <3> QED  BY ONLY <1>5, <3>1, ConcatProperties
  <2>6. ASSUME ~LosesHeading
        PROVE  out \o Cached = Edited
    <3>1. PICK a \in -1 .. Len(file), b \in 1 .. mark :
             Edited = Splice(a, b, Len(file)) /\ out = Splice(a, b, mark - 1)
      BY <1>2, <2>6 DEF PutResuming
    <3>2. b \in 1 .. Len(file) + 1 /\ mark \in b .. Len(file) + 1
      BY PutNumbers
    <3>3. Splice(a, b, mark - 1) \o SubSeq(file, mark, Len(file)) = Splice(a, b, Len(file))
      BY <2>2, <3>2, SpliceGrows
    <3> QED  BY <2>4, <3>1, <3>3
  <2>7. PutTypeOK'
    <3>1. pc' \in PutPcs
      BY <2>3 DEF PutPcs
    <3> QED  BY <1>1, <2>1, <3>1, PutNumbers, TypesKept
  <2> QED  BY <1>1, <2>3, <2>5, <2>6, <2>7, LastStepInv
<1> QED  BY <1>6, <1>7 DEF PutRest
-------------------------------------------------------------------------------
LEMMA PutInitInv == PutInit => PutInv
<1> SUFFICES ASSUME PutInit PROVE PutInv
  OBVIOUS
<1>1. file \in Seq(Range(file))
  <2>1. file \in PutFiles \/ file = <<>>
    BY DEF PutInit
  <2>2. CASE file \in PutFiles
    BY <2>2, PutFilesAssumption
  <2>3. CASE file = <<>>
    BY <2>3, EmptySeq
  <2> QED  BY <2>1, <2>2, <2>3
<1>2. /\ pc = "puts" /\ rpos = 1 /\ mark = 1 /\ cachelen = 0 /\ out = <<>>
      /\ exists \in BOOLEAN /\ terminated \in BOOLEAN /\ wiped \in BOOLEAN
  BY DEF PutInit
<1>3. PutTypeOK
  <2>1. 1 \in 1 .. Len(file) + 1 /\ 0 \in 0 .. BufferSize - 1
    BY <1>1, LenProperties, BufferAssumption
  <2> QED  BY <1>2, <2>1 DEF PutTypeOK, PutPcs
<1>4. out \in Seq(PutLines)
  BY <1>2, EmptySeq
<1> QED  BY <1>1, <1>2, <1>3, <1>4 DEF PutInv

LEMMA PutStutters ==
    ASSUME PutInv, UNCHANGED putVars
    PROVE  PutInv'
<1>1. /\ UNCHANGED puts /\ pc' = pc /\ rpos' = rpos /\ mark' = mark /\ cachelen' = cachelen
      /\ buffer' = buffer /\ wiped' = wiped /\ out' = out
  BY DEF putVars, vars, puts, inputs
<1>2. /\ file' = file /\ setting' = setting /\ terminated' = terminated /\ exists' = exists
      /\ PutLines' = PutLines /\ NewEntry' = NewEntry /\ NewHeading' = NewHeading
      /\ Writes' = Writes /\ SameValue' = SameValue
      /\ HasStart' = HasStart /\ Start' = Start
      /\ Edited' = Edited /\ LosesHeading' = LosesHeading
      /\ \A a, b, n : Splice(a, b, n)' = Splice(a, b, n)
      /\ \A line : Stops(line)' = Stops(line)
  BY <1>1, PutInputsKept
<1>3. PutTypeOK' = PutTypeOK
  BY <1>1, <1>2 DEF PutTypeOK
<1>4. PutSearching' = PutSearching /\ PutFinding' = PutFinding
  BY <1>1, <1>2 DEF PutSearching, PutFinding
<1>5. PutInside' = PutInside
  BY <1>1, <1>2 DEF PutInside
<1>6. PutResuming' = PutResuming
  BY <1>1, <1>2 DEF PutResuming
<1>7. EditsOneKey' = EditsOneKey
  BY <1>1, <1>2 DEF EditsOneKey
<1> QED  BY <1>1, <1>2, <1>3, <1>4, <1>5, <1>6, <1>7 DEF PutInv

LEMMA PutNextInv == PutInv /\ [PutNext]_putVars => PutInv'
  BY NewFileInv, KeepValueInv, RewriteInPlaceInv, OpenCopyInv, PutSearchLineInv,
     PutSearchEndInv, PutFoundInv, PutKeyLineInv, PutKeysEndInv, PutKeyInv, PutRestInv,
     PutStutters DEF PutNext, PutReturned

(* What is accumulated fits into the buffer, nothing is read behind the    *)
(* end of the file, and the loop that would flush there is never entered:  *)
(* for every file, every setting and every size of the buffer.             *)
THEOREM PutTypeCorrect == PutSpec => []PutTypeOK
<1>1. PutInv => PutTypeOK
  BY DEF PutInv
<1> QED  BY <1>1, PutInitInv, PutNextInv, PTL DEF PutSpec

(* One setting (or section) changes, and every other line stays in its     *)
(* place.                                                                  *)
THEOREM PutEditsOneKey == PutSpec => []EditsOneKey
<1>1. PutInv => EditsOneKey
  BY DEF PutInv, EditsOneKey
<1> QED  BY <1>1, PutInitInv, PutNextInv, PTL DEF PutSpec
-------------------------------------------------------------------------------
(* Progress                                                                *)

LEMMA LoopNumbers ==
    /\ Loop("puts") = 1 /\ Loop("putSearch") = 2 /\ Loop("putFound") = 3 /\ Loop("putKeys") = 4
    /\ Loop("putKey") = 5 /\ Loop("rest") = 6 /\ Loop("done") = 7
<1> DEFINE order == <<"puts", "putSearch", "putFound", "putKeys", "putKey", "rest", "done">>
<1>1. /\ order[1] = "puts" /\ order[2] = "putSearch" /\ order[3] = "putFound"
      /\ order[4] = "putKeys" /\ order[5] = "putKey" /\ order[6] = "rest" /\ order[7] = "done"
  OBVIOUS
<1>2. \A at : Loop(at) = CHOOSE i \in 1 .. 7 : order[i] = at
  BY DEF Loop
<1> HIDE DEF order
<1>3. ASSUME NEW n \in 1 .. 7
      PROVE  Loop(order[n]) = n
  <2>1. \A i \in 1 .. 7 : order[i] = order[n] => i = n
    BY <1>1
  <2>2. \E i \in 1 .. 7 : order[i] = order[n]
    OBVIOUS
  <2> QED  BY <1>2, <2>1, <2>2
<1> QED  BY <1>1, <1>3

(* A step within a loop reads a line; every other one leaves its loop for  *)
(* a later one.                                                            *)
LEMMA PutStepAdvances ==
    ASSUME PutInv, PutNext, ~UNCHANGED putVars
    PROVE  Loop(pc') > Loop(pc) \/ (pc' = pc /\ rpos' > rpos)
<1>1. rpos \in Nat /\ rpos + 1 > rpos
  BY PutNumbers
<1>2. CASE NewFile \/ KeepValue \/ RewriteInPlace
  BY <1>2, LoopNumbers DEF NewFile, KeepValue, RewriteInPlace, Done
<1>3. CASE OpenCopy
  BY <1>3, LoopNumbers DEF OpenCopy
<1>4. CASE PutSearchLine
  <2>1. pc = "putSearch" /\ rpos' = rpos + 1 /\ pc' \in {"putFound", pc}
    BY <1>4 DEF PutSearchLine, ReadLine
  <2> QED  BY <1>1, <2>1, LoopNumbers
<1>5. CASE PutSearchEnd \/ PutFound \/ PutKeysEnd \/ PutKey
  BY <1>5, LoopNumbers DEF PutSearchEnd, PutFound, PutKeysEnd, PutKey, Done
<1>6. CASE PutKeyLine
  <2>1. pc = "putKeys" /\ rpos' = rpos + 1 /\ pc' \in {"putKey", pc}
    BY <1>6 DEF PutKeyLine, ReadLine
  <2> QED  BY <1>1, <2>1, LoopNumbers
<1>7. CASE PutRest
  <2>1. CASE RestLine
    <3>1. pc' = pc /\ rpos' = rpos + 1
      BY <2>1 DEF RestLine, ReadLine
    <3> QED  BY <1>1, <3>1
  <2>2. CASE RestEnd
    <3>1. pc = "rest" /\ pc' \in {"done", "reading"}
      BY <2>2 DEF RestEnd
    <3>2. pc' = "done"
      BY <1>7, <3>1, PutRestInv
    <3> QED  BY <3>1, <3>2, LoopNumbers
  <2> QED  BY <1>7, <2>1, <2>2 DEF PutRest
<1> QED  BY <1>2, <1>3, <1>4, <1>5, <1>6, <1>7 DEF PutNext, PutReturned

(* ini_puts comes nearer to its end with every step, however long the file *)
(* is and wherever the flushes go back.                                    *)
THEOREM PutProgress == PutSpec => PutAdvances
<1>1. PutInv /\ [PutNext]_putVars
         => [Loop(pc') > Loop(pc) \/ (pc' = pc /\ rpos' > rpos)]_putVars
  BY PutStepAdvances
<1> QED  BY <1>1, PutInitInv, PutNextInv, PTL DEF PutSpec, PutAdvances
-------------------------------------------------------------------------------
(* What was written is found again                                         *)

(* o holds the new line where a lookup of the setting comes to it. *)
Placed(o) ==
    \E h \in 0 .. Len(o), p \in 1 .. Len(o) :
       /\ h < p /\ o[p] = NewEntry
       /\ \A j \in h + 1 .. p - 1 : ~Stops(o[j])
       /\ setting.section = None => h = 0
       /\ setting.section # None => /\ h # 0 /\ Matches(o[h])
                                    /\ \A j \in 1 .. h - 1 : ~Matches(o[j])

(* Whatever ini_puts writes, ini_gets reads the line that was written, or  *)
(* the value was there before.  (What the text functions make of the value *)
(* on the way is PutIsGot.)                                                *)
WrittenIsFound ==
    pc = "done" /\ Writes =>
        Gets(out, setting.section, setting.key, None)
            = IF exists /\ SameValue THEN setting.value ELSE ReadText(NewEntry.text, LineSize)

PutPlaces ==
    /\ setting.section \in {None, "values", "Values"}
    /\ setting.value # None => setting.value \in Seq(Range(setting.value))
    /\ pc = "rest" /\ Writes => Placed(out)
    /\ WrittenIsFound

LEMMA NewEntryParts ==
    /\ NewEntry.kind = "entry" /\ NewEntry.key = setting.key
    /\ ~Bracketed(NewEntry) /\ ~Matches(NewEntry)
    /\ setting.key # None => IsKey(NewEntry)
  BY DEF NewEntry, Entry, Bracketed, Matches, IsKey, SameKey

LEMMA PlacedIsFound ==
    ASSUME NEW S, NEW o \in Seq(S), Placed(o), setting.key # None
    PROVE  Gets(o, setting.section, setting.key, None) = ReadText(NewEntry.text, LineSize)
<1>1. PICK h \in 0 .. Len(o), p \in 1 .. Len(o) :
       /\ h < p /\ o[p] = NewEntry
       /\ \A j \in h + 1 .. p - 1 : ~Stops(o[j])
       /\ setting.section = None => h = 0
       /\ setting.section # None => /\ h # 0 /\ Matches(o[h])
                                    /\ \A j \in 1 .. h - 1 : ~Matches(o[j])
  BY DEF Placed
<1>2. Len(o) \in Nat /\ DOMAIN o = 1 .. Len(o)
  BY LenProperties
<1> DEFINE H == SectionLines(o, setting.section)
           K == KeyLines(o, setting.section, setting.key)
<1>3. H # {} /\ Min(H) = h
  <2>1. CASE setting.section = None
    <3>1. H = {0} /\ h = 0
      BY <1>1, <2>1 DEF SectionLines
    <3> HIDE DEF H
    <3> QED  BY ONLY <3>1, MinOfOne
  <2>2. CASE setting.section # None
    <3>1. H = {i \in 1 .. Len(o) : Matches(o[i])}
      BY <1>2, <2>2 DEF SectionLines
    <3>2. h \in H /\ H \subseteq Int /\ \A x \in H : h <= x
      BY <1>1, <1>2, <2>2, <3>1
    <3> HIDE DEF H
    <3> QED  BY <3>2, MinIs
  <2> QED  BY <2>1, <2>2
<1>4. \A i : i \in K <=> /\ i \in 1 .. Len(o) /\ IsKey(o[i])
                         /\ h < i /\ \A j \in h + 1 .. i : ~Bracketed(o[j])
  BY <1>2, <1>3 DEF KeyLines, IsKey
<1>5. p \in K
  <2>1. IsKey(o[p]) /\ ~Bracketed(o[p])
    BY <1>1, NewEntryParts
  <2>2. \A j \in h + 1 .. p : j \in h + 1 .. p - 1 \/ j = p
    BY <1>2
  <2> QED  BY <1>1, <1>4, <2>1, <2>2 DEF Stops
<1>6. \A i \in K : p <= i
  <2> SUFFICES ASSUME NEW i \in K, i < p PROVE FALSE
    BY <1>2, <1>4
  <2>1. i \in h + 1 .. p - 1
    BY <1>2, <1>4
  <2> QED  BY <1>1, <1>4, <2>1 DEF Stops
<1>7. K \subseteq Int
  BY <1>4
<1> HIDE DEF H, K
<1>8. Min(K) = p /\ K # {}
  BY <1>5, <1>6, <1>7, MinIs
<1> QED  BY <1>1, <1>8 DEF Gets, K

(* Nothing that is written behind the line can hide it. *)
LEMMA PlacedStays ==
    ASSUME NEW S, NEW o \in Seq(S), NEW t \in Seq(S), Placed(o)
    PROVE  Placed(o \o t)
<1>1. PICK h \in 0 .. Len(o), p \in 1 .. Len(o) :
       /\ h < p /\ o[p] = NewEntry
       /\ \A j \in h + 1 .. p - 1 : ~Stops(o[j])
       /\ setting.section = None => h = 0
       /\ setting.section # None => /\ h # 0 /\ Matches(o[h])
                                    /\ \A j \in 1 .. h - 1 : ~Matches(o[j])
  BY DEF Placed
<1>2. PICK x : x = o \o t
  OBVIOUS
<1>3. /\ Len(x) = Len(o) + Len(t) /\ Len(o) \in Nat /\ Len(t) \in Nat
      /\ \A i \in 1 .. Len(o) : x[i] = o[i]
  <2>1. Len(x) = Len(o) + Len(t) /\ \A i \in 1 .. Len(o) : x[i] = o[i]
    BY <1>2, Behind
  <2> QED  BY <2>1, LenProperties
<1>4. h \in 0 .. Len(x) /\ p \in 1 .. Len(x)
  BY <1>3
<1>5. x[p] = NewEntry
  BY <1>1, <1>3
<1>6. \A j \in h + 1 .. p - 1 : ~Stops(x[j])
  <2>1. \A j \in h + 1 .. p - 1 : j \in 1 .. Len(o)
    BY <1>3
  <2> QED  BY <1>1, <1>3, <2>1
<1>7. setting.section # None => /\ h # 0 /\ Matches(x[h])
                                /\ \A j \in 1 .. h - 1 : ~Matches(x[j])
  <2>1. (h # 0 => h \in 1 .. Len(o)) /\ \A j \in 1 .. h - 1 : j \in 1 .. Len(o)
    BY <1>3
  <2> QED  BY <1>1, <1>3, <2>1
<1>8. Placed(x)
  BY <1>1, <1>4, <1>5, <1>6, <1>7 DEF Placed
<1> QED  BY <1>2, <1>8

(* The lines of the file up to some line *)
LEMMA FirstLines ==
    ASSUME NEW S, NEW s \in Seq(S), NEW p \in 1 .. Len(s)
    PROVE  /\ SubSeq(s, 1, p - 1) \in Seq(S)
           /\ Len(SubSeq(s, 1, p - 1)) = p - 1
           /\ \A j \in 1 .. p - 1 : SubSeq(s, 1, p - 1)[j] = s[j]
<1>1. Len(s) \in Nat /\ \A i \in 1 .. Len(s) : s[i] \in S
  BY LenProperties, ElementOfSeq
<1>2. 1 \in Int /\ p - 1 \in Int /\ \A i \in 1 .. p - 1 : s[i] \in S
  BY <1>1
<1>3. PICK x : x = SubSeq(s, 1, p - 1)
  OBVIOUS
<1>4. /\ x \in Seq(S)
      /\ Len(x) = IF 1 <= p - 1 THEN (p - 1) - 1 + 1 ELSE 0
      /\ \A i \in 1 .. (p - 1) - 1 + 1 : x[i] = s[1 + i - 1]
  BY <1>2, <1>3, SubSeqProperties
<1>5. Len(x) = p - 1
  BY <1>1, <1>4
<1>6. ASSUME NEW j \in 1 .. p - 1
      PROVE  x[j] = s[j]
  <2>1. j \in 1 .. (p - 1) - 1 + 1 /\ 1 + j - 1 = j
    BY <1>1
  <2> QED  BY <1>4, <2>1
<1> QED  BY <1>3, <1>4, <1>5, <1>6

(* It is placed behind lines that have the section and none of its keys. *)
LEMMA PlacedBehind ==
    ASSUME NEW S, NEW x \in Seq(S), NewEntry \in S, NEW h \in 0 .. Len(x),
           \A j \in h + 1 .. Len(x) : ~Stops(x[j]),
           setting.section = None => h = 0,
           setting.section # None => /\ h # 0 /\ Matches(x[h])
                                     /\ \A j \in 1 .. h - 1 : ~Matches(x[j])
    PROVE  Placed(x \o <<NewEntry>>)
<1>1. PICK o : o = x \o <<NewEntry>>
  OBVIOUS
<1>2. <<NewEntry>> \in Seq(S) /\ Len(<<NewEntry>>) = 1 /\ <<NewEntry>>[1] = NewEntry
  OBVIOUS
<1>3. /\ Len(o) = Len(x) + 1 /\ Len(x) \in Nat
      /\ \A i \in 1 .. Len(x) : o[i] = x[i]
      /\ o[Len(x) + 1] = NewEntry
  <2>1. /\ Len(o) = Len(x) + Len(<<NewEntry>>)
        /\ \A i \in 1 .. Len(x) : o[i] = x[i]
        /\ \A i \in 1 .. Len(<<NewEntry>>) : o[Len(x) + i] = <<NewEntry>>[i]
    BY <1>1, <1>2, Behind
  <2> QED  BY <1>2, <2>1, LenProperties
<1>4. PICK p \in 1 .. Len(o) : p = Len(x) + 1
  BY <1>3
<1>5. h \in 0 .. Len(o) /\ h < p /\ p - 1 = Len(x)
  BY <1>3, <1>4
<1>6. \A j \in h + 1 .. p - 1 : ~Stops(o[j])
  <2>1. \A j \in h + 1 .. p - 1 : j \in h + 1 .. Len(x) /\ j \in 1 .. Len(x)
    BY <1>3, <1>5
  <2> QED  BY <1>3, <2>1
<1>7. setting.section # None => /\ h # 0 /\ Matches(o[h])
                                /\ \A j \in 1 .. h - 1 : ~Matches(o[j])
  <2>1. (h # 0 => h \in 1 .. Len(x)) /\ \A j \in 1 .. h - 1 : j \in 1 .. Len(x)
    BY <1>3
  <2> QED  BY <1>3, <2>1
<1>8. Placed(o)
  BY <1>3, <1>4, <1>5, <1>6, <1>7 DEF Placed
<1> QED  BY <1>1, <1>8

LEMMA PutPlacesKept ==
    ASSUME PutPlaces, UNCHANGED puts, pc' # "done", pc' = "rest" /\ Writes => Placed(out')
    PROVE  PutPlaces'
<1>1. setting' = setting /\ NewEntry' = NewEntry /\ Writes' = Writes
      /\ \A line : Stops(line)' = Stops(line)
  BY PutInputsKept
<1>2. pc' = "rest" /\ Writes' => Placed(out)'
  BY <1>1 DEF Placed
<1> QED  BY <1>1, <1>2 DEF PutPlaces, WrittenIsFound

LEMMA PutPlacesDone ==
    ASSUME PutPlaces, UNCHANGED puts, pc' = "done", NEW S, out' \in Seq(S),
           Writes => IF exists /\ SameValue THEN out' = file ELSE Placed(out')
    PROVE  PutPlaces'
<1>1. /\ file' = file /\ setting' = setting /\ exists' = exists
      /\ NewEntry' = NewEntry /\ Writes' = Writes /\ SameValue' = SameValue
  BY PutInputsKept
<1>2. CASE Writes /\ exists /\ SameValue
  <2>1. /\ Old # {} /\ ReadText(file[Min(Old)].text, LineSize) = setting.value
    BY <1>2 DEF SameValue
  <2>2. Gets(file, setting.section, setting.key, None) = setting.value
    BY <2>1 DEF Gets, Old
  <2>3. WrittenIsFound'
    BY <1>1, <1>2, <2>2 DEF WrittenIsFound
  <2> QED  BY <1>1, <2>3 DEF PutPlaces
<1>3. CASE Writes /\ ~(exists /\ SameValue)
  <2>1. PICK o : o = out'
    OBVIOUS
  <2>2. o \in Seq(S) /\ Placed(o) /\ setting.key # None
    BY <1>3, <2>1 DEF Writes
  <2>3. Gets(o, setting.section, setting.key, None) = ReadText(NewEntry.text, LineSize)
    BY ONLY <2>2, PlacedIsFound
  <2>4. WrittenIsFound'
    BY <1>1, <1>3, <2>1, <2>3 DEF WrittenIsFound
  <2> QED  BY <1>1, <2>4 DEF PutPlaces
<1>4. CASE ~Writes
  BY <1>1, <1>4 DEF PutPlaces, WrittenIsFound
<1> QED  BY <1>2, <1>3, <1>4

(* A new heading is one that a lookup matches. *)
LEMMA NewHeadingIs ==
    ASSUME PutPlaces
    PROVE  /\ setting.section = None => NewHeading = <<>>
           /\ setting.section # None => /\ NewHeading = <<Heading(setting.section, FALSE)>>
                                        /\ Matches(Heading(setting.section, FALSE))
                                        /\ Len(NewHeading) = 1
                                        /\ Matches(NewHeading[1])
<1>1. setting.section # None => Matches(Heading(setting.section, FALSE))
  BY DEF PutPlaces, Matches, Heading
<1> QED  BY <1>1 DEF NewHeading

(* A section that is added at the end, behind lines that do not match *)
LEMMA PlacedWithHeading ==
    ASSUME PutPlaces, NEW x \in Seq(PutLines),
           setting.section = None => x = <<>>,
           \A j \in 1 .. Len(x) : ~Matches(x[j])
    PROVE  Placed(x \o NewHeading \o <<NewEntry>>)
<1>1. NewHeading \in Seq(PutLines) /\ NewEntry \in PutLines
  BY Added DEF PutLines
<1>2. PICK y : y = x \o NewHeading
  OBVIOUS
<1>3. /\ y \in Seq(PutLines) /\ Len(y) = Len(x) + Len(NewHeading)
      /\ \A i \in 1 .. Len(x) : y[i] = x[i]
      /\ \A i \in 1 .. Len(NewHeading) : y[Len(x) + i] = NewHeading[i]
  BY ONLY <1>1, <1>2, x \in Seq(PutLines), Behind
<1>4. Len(x) \in Nat
  BY LenProperties
<1>5. CASE setting.section = None
  <2>1. Len(x) = 0 /\ Len(NewHeading) = 0
    BY <1>5, NewHeadingIs, EmptySeq
  <2>2. 0 \in 0 .. Len(y) /\ \A j \in 0 + 1 .. Len(y) : ~Stops(y[j])
    BY <1>3, <2>1
  <2>3. Placed(y \o <<NewEntry>>)
    BY <1>1, <1>3, <1>5, <2>2, PlacedBehind
  <2> QED  BY <1>2, <2>3
<1>6. CASE setting.section # None
  <2>1. Len(NewHeading) = 1 /\ Matches(NewHeading[1])
    BY <1>6, NewHeadingIs
  <2>2. PICK h \in 0 .. Len(y) : h = Len(x) + 1 /\ h = Len(y)
    BY <1>3, <1>4, <2>1
  <2>3. h # 0 /\ Matches(y[h])
    BY <1>3, <1>4, <2>1, <2>2
  <2>4. \A j \in 1 .. h - 1 : ~Matches(y[j])
    <3>1. \A j \in 1 .. h - 1 : j \in 1 .. Len(x)
      BY <1>4, <2>2
    <3> QED  BY <1>3, <3>1
  <2>5. \A j \in h + 1 .. Len(y) : ~Stops(y[j])
    BY <2>2
  <2>6. Placed(y \o <<NewEntry>>)
    BY <1>1, <1>3, <1>6, <2>3, <2>4, <2>5, PlacedBehind
  <2> QED  BY <1>2, <2>6
<1> QED  BY <1>5, <1>6

(* The file, with the blank line that may be put behind it *)
LEMMA EndedLines ==
    ASSUME PutInv, NEW x \in {file, Append(file, Blank)}
    PROVE  /\ x \in Seq(PutLines) /\ Len(file) <= Len(x)
           /\ \A j \in 1 .. Len(file) : x[j] = file[j]
           /\ \A j \in Len(file) + 1 .. Len(x) : ~Stops(x[j]) /\ ~Matches(x[j])
<1>1. file \in Seq(PutLines) /\ Blank \in PutLines /\ Len(file) \in Nat
  BY PutNumbers DEF PutLines
<1>2. ~Stops(Blank) /\ ~Matches(Blank)
  BY DEF Stops, IsKey, Bracketed, Matches, Blank
<1>3. CASE x = file
  BY <1>1, <1>3
<1>4. CASE x = Append(file, Blank)
  <2>1. /\ x \in Seq(PutLines) /\ Len(x) = Len(file) + 1
        /\ \A j \in 1 .. Len(file) : x[j] = file[j]
        /\ x[Len(file) + 1] = Blank
    BY <1>1, <1>4, AppendProperties
  <2>2. \A j \in Len(file) + 1 .. Len(x) : j = Len(file) + 1
    BY <1>1, <2>1
  <2> QED  BY <1>1, <1>2, <2>1, <2>2
<1> QED  BY <1>3, <1>4

LEMMA PutStartsPlaced ==
    ASSUME PutInv, PutPlaces, NewFile \/ KeepValue \/ RewriteInPlace \/ OpenCopy, PutInv'
    PROVE  PutPlaces'
<1>1. pc = "puts" /\ UNCHANGED puts
  BY DEF NewFile, KeepValue, RewriteInPlace, OpenCopy, Done
<1>2. PutLines' = PutLines /\ out' \in Seq(PutLines)' /\ file \in Seq(PutLines)
  BY <1>1, PutInputsKept, PutNumbers DEF PutInv
<1>3. out' \in Seq(PutLines)
  BY <1>2
<1>4. CASE NewFile
  <2>1. /\ ~exists /\ pc' = "done"
        /\ out' = IF Writes THEN NewHeading \o <<NewEntry>> ELSE <<>>
    BY <1>4 DEF NewFile, Done
  <2>2. PICK x : x = <<>>
    OBVIOUS
  <2>3. x \in Seq(PutLines) /\ Len(x) = 0 /\ x \o NewHeading = NewHeading
    BY <1>3, <2>2, Added, EmptySeq, ConcatEmptySeq
  <2>4. \A j \in 1 .. Len(x) : ~Matches(x[j])
    BY <2>3
  <2>5. Placed(x \o NewHeading \o <<NewEntry>>)
    BY <2>2, <2>3, <2>4, PlacedWithHeading
  <2>6. Placed(NewHeading \o <<NewEntry>>)
    BY <2>3, <2>5
  <2> QED  BY <1>1, <1>3, <2>1, <2>6, PutPlacesDone
<1>5. CASE KeepValue
  <2>1. exists /\ SameValue /\ pc' = "done" /\ out' = file
    BY <1>5 DEF KeepValue, Done
  <2> QED  BY <1>1, <1>3, <2>1, PutPlacesDone
<1>6. CASE RewriteInPlace
  <2>1. /\ ~SameValue /\ Writes /\ Old # {} /\ pc' = "done"
        /\ out' = [file EXCEPT ![Min(Old)] = NewEntry]
    BY <1>6 DEF RewriteInPlace, SameLength, Done
  <2> DEFINE H == SectionLines(file, setting.section)
  <2>2. H # {} /\ H \subseteq Nat
    <3>1. H # {}
      BY <2>1 DEF Old, KeyLines
    <3>2. H \subseteq Nat
      <4>1. H = IF setting.section = None THEN {0} ELSE {i \in 1 .. Len(file) : Matches(file[i])}
        BY PutNumbers DEF SectionLines
      <4> HIDE DEF H
      <4> QED  BY <4>1
    <3> QED  BY <3>1, <3>2
  <2>3. PICK h \in H : \A x \in H : h <= x
    BY <2>2, Least
  <2>4. H \subseteq Int /\ Min(H) = h
    <3>1. H \subseteq Int
      BY <2>2
    <3> HIDE DEF H
    <3> QED  BY <2>3, <3>1, MinIs
  <2>5. \A i : i \in Old <=> /\ i \in 1 .. Len(file) /\ IsKey(file[i])
                             /\ h < i /\ \A j \in h + 1 .. i : ~Bracketed(file[j])
    <3>1. H # {} /\ setting.key # None
      BY <2>1, <2>2 DEF Writes
    <3> QED  BY <2>4, <3>1, PutNumbers DEF Old, KeyLines, IsKey
  <2>6. Old # {} /\ Old \subseteq Nat
    BY <2>1, <2>5
  <2>7. PICK p \in Old : \A x \in Old : p <= x
    BY <2>6, Least
  <2>8. Min(Old) = p
    <3>1. Old \subseteq Int
      BY <2>6
    <3> QED  BY <2>7, <3>1, MinIs
  <2>9. /\ p \in 1 .. Len(file) /\ Len(file) \in Nat /\ h \in Nat /\ h < p
        /\ NewEntry \in PutLines
    BY <2>2, <2>5, PutNumbers DEF PutLines
  <2>10. PICK x : x = SubSeq(file, 1, p - 1)
    OBVIOUS
  <2>11. PICK t : t = SubSeq(file, p + 1, Len(file))
    OBVIOUS
  <2>12. out' = x \o <<NewEntry>> \o t
    <3>1. [file EXCEPT ![p] = NewEntry]
             = SubSeq(file, 1, p - 1) \o <<NewEntry>> \o SubSeq(file, p + 1, Len(file))
      BY <1>2, <2>9, ExceptSplits
    <3> QED  BY <2>1, <2>8, <2>10, <2>11, <3>1
  <2>13. /\ x \in Seq(PutLines) /\ Len(x) = p - 1
         /\ \A j \in 1 .. p - 1 : x[j] = file[j]
    BY <1>2, <2>9, <2>10, FirstLines
  <2>14. t \in Seq(PutLines)
    <3>1. PICK q \in 1 .. Len(file) + 1 : q = p + 1 /\ Len(file) \in q - 1 .. Len(file)
      BY <2>9
    <3>2. SubSeq(file, q, Len(file)) \in Seq(PutLines)
      BY <1>2, <3>1, NextPiece
    <3> QED  BY <2>11, <3>1, <3>2
  <2>15. \A j \in h + 1 .. Len(x) : ~Stops(x[j])
    <3> SUFFICES ASSUME NEW j \in h + 1 .. Len(x) PROVE ~Stops(x[j])
      OBVIOUS
    <3>1. j \in 1 .. p - 1 /\ j \in h + 1 .. p /\ j \in 1 .. Len(file) /\ j < p /\ h < j
      BY <2>9, <2>13
    <3>2. x[j] = file[j] /\ \A i \in h + 1 .. j : ~Bracketed(file[i])
      <4>1. \A i \in h + 1 .. j : i \in h + 1 .. p
        BY <2>9, <3>1
      <4> QED  BY <2>5, <2>7, <2>13, <3>1, <4>1
    <3>3. j \notin Old /\ ~Bracketed(file[j])
      BY <2>5, <2>7, <2>9, <3>1
    <3> QED  BY <2>5, <3>1, <3>2, <3>3 DEF Stops
  <2>16. /\ h \in 0 .. Len(x)
         /\ setting.section = None => h = 0
         /\ setting.section # None => /\ h # 0 /\ Matches(x[h])
                                      /\ \A j \in 1 .. h - 1 : ~Matches(x[j])
    <3>1. h \in 0 .. Len(x)
      BY <2>9, <2>13
    <3>2. CASE setting.section = None
      BY <2>3, <3>1, <3>2 DEF SectionLines
    <3>3. CASE setting.section # None
      <4>1. H = {i \in 1 .. Len(file) : Matches(file[i])}
        BY <3>3, PutNumbers DEF SectionLines
      <4>2. h \in 1 .. p - 1 /\ Matches(file[h]) /\ \A j \in 1 .. h - 1 : ~Matches(file[j])
        BY <2>3, <2>9, <4>1
      <4>3. \A j \in 1 .. h - 1 : j \in 1 .. p - 1
        BY <2>9
      <4> QED  BY <2>9, <2>13, <3>1, <3>3, <4>2, <4>3
    <3> QED  BY <3>2, <3>3
  <2>17. Placed(x \o <<NewEntry>>)
    BY <2>9, <2>13, <2>15, <2>16, PlacedBehind
  <2>18. x \o <<NewEntry>> \in Seq(PutLines)
    BY <2>13, Added
  <2>19. Placed((x \o <<NewEntry>>) \o t)
    BY <2>14, <2>17, <2>18, PlacedStays
  <2> QED  BY <1>1, <1>3, <2>1, <2>12, <2>19, PutPlacesDone
<1>7. CASE OpenCopy
  <2>1. pc' \in {"putFound", "putSearch"}
    BY <1>7 DEF OpenCopy
  <2> QED  BY <1>1, <2>1, PutPlacesKept
<1> QED  BY <1>4, <1>5, <1>6, <1>7

LEMMA PutSearchEndPlaced ==
    ASSUME PutInv, PutPlaces, PutSearchEnd, PutInv'
    PROVE  PutPlaces'
<1>1. /\ pc = "putSearch" /\ AtEnd /\ UNCHANGED puts /\ pc' = "done"
      /\ out' = IF Writes THEN Ended(out \o Cached) \o NewHeading \o <<NewEntry>>
                ELSE out \o Cached
  BY DEF PutSearchEnd, Done
<1>2. /\ ~SameValue /\ setting.section # None
      /\ rpos = mark + cachelen /\ out = SubSeq(file, 1, mark - 1)
      /\ \A j \in 1 .. rpos - 1 : ~Matches(file[j])
  BY <1>1 DEF PutInv, PutSearching
<1>3. PutLines' = PutLines /\ out' \in Seq(PutLines)'
  BY <1>1, PutInputsKept DEF PutInv
<1>4. out' \in Seq(PutLines)
  BY <1>3
<1>5. PICK x \in {file, Append(file, Blank)} : x = Ended(out \o Cached)
  BY <1>1, <1>2, FlushedAtEnd, EndedIs
<1>6. x \in Seq(PutLines) /\ \A j \in 1 .. Len(x) : ~Matches(x[j])
  <2>1. \A j \in 1 .. Len(file) : ~Matches(file[j])
    <3>1. ~(rpos <= Len(file)) /\ \A j \in 1 .. rpos - 1 : ~Matches(file[j])
      BY <1>1, <1>2 DEF AtEnd
    <3>2. rpos - 1 = Len(file)
      <4>1. ~(rpos <= Len(file))
        BY <3>1
      <4> QED  BY ONLY <4>1, PutInv, PutRanges
    <3> QED  BY <3>1, <3>2
  <2>2. /\ x \in Seq(PutLines)
        /\ \A j \in 1 .. Len(file) : x[j] = file[j]
        /\ \A j \in Len(file) + 1 .. Len(x) : ~Matches(x[j])
    BY EndedLines
  <2>3. Len(x) \in Nat /\ Len(file) \in Nat
    BY <2>2, PutNumbers, LenProperties
  <2>4. \A j \in 1 .. Len(x) : j \in 1 .. Len(file) \/ j \in Len(file) + 1 .. Len(x)
    BY <2>3
  <2> QED  BY <2>1, <2>2, <2>4
<1>7. Placed(x \o NewHeading \o <<NewEntry>>)
  BY <1>2, <1>6, PlacedWithHeading
<1> QED  BY <1>1, <1>2, <1>4, <1>5, <1>7, PutPlacesDone

LEMMA PutKeysEndPlaced ==
    ASSUME PutInv, PutPlaces, PutKeysEnd, PutInv'
    PROVE  PutPlaces'
<1>1. /\ pc = "putKeys" /\ AtEnd /\ UNCHANGED puts /\ pc' = "done"
      /\ out' = IF Writes THEN Ended(out \o Cached) \o <<NewEntry>> ELSE out \o Cached
  BY DEF PutKeysEnd, Done
<1>2. /\ ~SameValue /\ HasStart /\ Start < mark /\ rpos = mark + cachelen
      /\ setting.key # None => out = SubSeq(file, 1, mark - 1)
      /\ ~LosesHeading => \A j \in Start + 1 .. mark + cachelen - 1 : ~Stops(file[j])
  BY <1>1 DEF PutInv, PutInside
<1>3. PutLines' = PutLines /\ out' \in Seq(PutLines)'
  BY <1>1, PutInputsKept DEF PutInv
<1>4. out' \in Seq(PutLines)
  BY <1>3
<1>5. ASSUME Writes
      PROVE  Placed(out')
  <2>1. setting.key # None /\ ~LosesHeading
    BY <1>5 DEF Writes, LosesHeading
  <2>2. PICK x \in {file, Append(file, Blank)} : x = Ended(out \o Cached)
    BY <1>1, <1>2, <2>1, FlushedAtEnd, EndedIs
  <2>3. /\ x \in Seq(PutLines) /\ Len(file) <= Len(x)
        /\ \A j \in 1 .. Len(file) : x[j] = file[j]
        /\ \A j \in Len(file) + 1 .. Len(x) : ~Stops(x[j])
    BY EndedLines
  <2>4. Len(x) \in Nat /\ Len(file) \in Nat /\ Start \in 0 .. Len(file)
    BY <1>2, <2>3, PutNumbers, LenProperties DEF HasStart
  <2>5. \A j \in Start + 1 .. Len(x) : ~Stops(x[j])
    <3>1. mark + cachelen - 1 = Len(file)
      BY <1>1, <1>2, PutNumbers DEF AtEnd
    <3>2. \A j \in Start + 1 .. Len(file) : ~Stops(file[j])
      BY <1>2, <2>1, <3>1
    <3>3. \A j \in Start + 1 .. Len(x) :
             (j \in 1 .. Len(file) /\ j \in Start + 1 .. Len(file)) \/ j \in Len(file) + 1 .. Len(x)
      BY <2>4
    <3> QED  BY <2>3, <3>2, <3>3
  <2>6. /\ setting.section = None => Start = 0
        /\ setting.section # None => /\ Start # 0 /\ Matches(x[Start])
                                     /\ \A j \in 1 .. Start - 1 : ~Matches(x[j])
    <3>1. (Start # 0 => Start \in 1 .. Len(file)) /\ \A j \in 1 .. Start - 1 : j \in 1 .. Len(file)
      BY <2>4
    <3> QED  BY <1>2, <2>3, <3>1 DEF HasStart
  <2>7. NewEntry \in PutLines /\ Start \in 0 .. Len(x)
    BY <2>3, <2>4 DEF PutLines
  <2>8. Placed(x \o <<NewEntry>>)
    BY <2>3, <2>5, <2>6, <2>7, PlacedBehind
  <2> QED  BY <1>1, <1>5, <2>2, <2>8
<1> QED  BY <1>1, <1>2, <1>4, <1>5, PutPlacesDone

LEMMA PutKeyPlaced ==
    ASSUME PutInv, PutPlaces, PutKey
    PROVE  PutPlaces'
<1>1. /\ pc = "putKey" /\ pc' = "rest" /\ UNCHANGED puts
      /\ out' = out \o Cached \o IF Writes THEN <<NewEntry>> ELSE <<>>
  BY DEF PutKey
<1>2. /\ HasStart /\ Start < mark /\ mark + cachelen <= Len(file)
      /\ setting.key # None => out = SubSeq(file, 1, mark - 1)
      /\ ~LosesHeading => \A j \in Start + 1 .. mark + cachelen - 1 : ~Stops(file[j])
  BY <1>1 DEF PutInv, PutInside
<1>3. ASSUME Writes
      PROVE  Placed(out')
  <2>1. setting.key # None /\ ~LosesHeading
    BY <1>3 DEF Writes, LosesHeading
  <2>2. PICK p \in 1 .. Len(file) : p = mark + cachelen /\ p - 1 = mark + cachelen - 1
    <3>1. mark + cachelen \in 1 .. Len(file) /\ (mark + cachelen) - 1 = mark + cachelen - 1
      BY <1>2, PutNumbers
    <3> QED  BY <3>1
  <2>3. /\ file \in Seq(PutLines) /\ Len(file) \in Nat
        /\ Start \in 0 .. Len(file) /\ Start < p
    <3>1. file \in Seq(PutLines) /\ Len(file) \in Nat
      BY PutNumbers
    <3>2. Start \in 0 .. Len(file)
      BY <1>2, <3>1 DEF HasStart
    <3>3. mark \in 1 .. Len(file) + 1 /\ cachelen \in 0 .. BufferSize - 1 /\ BufferSize \in Nat
      BY PutNumbers
    <3>4. Start < p
      BY ONLY <1>2, <2>2, <3>1, <3>2, <3>3
    <3> QED  BY <3>1, <3>2, <3>4
  <2>4. PICK x : x = out \o Cached
    OBVIOUS
  <2>5. x = SubSeq(file, 1, p - 1)
    <3>1. mark + cachelen <= Len(file) + 1
      BY <1>2, PutNumbers
    <3>2. out \o Cached = SubSeq(file, 1, mark + cachelen - 1)
      BY <1>2, <2>1, <3>1, Flushes
    <3> QED  BY ONLY <2>2, <2>4, <3>2
  <2>6. /\ x \in Seq(PutLines) /\ Len(x) = p - 1
        /\ \A j \in 1 .. p - 1 : x[j] = file[j]
    BY <2>3, <2>5, FirstLines
  <2>7. \A j \in Start + 1 .. Len(x) : ~Stops(x[j])
    <3>1. \A j \in Start + 1 .. p - 1 : j \in 1 .. p - 1 /\ ~Stops(file[j])
      BY <1>2, <2>1, <2>2, <2>3
    <3> QED  BY <2>6, <3>1
  <2>8. /\ setting.section = None => Start = 0
        /\ setting.section # None => /\ Start # 0 /\ Matches(x[Start])
                                     /\ \A j \in 1 .. Start - 1 : ~Matches(x[j])
    <3>1. (Start # 0 => Start \in 1 .. p - 1) /\ \A j \in 1 .. Start - 1 : j \in 1 .. p - 1
      BY <2>3
    <3> QED  BY <1>2, <2>6, <3>1 DEF HasStart
  <2>9. NewEntry \in PutLines /\ Start \in 0 .. Len(x)
    BY <2>3, <2>6 DEF PutLines
  <2>10. Placed(x \o <<NewEntry>>)
    BY <2>6, <2>7, <2>8, <2>9, PlacedBehind
  <2> QED  BY <1>1, <1>3, <2>4, <2>10
<1> QED  BY <1>1, <1>3, PutPlacesKept

LEMMA PutRestPlaced ==
    ASSUME PutInv, PutPlaces, PutRest, PutInv'
    PROVE  PutPlaces'
<1>1. pc = "rest" /\ UNCHANGED puts
  BY DEF PutRest, RestLine, RestEnd, puts
<1>2. exists /\ ~SameValue /\ (Writes => Placed(out))
  BY <1>1 DEF PutInv, PutPlaces
<1>3. PutLines' = PutLines /\ out' \in Seq(PutLines)' /\ out \in Seq(PutLines)
  BY <1>1, PutInputsKept, PutNumbers DEF PutInv
<1>4. out' \in Seq(PutLines)
  BY <1>3
<1>5. out' = out \/ out' = out \o Cached
  BY DEF PutRest, RestLine, RestEnd, Accumulate
<1>6. Cached \in Seq(PutLines)
  <2>1. mark + cachelen <= Len(file) + 1
    BY <1>1, PutNumbers DEF PutInv, PutResuming
  <2>2. PICK n \in mark - 1 .. Len(file) : n = mark + cachelen - 1
    <3>1. mark + cachelen - 1 \in mark - 1 .. Len(file)
      BY <2>1, PutNumbers
    <3> QED  BY <3>1
  <2>3. SubSeq(file, mark, n) \in Seq(PutLines)
    BY PutNumbers, FileGrows
  <2> QED  BY ONLY <2>2, <2>3 DEF Cached
<1>7. Writes => Placed(out')
  <2>1. Writes => Placed(out \o Cached)
    BY <1>2, <1>3, <1>6, PlacedStays
  <2> QED  BY <1>2, <1>5, <2>1
<1>8. pc' \in {"rest", "done"}
  <2>1. pc' \in {"rest", "done", "reading"}
    BY <1>1 DEF PutRest, RestLine, RestEnd
  <2> QED  BY <2>1, PutRestInv
<1>9. CASE pc' = "rest"
  BY <1>1, <1>7, <1>9, PutPlacesKept
<1>10. CASE pc' = "done"
  BY <1>1, <1>2, <1>4, <1>7, <1>10, PutPlacesDone
<1> QED  BY <1>8, <1>9, <1>10

LEMMA PutPlacesNext == PutInv /\ PutPlaces /\ [PutNext]_putVars => PutPlaces'
<1> SUFFICES ASSUME PutInv, PutPlaces, [PutNext]_putVars PROVE PutPlaces'
  OBVIOUS
<1>1. PutInv'
  BY PutNextInv
<1>2. CASE PutSearchLine \/ PutFound \/ PutKeyLine
  <2>1. UNCHANGED puts /\ pc' \in {"putSearch", "putFound", "putKeys", "putKey"}
    BY <1>2 DEF PutSearchLine, PutFound, PutKeyLine
  <2> QED  BY <2>1, PutPlacesKept
<1>3. CASE UNCHANGED putVars
  <2>1. UNCHANGED puts /\ pc' = pc /\ out' = out
    BY <1>3 DEF putVars, vars, puts, inputs
  <2>2. /\ file' = file /\ setting' = setting /\ exists' = exists
        /\ NewEntry' = NewEntry /\ Writes' = Writes /\ SameValue' = SameValue
        /\ \A line : Stops(line)' = Stops(line)
    BY <2>1, PutInputsKept
  <2>3. Placed(out)' = Placed(out)
    BY <2>1, <2>2 DEF Placed
  <2>4. WrittenIsFound' = WrittenIsFound
    BY <2>1, <2>2 DEF WrittenIsFound
  <2> QED  BY <2>1, <2>2, <2>3, <2>4 DEF PutPlaces
<1> QED
  BY <1>1, <1>2, <1>3, PutStartsPlaced, PutSearchEndPlaced, PutKeysEndPlaced, PutKeyPlaced,
     PutRestPlaced DEF PutNext, PutReturned

LEMMA PutInitPlaces == PutInit => PutPlaces
<1> SUFFICES ASSUME PutInit PROVE PutPlaces
  OBVIOUS
<1>1. setting \in Settings \/ \E v \in Values : setting = Setting("values", "k", v)
  BY DEF PutInit
<1>2. setting.section \in {None, "values", "Values"}
  BY <1>1, SettingsAssumption DEF Setting
<1>3. setting.value # None => setting.value \in Seq(Range(setting.value))
  <2>1. setting.value \in Values \cup {s.value : s \in Settings}
    BY <1>1 DEF Setting
  <2> QED  BY <2>1, ValuesAssumption
<1>4. pc = "puts"
  BY DEF PutInit
<1> QED  BY <1>2, <1>3, <1>4 DEF PutPlaces, WrittenIsFound

(* With any file there is, and wherever in it the setting stands or the    *)
(* section ends, a value that was written is found again.                  *)
THEOREM PutFinds == PutSpec => []WrittenIsFound
<1>1. PutPlaces => WrittenIsFound
  BY DEF PutPlaces
<1> QED  BY <1>1, PutInitPlaces, PutInitInv, PutNextInv, PutPlacesNext, PTL DEF PutSpec
-------------------------------------------------------------------------------
(* The recursive functions of IniText *)

LEMMA EscapedIs ==
    ASSUME NEW C, NEW s \in Seq(C), Quote \in C, Backslash \in C
    PROVE  /\ Escaped(s) \in [0 .. Len(s) -> Seq(C)]
           /\ Escaped(s)[0] = <<>>
           /\ \A i \in 1 .. Len(s) :
                Escaped(s)[i] = Escaped(s)[i - 1]
                                \o (IF s[i] = Quote THEN <<Backslash, Quote>> ELSE <<s[i]>>)
<1> DEFINE I == 0 .. Len(s)
           V == Seq(C)
           add(i) == IF s[i] = Quote THEN <<Backslash, Quote>> ELSE <<s[i]>>
           body(i, g) == IF i = 0 THEN <<>> ELSE g[i - 1] \o add(i)
           step == [i \in I |-> [g \in [I -> V] |-> body(i, g)]]
           m == [i \in I |-> i]
<1>1. Len(s) \in Nat /\ m \in [I -> Nat] /\ <<>> \in V
  OBVIOUS
<1>2. \A i \in 1 .. Len(s) : add(i) \in V
  OBVIOUS
<1>3. step \in [I -> [[I -> V] -> V]]
  <2>1. ASSUME NEW i \in I, NEW g \in [I -> V]
        PROVE  body(i, g) \in V
    <3>1. CASE i = 0
      BY <3>1
    <3>2. CASE i # 0
      <4>1. g[i - 1] \in V /\ add(i) \in V
        <5>1. i \in 1 .. Len(s) /\ i - 1 \in I
          BY <1>1, <3>2
        <5> HIDE DEF I, V, add
        <5> QED  BY <1>2, <5>1 DEF I
      <4> HIDE DEF add
      <4>2. g[i - 1] \o add(i) \in V
        BY <4>1, ConcatProperties
      <4> QED  BY <3>2, <4>2
    <3> QED  BY <3>1, <3>2
  <2> HIDE DEF body, V
  <2> QED  BY <2>1
<1>4. ASSUME NEW i \in I, NEW g \in [I -> V], NEW h \in [I -> V],
             \A j \in I : m[j] < m[i] => g[j] = h[j]
      PROVE  step[i][g] = step[i][h]
  <2>1. i # 0 => g[i - 1] = h[i - 1]
    BY <1>4
  <2> HIDE DEF V, add
  <2> QED  BY <2>1
<1>5. \A i \in I : m[i] < Len(s) + 1
  OBVIOUS
<1>6. PICK f \in [I -> V] : \A i \in I : f[i] = step[i][f]
  <2>1. \A i \in I : \A g, h \in [I -> V] :
           (\A j \in I : m[j] < m[i] => g[j] = h[j]) => step[i][g] = step[i][h]
    <3> HIDE DEF I, V, step, m
    <3> QED  BY <1>4
  <2>2. Len(s) + 1 \in Nat
    BY <1>1
  <2> HIDE DEF I, V, step, m
  <2>3. Descends(I, V, m, step)
    BY <1>1, <1>3, <1>5, <2>1, <2>2 DEF Descends
  <2> QED  BY <2>3, Recursion DEF Computes
<1>7. f = [i \in 0 .. Len(s) |-> IF i = 0 THEN <<>> ELSE f[i - 1] \o IF s[i] = Quote THEN <<Backslash, Quote>> ELSE <<s[i]>>]
  <2>1. \A i \in I : f[i] = body(i, f)
    BY <1>6
  <2> QED  BY <1>6, <2>1
<1>8. Escaped(s) = [i \in 0 .. Len(s) |-> IF i = 0 THEN <<>> ELSE Escaped(s)[i - 1] \o IF s[i] = Quote THEN <<Backslash, Quote>> ELSE <<s[i]>>]
  <2> HIDE DEF I, V, step, m
  <2> QED  BY <1>7 DEF Escaped
<1> HIDE DEF step, m
<1> DEFINE T == {i \in Nat : i \in I => Escaped(s)[i] \in V}
<1>9. 0 \in T /\ \A k \in Nat : k \in T => k + 1 \in T
  <2>1. 0 \in T
    BY <1>8
  <2>2. ASSUME NEW k \in Nat, k \in T
        PROVE  k + 1 \in T
    <3>1. SUFFICES ASSUME k + 1 \in I
                   PROVE  Escaped(s)[k + 1] \in V
      OBVIOUS
    <3>2. k \in I /\ k + 1 \in 1 .. Len(s) /\ (k + 1) - 1 = k /\ k + 1 # 0
      BY <3>1
    <3>3. Escaped(s)[k] \in V /\ add(k + 1) \in V
      BY <1>2, <2>2, <3>2
    <3>4. Escaped(s)[k + 1] = Escaped(s)[k] \o add(k + 1)
      BY <1>8, <3>1, <3>2
    <3> HIDE DEF add
    <3> QED  BY <3>3, <3>4, ConcatProperties
  <2> QED  BY <2>1, <2>2
<1>10. \A i \in I : Escaped(s)[i] \in V
  <2>1. Nat \subseteq T
    <3> HIDE DEF T
    <3> QED  BY <1>9, Induction
  <2> QED  BY <2>1
<1>11. ASSUME NEW i \in 1 .. Len(s)
       PROVE  Escaped(s)[i] = Escaped(s)[i - 1] \o add(i)
  <2>1. i \in I /\ i # 0
    OBVIOUS
  <2> QED  BY <1>8, <2>1
<1>12. Escaped(s)[0] = <<>>
  BY <1>8
<1>13. Escaped(s) \in [I -> V]
  <2> DEFINE e == Escaped(s)
  <2>1. e = [i \in I |-> e[i]]
    <3> DEFINE G == [i \in 0 .. Len(s) |-> IF i = 0 THEN <<>> ELSE Escaped(s)[i - 1] \o IF s[i] = Quote THEN <<Backslash, Quote>> ELSE <<s[i]>>]
    <3>1. G = [i \in I |-> G[i]]
      OBVIOUS
    <3>2. e = G
      BY <1>8
    <3> HIDE DEF G, e
    <3> QED  BY <3>1, <3>2
  <2> HIDE DEF e, V, I
  <2>2. \A i \in I : e[i] \in V
    BY <1>10 DEF e
  <2>3. e \in [I -> V]
    BY <2>1, <2>2
  <2> QED  BY <2>3 DEF e
<1> QED  BY <1>11, <1>12, <1>13

LEMMA UnescapedIs ==
    ASSUME NEW C, NEW s \in Seq(C), Quote \in C
    PROVE  \A i \in 1 .. Len(s) + 2 :
              Unescaped(s)[i] =
                 IF i > Len(s) THEN <<>>
                 ELSE IF s[i] \in {Quote, Backslash} /\ At(s, i + 1, Quote)
                 THEN <<Quote>> \o Unescaped(s)[i + 2]
                 ELSE <<s[i]>> \o Unescaped(s)[i + 1]
<1> DEFINE I == 1 .. Len(s) + 2
           V == Seq(C)
           pair(i) == s[i] \in {Quote, Backslash} /\ At(s, i + 1, Quote)
           body(i, g) == IF i > Len(s) THEN <<>>
                         ELSE IF pair(i) THEN <<Quote>> \o g[i + 2]
                         ELSE <<s[i]>> \o g[i + 1]
           step == [i \in I |-> [g \in [I -> V] |-> body(i, g)]]
           m == [i \in I |-> Len(s) + 2 - i]
<1>1. Len(s) \in Nat /\ m \in [I -> Nat] /\ V # {} /\ Len(s) + 2 \in Nat
  <2>1. Len(s) \in Nat /\ <<>> \in V
    OBVIOUS
  <2> QED  BY <2>1
<1>2. step \in [I -> [[I -> V] -> V]]
  <2>1. ASSUME NEW i \in I, NEW g \in [I -> V]
        PROVE  body(i, g) \in V
    <3>1. CASE i > Len(s)
      BY <3>1
    <3>2. CASE ~(i > Len(s))
      <4>1. i + 1 \in I /\ i + 2 \in I /\ i \in 1 .. Len(s)
        BY <3>2, <1>1
      <4>2. g[i + 1] \in V /\ g[i + 2] \in V /\ s[i] \in C
        <5>1. s[i] \in C
          BY <4>1
        <5> HIDE DEF I, V
        <5> QED  BY <4>1, <5>1
      <4>3. <<Quote>> \in V /\ <<s[i]>> \in V
        BY <4>2
      <4>4. <<Quote>> \o g[i + 2] \in V /\ <<s[i]>> \o g[i + 1] \in V
        BY <4>2, <4>3, ConcatProperties
      <4> HIDE DEF pair, V
      <4> QED  BY <3>2, <4>4
    <3> QED  BY <3>1, <3>2
  <2> HIDE DEF body, V
  <2> QED  BY <2>1
<1>3. ASSUME NEW i \in I, NEW g \in [I -> V], NEW h \in [I -> V],
             \A j \in I : m[j] < m[i] => g[j] = h[j]
      PROVE  step[i][g] = step[i][h]
  <2>1. ~(i > Len(s)) => g[i + 1] = h[i + 1] /\ g[i + 2] = h[i + 2]
    <3> HAVE ~(i > Len(s))
    <3>1. i + 1 \in I /\ i + 2 \in I /\ m[i + 1] < m[i] /\ m[i + 2] < m[i]
      BY <1>1
    <3> QED  BY <1>3, <3>1
  <2> HIDE DEF V, pair
  <2> QED  BY <2>1
<1>4. PICK f \in [I -> V] : \A i \in I : f[i] = step[i][f]
  <2>1. \A i \in I : \A g, h \in [I -> V] :
           (\A j \in I : m[j] < m[i] => g[j] = h[j]) => step[i][g] = step[i][h]
    <3> HIDE DEF I, V, step, m
    <3> QED  BY <1>3
  <2>2. Len(s) + 2 \in Nat /\ \A i \in I : m[i] < Len(s) + 2
    BY <1>1
  <2> HIDE DEF I, V, step, m
  <2>3. Descends(I, V, m, step)
    BY <1>1, <1>2, <2>1, <2>2 DEF Descends
  <2> QED  BY <2>3, Recursion DEF Computes
<1>5. f = [i \in 1 .. Len(s) + 2 |->
             IF i > Len(s) THEN <<>>
             ELSE IF s[i] \in {Quote, Backslash} /\ At(s, i + 1, Quote)
             THEN <<Quote>> \o f[i + 2]
             ELSE <<s[i]>> \o f[i + 1]]
  <2>1. \A i \in I : f[i] = body(i, f)
    <3> HIDE DEF V, body
    <3> QED  BY <1>4
  <2> HIDE DEF V
  <2> QED  BY <1>4, <2>1
<1>6. Unescaped(s) = [i \in 1 .. Len(s) + 2 |->
             IF i > Len(s) THEN <<>>
             ELSE IF s[i] \in {Quote, Backslash} /\ At(s, i + 1, Quote)
             THEN <<Quote>> \o Unescaped(s)[i + 2]
             ELSE <<s[i]>> \o Unescaped(s)[i + 1]]
  <2> HIDE DEF I, V, step, m
  <2> QED  BY <1>5 DEF Unescaped
<1> HIDE DEF step, m, V
<1> QED  BY <1>6

LEMMA CommentFromIs ==
    ASSUME NEW C, NEW s \in Seq(C)
    PROVE  \A i \in 1 .. Len(s) + 2 : \A inString \in BOOLEAN :
              CommentFrom(s)[i][inString] =
                 IF i > Len(s) THEN Len(s) + 1
                 ELSE IF s[i] = Comment /\ ~inString THEN i
                 ELSE IF s[i] \in {Quote, Backslash} /\ At(s, i + 1, Quote)
                 THEN CommentFrom(s)[i + 2][inString]
                 ELSE IF s[i] = Quote THEN CommentFrom(s)[i + 1][~inString]
                 ELSE CommentFrom(s)[i + 1][inString]
<1> DEFINE I == 1 .. Len(s) + 2
           V == [BOOLEAN -> Nat]
           pair(i) == s[i] \in {Quote, Backslash} /\ At(s, i + 1, Quote)
           body(i, g) == [inString \in BOOLEAN |->
                            IF i > Len(s) THEN Len(s) + 1
                            ELSE IF s[i] = Comment /\ ~inString THEN i
                            ELSE IF pair(i) THEN g[i + 2][inString]
                            ELSE IF s[i] = Quote THEN g[i + 1][~inString]
                            ELSE g[i + 1][inString]]
           step == [i \in I |-> [g \in [I -> V] |-> body(i, g)]]
           m == [i \in I |-> Len(s) + 2 - i]
<1>1. Len(s) \in Nat /\ m \in [I -> Nat] /\ V # {} /\ Len(s) + 2 \in Nat
  <2>1. Len(s) \in Nat
    OBVIOUS
  <2>2. [b \in BOOLEAN |-> 0] \in V
    OBVIOUS
  <2>3. m \in [I -> Nat] /\ Len(s) + 2 \in Nat
    BY <2>1
  <2> HIDE DEF V, m
  <2> QED  BY <2>1, <2>2, <2>3
<1>2. step \in [I -> [[I -> V] -> V]]
  <2>1. ASSUME NEW i \in I, NEW g \in [I -> V]
        PROVE  body(i, g) \in V
    <3>1. CASE i > Len(s)
      BY <1>1, <3>1
    <3>2. CASE ~(i > Len(s))
      <4>1. i + 1 \in I /\ i + 2 \in I /\ i \in Nat
        BY <3>2, <1>1
      <4>2. g[i + 1] \in V /\ g[i + 2] \in V
        BY <4>1
      <4> HIDE DEF pair, I
      <4> QED  BY <3>2, <4>1, <4>2
    <3> QED  BY <3>1, <3>2
  <2> HIDE DEF body, V
  <2> QED  BY <2>1
<1>3. ASSUME NEW i \in I, NEW g \in [I -> V], NEW h \in [I -> V],
             \A j \in I : m[j] < m[i] => g[j] = h[j]
      PROVE  step[i][g] = step[i][h]
  <2>1. ~(i > Len(s)) => g[i + 1] = h[i + 1] /\ g[i + 2] = h[i + 2]
    <3> HAVE ~(i > Len(s))
    <3>1. i + 1 \in I /\ i + 2 \in I /\ m[i + 1] < m[i] /\ m[i + 2] < m[i]
      BY <1>1
    <3> QED  BY <1>3, <3>1
  <2> HIDE DEF V, pair
  <2> QED  BY <2>1
<1>4. PICK f \in [I -> V] : \A i \in I : f[i] = step[i][f]
  <2>1. \A i \in I : \A g, h \in [I -> V] :
           (\A j \in I : m[j] < m[i] => g[j] = h[j]) => step[i][g] = step[i][h]
    <3> HIDE DEF I, V, step, m
    <3> QED  BY <1>3
  <2>2. Len(s) + 2 \in Nat /\ \A i \in I : m[i] < Len(s) + 2
    BY <1>1
  <2> HIDE DEF I, V, step, m
  <2>3. Descends(I, V, m, step)
    BY <1>1, <1>2, <2>1, <2>2 DEF Descends
  <2> QED  BY <2>3, Recursion DEF Computes
<1>5. f = [i \in 1 .. Len(s) + 2 |-> [inString \in BOOLEAN |->
                 IF i > Len(s) THEN Len(s) + 1
                 ELSE IF s[i] = Comment /\ ~inString THEN i
                 ELSE IF s[i] \in {Quote, Backslash} /\ At(s, i + 1, Quote)
                 THEN f[i + 2][inString]
                 ELSE IF s[i] = Quote THEN f[i + 1][~inString]
                 ELSE f[i + 1][inString]]]
  <2>1. \A i \in I : f[i] = body(i, f)
    <3> HIDE DEF V, body
    <3> QED  BY <1>4
  <2> HIDE DEF V
  <2> QED  BY <1>4, <2>1
<1>6. CommentFrom(s) = [i \in 1 .. Len(s) + 2 |-> [inString \in BOOLEAN |->
                 IF i > Len(s) THEN Len(s) + 1
                 ELSE IF s[i] = Comment /\ ~inString THEN i
                 ELSE IF s[i] \in {Quote, Backslash} /\ At(s, i + 1, Quote)
                 THEN CommentFrom(s)[i + 2][inString]
                 ELSE IF s[i] = Quote THEN CommentFrom(s)[i + 1][~inString]
                 ELSE CommentFrom(s)[i + 1][inString]]]
  <2> HIDE DEF I, V, step, m
  <2> QED  BY <1>5 DEF CommentFrom
<1> HIDE DEF step, m, V
<1> QED  BY <1>6
-------------------------------------------------------------------------------
(* What ini_strncpy escapes it finds again. *)

(* The text up to a character is the beginning of the text up to a later   *)
(* one.                                                                    *)
LEMMA EscapedGrows ==
    ASSUME NEW C, NEW v \in Seq(C), Quote \in C, Backslash \in C,
           NEW i \in 0 .. Len(v), NEW n \in i .. Len(v)
    PROVE  /\ Len(Escaped(v)[i]) \in Nat /\ Len(Escaped(v)[i]) <= Len(Escaped(v)[n])
           /\ \A p \in 1 .. Len(Escaped(v)[i]) : Escaped(v)[n][p] = Escaped(v)[i][p]
<1>0. /\ Escaped(v) \in [0 .. Len(v) -> Seq(C)]
      /\ \A j \in 1 .. Len(v) :
           Escaped(v)[j] = Escaped(v)[j - 1]
                           \o (IF v[j] = Quote THEN <<Backslash, Quote>> ELSE <<v[j]>>)
  BY EscapedIs
<1> DEFINE E(j) == Escaped(v)[j]
           add(j) == IF v[j] = Quote THEN <<Backslash, Quote>> ELSE <<v[j]>>
           Grown(j) == /\ Len(E(i)) <= Len(E(j))
                       /\ \A p \in 1 .. Len(E(i)) : E(j)[p] = E(i)[p]
           T == {k \in Nat : i + k <= Len(v) => Grown(i + k)}
<1>1. \A j \in 0 .. Len(v) : E(j) \in Seq(C) /\ Len(E(j)) \in Nat
  BY <1>0, LenProperties
<1>2. ASSUME NEW j \in 1 .. Len(v)
      PROVE  E(j) = E(j - 1) \o add(j) /\ add(j) \in Seq(C)
  <2>1. v[j] \in C
    OBVIOUS
  <2>2. add(j) \in Seq(C)
    BY <2>1
  <2> QED  BY <1>0, <2>2
<1> HIDE DEF E, add
<1>3. 0 \in T
  <2>1. i + 0 = i
    OBVIOUS
  <2>2. Grown(i)
    BY <1>1
  <2> HIDE DEF Grown
  <2> QED  BY <2>1, <2>2
<1>4. ASSUME NEW k \in Nat, k \in T
      PROVE  k + 1 \in T
  <2> SUFFICES ASSUME i + (k + 1) <= Len(v)
               PROVE  Grown(i + (k + 1))
    OBVIOUS
  <2> DEFINE j == i + k
  <2>1. j + 1 = i + (k + 1) /\ j \in 0 .. Len(v) /\ j + 1 \in 1 .. Len(v) /\ (j + 1) - 1 = j
    OBVIOUS
  <2>2. Grown(j)
    BY <1>4, <2>1
  <2> HIDE DEF j
  <2>3. E(j + 1) = E(j) \o add(j + 1) /\ add(j + 1) \in Seq(C)
    BY <1>2, <2>1
  <2>4. E(i) \in Seq(C) /\ E(j) \in Seq(C)
    BY <1>1, <2>1
  <2>5. /\ Len(E(j + 1)) = Len(E(j)) + Len(add(j + 1))
        /\ \A p \in 1 .. Len(E(j)) : E(j + 1)[p] = E(j)[p]
    BY <2>3, <2>4, ConcatProperties
  <2>6. Len(E(i)) \in Nat /\ Len(E(j)) \in Nat /\ Len(add(j + 1)) \in Nat
    BY <2>3, <2>4, LenProperties
  <2>7. Grown(j + 1)
    BY <2>2, <2>5, <2>6
  <2> QED  BY <2>1, <2>7
<1>5. n - i \in T
  <2>1. Nat \subseteq T
    <3> HIDE DEF T
    <3> QED  BY <1>3, <1>4, Induction
  <2>2. n - i \in Nat
    OBVIOUS
  <2> HIDE DEF T
  <2> QED  BY <2>1, <2>2
<1>6. Grown(n)
  <2>1. i + (n - i) = n /\ n <= Len(v)
    OBVIOUS
  <2> HIDE DEF Grown
  <2> QED  BY <1>5, <2>1
<1> QED  BY <1>1, <1>6 DEF E

(* Where the text of a character stands in the text *)
LEMMA EscapedAt ==
    ASSUME NEW C, NEW v \in Seq(C), Quote \in C, Backslash \in C,
           NEW n \in 0 .. Len(v), NEW i \in 0 .. n - 1
    PROVE  LET e == Escaped(v)[n]
               p == Len(Escaped(v)[i]) IN
           /\ v[i + 1] = Quote => /\ e[p + 1] = Backslash /\ e[p + 2] = Quote
                                  /\ Len(Escaped(v)[i + 1]) = p + 2
           /\ v[i + 1] # Quote => /\ e[p + 1] = v[i + 1]
                                  /\ Len(Escaped(v)[i + 1]) = p + 1
           /\ Len(Escaped(v)[i + 1]) <= Len(e)
<1>0. /\ Escaped(v) \in [0 .. Len(v) -> Seq(C)]
      /\ \A j \in 1 .. Len(v) :
           Escaped(v)[j] = Escaped(v)[j - 1]
                           \o (IF v[j] = Quote THEN <<Backslash, Quote>> ELSE <<v[j]>>)
  BY EscapedIs
<1> DEFINE e == Escaped(v)[n]
           f == Escaped(v)[i + 1]
           d == Escaped(v)[i]
           add == IF v[i + 1] = Quote THEN <<Backslash, Quote>> ELSE <<v[i + 1]>>
<1>1. i + 1 \in 0 .. Len(v) /\ i + 1 \in 1 .. Len(v) /\ n \in i + 1 .. Len(v) /\ (i + 1) - 1 = i
  OBVIOUS
<1>2. f = d \o add /\ d \in Seq(C) /\ Len(d) \in Nat
  <2>1. i \in 0 .. Len(v)
    BY <1>1
  <2>2. d \in Seq(C)
    BY <1>0, <2>1
  <2>3. f = d \o add
    BY <1>0, <1>1
  <2> QED  BY <2>2, <2>3, LenProperties
<1>3. Len(f) <= Len(e) /\ \A p \in 1 .. Len(f) : e[p] = f[p]
  BY <1>1, EscapedGrows
<1>4. CASE v[i + 1] = Quote
  <2>1. f = d \o <<Backslash, Quote>>
    BY <1>2, <1>4
  <2> HIDE DEF f, d, add, e
  <2>2. Len(f) = Len(d) + 2 /\ f[Len(d) + 1] = Backslash /\ f[Len(d) + 2] = Quote
    BY <1>2, <2>1
  <2>3. e[Len(d) + 1] = Backslash /\ e[Len(d) + 2] = Quote
    <3>1. Len(d) \in Nat
      BY <1>2
    <3>2. Len(d) + 1 \in 1 .. Len(f) /\ Len(d) + 2 \in 1 .. Len(f)
      BY ONLY <3>1, <2>2
    <3> QED  BY ONLY <1>3, <2>2, <3>2
  <2> QED  BY <1>3, <1>4, <2>2, <2>3 DEF f, d, e
<1>5. CASE v[i + 1] # Quote
  <2>1. f = d \o <<v[i + 1]>>
    BY <1>2, <1>5
  <2> HIDE DEF f, d, add, e
  <2>2. Len(f) = Len(d) + 1 /\ f[Len(d) + 1] = v[i + 1]
    BY <1>2, <2>1
  <2>3. e[Len(d) + 1] = v[i + 1]
    <3>1. Len(d) \in Nat
      BY <1>2
    <3>2. Len(d) + 1 \in 1 .. Len(f)
      BY ONLY <3>1, <2>2
    <3> QED  BY ONLY <1>3, <2>2, <3>2
  <2> QED  BY <1>3, <1>5, <2>2, <2>3 DEF f, d, e
<1> QED  BY <1>4, <1>5

(* Unescaping gives back what was escaped. *)
LEMMA UnescapedBack ==
    ASSUME NEW C, NEW v \in Seq(C), Quote \in C, Backslash \in C, NEW n \in 0 .. Len(v)
    PROVE  Unescaped(Escaped(v)[n])[1] = SubSeq(v, 1, n)
<1> DEFINE e == Escaped(v)[n]
           U(p) == Unescaped(e)[p]
           L(i) == Len(Escaped(v)[i])
           Back(i) == U(L(i) + 1) = SubSeq(v, i + 1, n)
           T == {k \in Nat : k <= n => Back(n - k)}
<1>1. e \in Seq(C) /\ Len(e) \in Nat /\ L(0) = 0
  <2>1. Escaped(v) \in [0 .. Len(v) -> Seq(C)] /\ Escaped(v)[0] = <<>>
    BY EscapedIs
  <2> QED  BY <2>1, LenProperties
<1>2. \A p \in 1 .. Len(e) + 2 :
         U(p) = IF p > Len(e) THEN <<>>
                ELSE IF e[p] \in {Quote, Backslash} /\ At(e, p + 1, Quote)
                THEN <<Quote>> \o U(p + 2)
                ELSE <<e[p]>> \o U(p + 1)
  <2> HIDE DEF e
  <2> QED  BY <1>1, UnescapedIs
<1>3. ASSUME NEW i \in 0 .. n - 1
      PROVE  /\ L(i) \in Nat /\ L(i + 1) <= Len(e)
             /\ v[i + 1] = Quote => /\ e[L(i) + 1] = Backslash /\ e[L(i) + 2] = Quote
                                    /\ L(i + 1) = L(i) + 2
             /\ v[i + 1] # Quote => /\ e[L(i) + 1] = v[i + 1]
                                    /\ L(i + 1) = L(i) + 1
  <2>1. L(i) \in Nat
    <3>1. i \in 0 .. Len(v) /\ n \in i .. Len(v)
      OBVIOUS
    <3> QED  BY <3>1, EscapedGrows
  <2> QED  BY <2>1, EscapedAt
<1>4. \A p \in 1 .. Len(e) : At(e, p, Quote) <=> e[p] = Quote
  BY <1>1, LenProperties DEF At
<1>5. ~At(e, Len(e) + 1, Quote)
  BY <1>1, LenProperties DEF At
<1> HIDE DEF U, L
<1>6. 0 \in T
  <2>1. L(n) = Len(e)
    BY DEF L
  <2> HIDE DEF e
  <2>2. Len(e) + 1 \in 1 .. Len(e) + 2 /\ Len(e) + 1 > Len(e)
    BY <1>1
  <2>3. U(Len(e) + 1) = <<>>
    BY <1>2, <2>2
  <2>4. SubSeq(v, n + 1, n) = <<>> /\ n - 0 = n
    OBVIOUS
  <2> QED  BY <2>1, <2>3, <2>4
<1> HIDE DEF e
<1>7. ASSUME NEW k \in Nat, k \in T
      PROVE  k + 1 \in T
  <2> SUFFICES ASSUME k + 1 <= n
               PROVE  Back(n - (k + 1))
    OBVIOUS
  <2> DEFINE j == n - (k + 1)
  <2>1. j \in 0 .. n - 1 /\ j + 1 = n - k /\ k <= n /\ j + 1 \in 1 .. n
    OBVIOUS
  <2>2. Back(j + 1)
    BY <1>7, <2>1
  <2> HIDE DEF j, Back
  <2>3. /\ L(j) \in Nat /\ L(j + 1) <= Len(e)
        /\ v[j + 1] = Quote => /\ e[L(j) + 1] = Backslash /\ e[L(j) + 2] = Quote
                               /\ L(j + 1) = L(j) + 2
        /\ v[j + 1] # Quote => /\ e[L(j) + 1] = v[j + 1] /\ L(j + 1) = L(j) + 1
    BY <1>3, <2>1
  <2>4. U(L(j) + 1) = <<v[j + 1]>> \o U(L(j + 1) + 1)
    <3>1. CASE v[j + 1] = Quote
      <4>1. /\ L(j) + 1 \in 1 .. Len(e) + 2 /\ ~(L(j) + 1 > Len(e))
            /\ (L(j) + 1) + 1 \in 1 .. Len(e) /\ (L(j) + 1) + 1 = L(j) + 2
            /\ (L(j) + 1) + 2 = L(j + 1) + 1
        BY <1>1, <2>3, <3>1
      <4>2. At(e, (L(j) + 1) + 1, Quote) /\ e[L(j) + 1] = Backslash
        BY <1>4, <2>3, <3>1, <4>1
      <4> QED  BY <1>2, <3>1, <4>1, <4>2
    <3>2. CASE v[j + 1] # Quote
      <4>1. /\ L(j) + 1 \in 1 .. Len(e) + 2 /\ ~(L(j) + 1 > Len(e))
            /\ (L(j) + 1) + 1 = L(j + 1) + 1 /\ e[L(j) + 1] = v[j + 1]
        BY <1>1, <2>3, <3>2
      <4>2. ~At(e, L(j + 1) + 1, Quote)
        <5>1. CASE j + 1 = n
          <6>1. L(j + 1) = Len(e)
            BY <5>1 DEF L, e
          <6> QED  BY <1>5, <6>1
        <5>2. CASE j + 1 # n
          <6>1. j + 1 \in 0 .. n - 1
            BY <2>1, <5>2
          <6> DEFINE i == j + 1
          <6> HIDE DEF i
          <6>2. i \in 0 .. n - 1
            BY <6>1 DEF i
          <6>3. /\ L(i) \in Nat /\ L(i + 1) <= Len(e)
                /\ v[i + 1] = Quote => /\ e[L(i) + 1] = Backslash /\ e[L(i) + 2] = Quote
                                       /\ L(i + 1) = L(i) + 2
                /\ v[i + 1] # Quote => /\ e[L(i) + 1] = v[i + 1]
                                       /\ L(i + 1) = L(i) + 1
            BY <6>2, <1>3
          <6>4. e[L(i) + 1] # Quote
            BY <6>3 DEF Quote, Backslash
          <6>5. L(i) + 1 \in 1 .. Len(e)
            BY <1>1, <6>3
          <6> QED  BY <1>4, <6>4, <6>5 DEF i
        <5> QED  BY <5>1, <5>2
      <4> QED  BY <1>2, <3>2, <4>1, <4>2
    <3> QED  BY <3>1, <3>2
  <2>5. SubSeq(v, j + 1, n) = <<v[j + 1]>> \o SubSeq(v, (j + 1) + 1, n)
    BY <2>1
  <2>6. Back(j)
    BY <2>2, <2>4, <2>5 DEF Back
  <2> QED  BY <2>6 DEF j
<1>8. n \in T
  <2>1. Nat \subseteq T
    <3> HIDE DEF T
    <3> QED  BY <1>6, <1>7, Induction
  <2>2. n \in Nat
    OBVIOUS
  <2> HIDE DEF T
  <2> QED  BY <2>1, <2>2
<1>9. Back(0)
  <2>1. n <= n /\ n - n = 0
    OBVIOUS
  <2> HIDE DEF Back
  <2> QED  BY <1>8, <2>1
<1>10. L(0) + 1 = 1 /\ 0 + 1 = 1
  BY <1>1
<1> QED  BY <1>9, <1>10 DEF U, e

(* cleanstring leaves a text alone that has no comment character, ... *)
LEMMA NoComment ==
    ASSUME NEW C, NEW s \in Seq(C), \A i \in 1 .. Len(s) : s[i] # Comment
    PROVE  CommentStart(s) = Len(s) + 1
<1> DEFINE F(i, b) == CommentFrom(s)[i][b]
           Ends(i) == \A b \in BOOLEAN : F(i, b) = Len(s) + 1
           T == {k \in Nat : \A i \in 1 .. Len(s) + 2 : Len(s) + 2 - i <= k => Ends(i)}
<1>1. \A i \in 1 .. Len(s) + 2 : \A b \in BOOLEAN :
         F(i, b) = IF i > Len(s) THEN Len(s) + 1
                   ELSE IF s[i] = Comment /\ ~b THEN i
                   ELSE IF s[i] \in {Quote, Backslash} /\ At(s, i + 1, Quote) THEN F(i + 2, b)
                   ELSE IF s[i] = Quote THEN F(i + 1, ~b)
                   ELSE F(i + 1, b)
  BY CommentFromIs
<1> HIDE DEF F
<1>2. Len(s) \in Nat
  OBVIOUS
<1>3. 0 \in T
  <2>1. ASSUME NEW i \in 1 .. Len(s) + 2, Len(s) + 2 - i <= 0
        PROVE  Ends(i)
    <3>1. i > Len(s)
      BY <1>2, <2>1
    <3> QED  BY <1>1, <3>1
  <2> HIDE DEF Ends
  <2> QED  BY <2>1
<1>4. ASSUME NEW k \in Nat, k \in T
      PROVE  k + 1 \in T
  <2>1. ASSUME NEW i \in 1 .. Len(s) + 2, Len(s) + 2 - i <= k + 1
        PROVE  Ends(i)
    <3>1. CASE i > Len(s)
      BY <1>1, <3>1
    <3>2. CASE ~(i > Len(s))
      <4>1. /\ i + 1 \in 1 .. Len(s) + 2 /\ i + 2 \in 1 .. Len(s) + 2 /\ i \in 1 .. Len(s)
            /\ Len(s) + 2 - (i + 1) <= k /\ Len(s) + 2 - (i + 2) <= k
        BY <1>2, <2>1, <3>2
      <4>2. Ends(i + 1) /\ Ends(i + 2)
        BY <1>4, <4>1
      <4>3. s[i] # Comment
        BY <4>1
      <4> QED  BY <1>1, <3>2, <4>2, <4>3
    <3> QED  BY <3>1, <3>2
  <2> HIDE DEF Ends
  <2> QED  BY <2>1
<1>5. Len(s) + 1 \in T
  <2>1. Nat \subseteq T
    <3> HIDE DEF T
    <3> QED  BY <1>3, <1>4, Induction
  <2> HIDE DEF T
  <2> QED  BY <1>2, <2>1
<1>6. Ends(1)
  <2>1. 1 \in 1 .. Len(s) + 2 /\ Len(s) + 2 - 1 <= Len(s) + 1
    BY <1>2
  <2> HIDE DEF Ends
  <2> QED  BY <1>5, <2>1
<1> QED  BY <1>6 DEF F, CommentStart

(* ... and one that has been put between quotes. *)
LEMMA QuotedNoComment ==
    ASSUME NEW C, NEW v \in Seq(C), Quote \in C, Backslash \in C, NEW n \in 0 .. Len(v),
           NEW t \in Seq(C), Len(t) = Len(Escaped(v)[n]) + 2,
           t[1] = Quote, t[Len(Escaped(v)[n]) + 2] = Quote,
           \A p \in 1 .. Len(Escaped(v)[n]) : t[p + 1] = Escaped(v)[n][p]
    PROVE  CommentStart(t) = Len(t) + 1
<1> DEFINE e == Escaped(v)[n]
           F(i, b) == CommentFrom(t)[i][b]
           L(i) == Len(Escaped(v)[i])
           Ends(i) == F(L(i) + 2, TRUE) = Len(t) + 1
           T == {k \in Nat : k <= n => Ends(n - k)}
<1>1. e \in Seq(C) /\ Len(e) \in Nat /\ L(0) = 0
  <2>1. Escaped(v) \in [0 .. Len(v) -> Seq(C)] /\ Escaped(v)[0] = <<>>
    BY EscapedIs
  <2> QED  BY <2>1, LenProperties
<1>2. /\ t \in Seq(C) /\ Len(t) = Len(e) + 2 /\ t[1] = Quote /\ t[Len(e) + 2] = Quote
      /\ \A p \in 1 .. Len(e) : t[p + 1] = e[p]
  OBVIOUS
<1>3. \A i \in 1 .. Len(t) + 2 : \A b \in BOOLEAN :
         F(i, b) = IF i > Len(t) THEN Len(t) + 1
                   ELSE IF t[i] = Comment /\ ~b THEN i
                   ELSE IF t[i] \in {Quote, Backslash} /\ At(t, i + 1, Quote) THEN F(i + 2, b)
                   ELSE IF t[i] = Quote THEN F(i + 1, ~b)
                   ELSE F(i + 1, b)
  BY <1>2, CommentFromIs
<1>4. ASSUME NEW i \in 0 .. n - 1
      PROVE  /\ L(i) \in Nat /\ L(i + 1) <= Len(e)
             /\ v[i + 1] = Quote => /\ e[L(i) + 1] = Backslash /\ e[L(i) + 2] = Quote
                                    /\ L(i + 1) = L(i) + 2
             /\ v[i + 1] # Quote => /\ e[L(i) + 1] = v[i + 1]
                                    /\ L(i + 1) = L(i) + 1
  <2>1. L(i) \in Nat
    <3>1. i \in 0 .. Len(v) /\ n \in i .. Len(v)
      OBVIOUS
    <3> QED  BY <3>1, EscapedGrows
  <2> QED  BY <2>1, EscapedAt
<1>5. /\ \A p \in 1 .. Len(t) : At(t, p, Quote) <=> t[p] = Quote
      /\ ~At(t, Len(t) + 1, Quote)
  BY <1>2, LenProperties DEF At
<1>6. L(n) = Len(e)
  OBVIOUS
<1> HIDE DEF F, L, e
<1>7. 0 \in T
  <2>1. /\ Len(t) \in 1 .. Len(t) + 2 /\ ~(Len(t) > Len(t)) /\ t[Len(t)] = Quote
        /\ Len(t) + 1 \in 1 .. Len(t) + 2 /\ Len(t) + 1 > Len(t) /\ L(n) + 2 = Len(t)
    BY <1>1, <1>2, <1>6
  <2>2. F(Len(t), TRUE) = F(Len(t) + 1, FALSE)
    BY <1>3, <1>5, <2>1
  <2>3. F(Len(t) + 1, FALSE) = Len(t) + 1
    BY <1>3, <2>1
  <2>4. n - 0 = n
    OBVIOUS
  <2> QED  BY <2>1, <2>2, <2>3, <2>4
<1>8. ASSUME NEW k \in Nat, k \in T
      PROVE  k + 1 \in T
  <2> HIDE DEF Ends
  <2> SUFFICES ASSUME k + 1 <= n
               PROVE  Ends(n - (k + 1))
    OBVIOUS
  <2> DEFINE j == n - (k + 1)
             q == L(j) + 2
  <2>1. j \in 0 .. n - 1 /\ j + 1 = n - k /\ k <= n /\ j + 1 \in 1 .. n
    OBVIOUS
  <2>2. F(L(j + 1) + 2, TRUE) = Len(t) + 1
    BY <1>8, <2>1 DEF Ends
  <2> HIDE DEF j
  <2>3. /\ L(j) \in Nat /\ L(j + 1) <= Len(e)
        /\ v[j + 1] = Quote => /\ e[L(j) + 1] = Backslash /\ e[L(j) + 2] = Quote
                               /\ L(j + 1) = L(j) + 2
        /\ v[j + 1] # Quote => /\ e[L(j) + 1] = v[j + 1] /\ L(j + 1) = L(j) + 1
    BY <1>4, <2>1
  <2>4. CASE v[j + 1] = Quote
    <3>1. /\ q \in 1 .. Len(t) + 2 /\ ~(q > Len(t)) /\ q + 1 \in 1 .. Len(t)
          /\ q + 2 = L(j + 1) + 2
          /\ L(j) + 1 \in 1 .. Len(e) /\ (L(j) + 1) + 1 = q
          /\ L(j) + 2 \in 1 .. Len(e) /\ (L(j) + 2) + 1 = q + 1
      <4>1. /\ L(j) \in Nat /\ L(j + 1) = L(j) + 2 /\ L(j + 1) <= Len(e)
            /\ Len(e) \in Nat /\ Len(t) = Len(e) + 2 /\ q = L(j) + 2
        BY <1>1, <1>2, <2>3, <2>4
      <4> QED  BY ONLY <4>1
    <3>2. t[q] = Backslash /\ t[q + 1] = Quote
      BY <1>2, <2>3, <2>4, <3>1
    <3>3. At(t, q + 1, Quote)
      BY <1>5, <3>1, <3>2
    <3> HIDE DEF q
    <3>4. F(q, TRUE) = F(q + 2, TRUE)
      BY <1>3, <3>1, <3>2, <3>3
    <3> QED  BY <2>2, <3>1, <3>4 DEF q, j, Ends
  <2>5. CASE v[j + 1] # Quote
    <3>1. /\ q \in 1 .. Len(t) + 2 /\ ~(q > Len(t)) /\ q + 1 \in 1 .. Len(t)
          /\ q + 1 = L(j + 1) + 2
          /\ L(j) + 1 \in 1 .. Len(e) /\ (L(j) + 1) + 1 = q
      <4>1. /\ L(j) \in Nat /\ L(j + 1) = L(j) + 1 /\ L(j + 1) <= Len(e)
            /\ Len(e) \in Nat /\ Len(t) = Len(e) + 2 /\ q = L(j) + 2
        BY <1>1, <1>2, <2>3, <2>5
      <4> QED  BY ONLY <4>1
    <3>2. t[q] = v[j + 1] /\ t[q] # Quote
      BY <1>2, <2>3, <2>5, <3>1
    <3> HIDE DEF q
    <3>3. CASE t[q] = Backslash /\ At(t, q + 1, Quote)
      <4>1. t[q + 1] = Quote
        BY <1>5, <3>1, <3>3
      <4>2. j + 1 = n
        <5> SUFFICES ASSUME j + 1 # n PROVE FALSE
          OBVIOUS
        <5> DEFINE i == j + 1
        <5>1. i \in 0 .. n - 1
          BY <2>1
        <5>2. q + 1 = L(i) + 2
          BY <3>1
        <5> HIDE DEF i
        <5>3. /\ L(i) \in Nat /\ L(i + 1) <= Len(e)
              /\ v[i + 1] = Quote => e[L(i) + 1] = Backslash /\ L(i + 1) = L(i) + 2
              /\ v[i + 1] # Quote => e[L(i) + 1] = v[i + 1] /\ L(i + 1) = L(i) + 1
          BY <1>4, <5>1
        <5>4. L(i) + 1 \in 1 .. Len(e) /\ (L(i) + 1) + 1 = q + 1
          BY <1>1, <5>2, <5>3
        <5>5. e[L(i) + 1] = t[q + 1]
          BY <1>2, <5>4
        <5> QED  BY <4>1, <5>3, <5>5 DEF Quote, Backslash
      <4>3. q + 2 = Len(t) + 1
        <5>1. L(j + 1) = Len(e)
          BY <1>6, <4>2
        <5>2. q + 1 = L(j + 1) + 2 /\ Len(t) = Len(e) + 2 /\ Len(e) \in Nat
          BY <1>1, <1>2, <3>1
        <5>3. q \in 1 .. Len(t) + 2
          BY <3>1
        <5> QED  BY ONLY <5>1, <5>2, <5>3
      <4>4. F(q, TRUE) = F(q + 2, TRUE)
        BY <1>3, <3>1, <3>3
      <4>5. q + 2 \in 1 .. Len(t) + 2 /\ q + 2 > Len(t)
        BY <1>1, <1>2, <4>3
      <4>6. F(q + 2, TRUE) = Len(t) + 1
        BY <1>3, <4>5
      <4> QED  BY <4>4, <4>6 DEF q, j, Ends
    <3>4. CASE ~(t[q] = Backslash /\ At(t, q + 1, Quote))
      <4>1. F(q, TRUE) = F(q + 1, TRUE)
        BY <1>3, <3>1, <3>2, <3>4
      <4> QED  BY <2>2, <3>1, <4>1 DEF q, j, Ends
    <3> QED  BY <3>3, <3>4
  <2> QED  BY <2>4, <2>5
<1>9. n \in T
  <2>1. Nat \subseteq T
    <3> HIDE DEF T
    <3> QED  BY <1>7, <1>8, Induction
  <2>2. n \in Nat
    OBVIOUS
  <2> HIDE DEF T
  <2> QED  BY <2>1, <2>2
<1>10. F(2, TRUE) = Len(t) + 1
  <2>1. n <= n /\ n - n = 0 /\ L(0) + 2 = 2
    BY <1>1
  <2>2. Ends(0)
    <3> HIDE DEF Ends
    <3> QED  BY <1>9, <2>1
  <2> QED  BY <2>1, <2>2
<1>11. F(1, FALSE) = Len(t) + 1
  <2>1. /\ 1 \in 1 .. Len(t) + 2 /\ ~(1 > Len(t)) /\ t[1] = Quote /\ 2 \in 1 .. Len(t)
        /\ 1 + 1 = 2 /\ 1 + 2 = 3
    BY <1>1, <1>2
  <2>2. CASE n = 0
    <3>1. Len(e) = 0 /\ Len(t) = 2 /\ t[2] = Quote
      BY <1>1, <1>2, <1>6, <2>2
    <3>2. 3 \in 1 .. Len(t) + 2 /\ 3 > Len(t) /\ At(t, 2, Quote)
      <4>1. 3 \in 1 .. Len(t) + 2 /\ 3 > Len(t) /\ 2 \in 1 .. Len(t)
        BY ONLY <3>1
      <4> QED  BY <1>5, <3>1, <4>1
    <3>3. F(3, FALSE) = Len(t) + 1
      BY <1>3, <3>2
    <3> QED  BY <1>3, <2>1, <3>2, <3>3 DEF Quote, Comment
  <2>3. CASE n # 0
    <3>1. 0 \in 0 .. n - 1
      BY <2>3
    <3>2. /\ L(0 + 1) <= Len(e)
          /\ v[0 + 1] = Quote => e[L(0) + 1] = Backslash /\ L(0 + 1) = L(0) + 2
          /\ v[0 + 1] # Quote => e[L(0) + 1] = v[0 + 1] /\ L(0 + 1) = L(0) + 1
      BY <1>4, <3>1
    <3>3. e[1] # Quote /\ 1 \in 1 .. Len(e)
      <4>1. L(0) = 0 /\ L(0) + 1 = 1 /\ 0 + 1 = 1
        BY <1>1
      <4>2. (L(1) = 2 \/ L(1) = 1) /\ L(1) <= Len(e)
        BY <3>2, <4>1
      <4>3. e[1] # Quote
        BY <3>2, <4>1 DEF Quote, Backslash
      <4> QED  BY <1>1, <4>2, <4>3
    <3>4. t[1 + 1] = e[1]
      BY <1>2, <3>3
    <3>5. ~At(t, 2, Quote)
      BY <1>5, <2>1, <3>3, <3>4
    <3> QED  BY <1>3, <1>10, <2>1, <3>5 DEF Quote, Comment
  <2> QED  BY <2>2, <2>3
<1> QED  BY <1>11 DEF F, CommentStart
-------------------------------------------------------------------------------
(* What writekey writes, getkeystring reads. *)

(* skipleading, striptrailing *)
LEMMA SkipsTo ==
    ASSUME NEW C, NEW s \in Seq(C), NEW i \in 1 .. Len(s), s[i] \notin Blanks,
           \A j \in 1 .. i - 1 : s[j] \in Blanks
    PROVE  SkipLeading(s) = SubSeq(s, i, Len(s))
<1> DEFINE S == {j \in 1 .. Len(s) : s[j] \notin Blanks}
<1>1. SkipLeading(s) = LET first == IF S # {} THEN Min(S) ELSE 0 IN
                       IF first = 0 THEN <<>> ELSE SubSeq(s, first, Len(s))
  BY DEF SkipLeading, SelectInSeq
<1>2. S \subseteq Int /\ i \in S /\ i # 0
  OBVIOUS
<1>3. ASSUME NEW j \in S PROVE i <= j
  <2>1. ~(j \in 1 .. i - 1) /\ j \in 1 .. Len(s)
    OBVIOUS
  <2> QED  BY <2>1
<1> HIDE DEF S
<1>4. Min(S) = i
  BY <1>2, <1>3, MinIs
<1> QED  BY <1>1, <1>2, <1>4

LEMMA SkipsAll ==
    ASSUME NEW C, NEW s \in Seq(C), \A j \in 1 .. Len(s) : s[j] \in Blanks
    PROVE  SkipLeading(s) = <<>>
<1> DEFINE S == {j \in 1 .. Len(s) : s[j] \notin Blanks}
<1>1. SkipLeading(s) = LET first == IF S # {} THEN Min(S) ELSE 0 IN
                       IF first = 0 THEN <<>> ELSE SubSeq(s, first, Len(s))
  BY DEF SkipLeading, SelectInSeq
<1>2. S = {}
  OBVIOUS
<1> QED  BY <1>1, <1>2

LEMMA FirstKept ==
    ASSUME NEW C, NEW s \in Seq(C), ~(\A j \in 1 .. Len(s) : s[j] \in Blanks)
    PROVE  \E i \in 1 .. Len(s) : /\ s[i] \notin Blanks
                                  /\ \A j \in 1 .. i - 1 : s[j] \in Blanks
<1> DEFINE S == {j \in 1 .. Len(s) : s[j] \notin Blanks}
<1>1. S \subseteq Nat /\ S # {}
  OBVIOUS
<1>2. PICK i \in S : \A j \in S : i <= j
  <2> HIDE DEF S
  <2> QED  BY <1>1, Least
<1>3. ASSUME NEW j \in 1 .. i - 1 PROVE s[j] \in Blanks
  <2>1. j \in 1 .. Len(s) /\ ~(i <= j)
    OBVIOUS
  <2> QED  BY <1>2, <2>1
<1> QED  BY <1>3

LEMMA StripTrailingIs ==
    ASSUME NEW C, NEW s \in Seq(C)
    PROVE  \E h \in 0 .. Len(s) : /\ StripTrailing(s) = SubSeq(s, 1, h)
                                  /\ Len(s) > 0 /\ s[Len(s)] \notin Blanks => h = Len(s)
<1> DEFINE S == {j \in 1 .. Len(s) : s[j] \notin Blanks}
           h == IF S # {} THEN Max(S) ELSE 0
<1>1. StripTrailing(s) = SubSeq(s, 1, h)
  BY DEF StripTrailing, SelectLastInSeq
<1>2. S \subseteq 0 .. Len(s) /\ Len(s) \in Nat
  OBVIOUS
<1>3. S # {} => h \in S /\ \A x \in S : x <= h
  <2> HIDE DEF S
  <2> QED  BY <1>2, Greatest
<1>4. h \in 0 .. Len(s)
  <2> HIDE DEF S
  <2>1. CASE S = {}
    BY <1>2, <2>1
  <2>2. CASE S # {}
    <3> HIDE DEF h
    <3> QED  BY <1>2, <1>3, <2>2
  <2> QED  BY <2>1, <2>2
<1>5. ASSUME Len(s) > 0, s[Len(s)] \notin Blanks PROVE h = Len(s)
  <2>1. Len(s) \in S
    BY <1>2, <1>5
  <2> HIDE DEF S
  <2>2. Len(s) <= h
    BY <1>3, <2>1
  <2> HIDE DEF h
  <2> QED  BY <1>2, <1>4, <2>2
<1> QED  BY <1>1, <1>4, <1>5

LEMMA CharactersDiffer == Quote \notin Blanks
  BY DEF Quote, Blanks

(* A text without quotes and comments: the blanks around it go. *)
LEMMA PlainReads ==
    ASSUME NEW C, NEW s \in Seq(C), \A i \in 1 .. Len(s) : s[i] \notin {Quote, Comment},
           NEW size \in Nat, Len(s) < size
    PROVE  ReadText(s, size) = StripTrailing(SkipLeading(s))
<1> DEFINE text == SkipLeading(s)
           r == StripTrailing(text)
<1>1. PICK i \in 1 .. Len(s) + 1 : text = SubSeq(s, i, Len(s))
  <2>1. CASE \A j \in 1 .. Len(s) : s[j] \in Blanks
    <3>1. text = <<>> /\ Len(s) + 1 \in 1 .. Len(s) + 1 /\ SubSeq(s, Len(s) + 1, Len(s)) = <<>>
      BY <2>1, SkipsAll
    <3> HIDE DEF text
    <3> QED  BY <3>1
  <2>2. CASE ~(\A j \in 1 .. Len(s) : s[j] \in Blanks)
    <3>1. PICK i \in 1 .. Len(s) : /\ s[i] \notin Blanks
                                   /\ \A j \in 1 .. i - 1 : s[j] \in Blanks
      BY <2>2, FirstKept
    <3>2. text = SubSeq(s, i, Len(s)) /\ i \in 1 .. Len(s) + 1
      BY <3>1, SkipsTo
    <3> HIDE DEF text
    <3> QED  BY <3>2
  <2> QED  BY <2>1, <2>2
<1> HIDE DEF text
<1>2. /\ text \in Seq(C) /\ Len(text) \in Nat /\ Len(text) <= Len(s)
      /\ \A p \in 1 .. Len(text) : text[p] \notin {Quote, Comment}
  <2>1. /\ Len(s) \in Nat /\ text \in Seq(C) /\ Len(text) = Len(s) + 1 - i
        /\ \A p \in 1 .. Len(text) : text[p] = s[i + p - 1]
    BY <1>1
  <2>2. \A p \in 1 .. Len(text) : i + p - 1 \in 1 .. Len(s)
    BY <2>1
  <2> QED  BY <2>1, <2>2
<1>3. CommentStart(text) = Len(text) + 1
  <2>1. \A p \in 1 .. Len(text) : text[p] # Comment
    BY <1>2
  <2> QED  BY <1>2, <2>1, NoComment
<1>4. SubSeq(text, 1, CommentStart(text) - 1) = text
  <2>1. CommentStart(text) - 1 = Len(text) /\ SubSeq(text, 1, Len(text)) = text
    BY <1>2, <1>3
  <2> QED  BY <2>1
<1>5. PICK h \in 0 .. Len(text) : r = SubSeq(text, 1, h)
  <2> HIDE DEF r
  <2>1. \E h \in 0 .. Len(text) : StripTrailing(text) = SubSeq(text, 1, h)
    BY <1>2, StripTrailingIs
  <2> QED  BY <2>1 DEF r
<1> HIDE DEF r
<1>6. /\ r \in Seq(C) /\ Len(r) = h /\ DOMAIN r = 1 .. h /\ h < size
      /\ \A p \in 1 .. h : r[p] # Quote
  <2>1. /\ r \in Seq(C) /\ Len(r) = h /\ DOMAIN r = 1 .. h
        /\ \A p \in 1 .. h : r[p] = text[p] /\ p \in 1 .. Len(text)
    BY <1>2, <1>5
  <2> QED  BY <1>2, <2>1
<1>7. ~At(r, 1, Quote)
  BY <1>6 DEF At
<1>8. CopyNone(r, size) = r
  <2>1. Min({Len(r), size - 1}) = Len(r)
    <3> DEFINE S == {Len(r), size - 1}
    <3>1. S \subseteq Int /\ Len(r) \in S /\ \A x \in S : Len(r) <= x
      BY <1>6
    <3> HIDE DEF S
    <3>2. Min(S) = Len(r)
      BY <3>1, MinIs
    <3> QED  BY <3>2 DEF S
  <2>2. SubSeq(r, 1, Len(r)) = r
    BY <1>6
  <2> QED  BY <2>1, <2>2 DEF CopyNone
<1>9. ReadText(s, size) = IF At(r, 1, Quote) /\ At(r, Len(r), Quote)
                          THEN CopyDequote(SubSeq(r, 2, Len(r) - 1), size)
                          ELSE CopyNone(r, size)
  BY <1>4 DEF ReadText, r, text
<1> QED  BY <1>7, <1>8, <1>9 DEF r, text

(* A text between quotes: comes back as it was, as far as it fits. *)
LEMMA QuotedReads ==
    ASSUME NEW C, NEW v \in Seq(C), Quote \in C, Backslash \in C, NEW n \in 0 .. Len(v),
           NEW size \in Nat, n < size
    PROVE  ReadText(<<Quote>> \o Escaped(v)[n] \o <<Quote>>, size) = SubSeq(v, 1, n)
<1> DEFINE e == Escaped(v)[n]
           t == <<Quote>> \o e \o <<Quote>>
<1>1. e \in Seq(C) /\ Len(e) \in Nat
  <2>1. Escaped(v) \in [0 .. Len(v) -> Seq(C)]
    BY EscapedIs
  <2> QED  BY <2>1, LenProperties
<1>2. Unescaped(e)[1] = SubSeq(v, 1, n)
  BY UnescapedBack
<1> HIDE DEF e
<1>3. /\ t \in Seq(C) /\ Len(t) = Len(e) + 2 /\ t[1] = Quote /\ t[Len(e) + 2] = Quote
      /\ \A p \in 1 .. Len(e) : t[p + 1] = e[p]
      /\ SubSeq(t, 2, Len(t) - 1) = e /\ SubSeq(t, 1, Len(t)) = t
      /\ DOMAIN t = 1 .. Len(t)
  BY <1>1
<1> HIDE DEF t
<1>4. CommentStart(t) = Len(t) + 1
  <2> USE DEF e
  <2> QED  BY <1>3, QuotedNoComment
<1>5. SkipLeading(t) = t
  <2>1. 1 \in 1 .. Len(t) /\ \A j \in 1 .. 1 - 1 : t[j] \in Blanks
    BY <1>1, <1>3
  <2>2. t[1] \notin Blanks
    BY <1>3, CharactersDiffer
  <2> QED  BY <1>3, <2>1, <2>2, SkipsTo
<1>6. SubSeq(t, 1, CommentStart(t) - 1) = t
  <2>1. CommentStart(t) - 1 = Len(t)
    BY <1>1, <1>3, <1>4
  <2> QED  BY <1>3, <2>1
<1>7. StripTrailing(t) = t
  <2>1. Len(t) > 0 /\ t[Len(t)] \notin Blanks
    BY <1>1, <1>3, CharactersDiffer
  <2> QED  BY <1>3, <2>1, StripTrailingIs
<1>8. At(t, 1, Quote) /\ At(t, Len(t), Quote)
  BY <1>1, <1>3 DEF At
<1>9. ReadText(t, size) = CopyDequote(e, size)
  BY <1>3, <1>5, <1>6, <1>7, <1>8 DEF ReadText
<1>10. CopyNone(SubSeq(v, 1, n), size) = SubSeq(v, 1, n)
  <2> DEFINE r == SubSeq(v, 1, n)
  <2>1. r \in Seq(C) /\ Len(r) = n
    OBVIOUS
  <2> HIDE DEF r
  <2>2. Min({Len(r), size - 1}) = Len(r)
    <3> DEFINE S == {Len(r), size - 1}
    <3>1. S \subseteq Int /\ Len(r) \in S /\ \A x \in S : Len(r) <= x
      BY <2>1
    <3> HIDE DEF S
    <3>2. Min(S) = Len(r)
      BY <3>1, MinIs
    <3> QED  BY <3>2 DEF S
  <2>3. SubSeq(r, 1, Len(r)) = r
    BY <2>1
  <2>4. CopyNone(r, size) = r
    BY <2>2, <2>3 DEF CopyNone
  <2> QED  BY <2>4 DEF r
<1> QED  BY <1>2, <1>9, <1>10 DEF CopyDequote, t, e

(* A character is escaped with one or two. *)
LEMMA EscapedLength ==
    ASSUME NEW C, NEW v \in Seq(C), Quote \in C, Backslash \in C, NEW n \in 0 .. Len(v)
    PROVE  Len(Escaped(v)[n]) \in n .. 2 * n
<1> DEFINE L(i) == Len(Escaped(v)[i])
           T == {k \in Nat : k <= Len(v) => L(k) \in k .. 2 * k}
<1>1. L(0) = 0
  <2>1. Escaped(v)[0] = <<>>
    BY EscapedIs
  <2> QED  BY <2>1
<1>2. ASSUME NEW k \in Nat, k + 1 <= Len(v)
      PROVE  L(k) \in Nat /\ (L(k + 1) = L(k) + 1 \/ L(k + 1) = L(k) + 2)
  <2>1. /\ k \in 0 .. Len(v) /\ k + 1 \in 0 .. Len(v) /\ k \in 0 .. (k + 1) - 1
        /\ k + 1 \in k .. Len(v)
    BY <1>2
  <2>2. L(k) \in Nat
    BY <2>1, EscapedGrows
  <2>3. L(k + 1) = L(k) + 1 \/ L(k + 1) = L(k) + 2
    BY <2>1, EscapedAt
  <2> QED  BY <2>2, <2>3
<1> HIDE DEF L
<1>3. 0 \in T /\ \A k \in Nat : k \in T => k + 1 \in T
  BY <1>1, <1>2
<1>4. n \in T
  <2>1. Nat \subseteq T
    <3> HIDE DEF T
    <3> QED  BY <1>3, Induction
  <2>2. n \in Nat
    OBVIOUS
  <2> HIDE DEF T
  <2> QED  BY <2>1, <2>2
<1> QED  BY <1>4 DEF L

LEMMA QuotedIs ==
    ASSUME NEW C, NEW v \in Seq(C), Quote \in C, Backslash \in C,
           NEW maxlen \in Nat, maxlen >= 3
    PROVE  \E n \in 0 .. Len(v) :
              /\ CopyEnquote(v, maxlen) = <<Quote>> \o Escaped(v)[n] \o <<Quote>>
              /\ n <= maxlen - 3
              /\ 2 * Len(v) <= maxlen - 3 => n = Len(v)
<1> DEFINE L(i) == Len(Escaped(v)[i])
           fitting == {i \in 0 .. Len(v) : L(i) <= maxlen - 3}
           n == Max(fitting)
<1>1. Len(v) \in Nat /\ \A i \in 0 .. Len(v) : L(i) \in i .. 2 * i
  BY EscapedLength
<1>2. CopyEnquote(v, maxlen) = <<Quote>> \o Escaped(v)[n] \o <<Quote>>
  BY DEF CopyEnquote
<1> HIDE DEF L
<1>3. fitting \subseteq 0 .. Len(v) /\ 0 \in fitting
  <2>1. 0 \in 0 .. Len(v) /\ 0 <= maxlen - 3
    BY <1>1
  <2>2. L(0) \in 0 .. 2 * 0
    BY <1>1, <2>1
  <2> QED  BY <2>1, <2>2
<1>4. n \in fitting /\ \A x \in fitting : x <= n
  <2> HIDE DEF fitting
  <2> QED  BY <1>1, <1>3, Greatest
<1> HIDE DEF n
<1>5. n \in 0 .. Len(v) /\ L(n) <= maxlen - 3 /\ L(n) \in n .. 2 * n
  BY <1>1, <1>4
<1>6. n <= maxlen - 3
  BY <1>1, <1>5
<1>7. ASSUME 2 * Len(v) <= maxlen - 3 PROVE n = Len(v)
  <2>1. Len(v) \in 0 .. Len(v)
    BY <1>1
  <2>2. L(Len(v)) \in Len(v) .. 2 * Len(v)
    BY <1>1, <2>1
  <2>3. L(Len(v)) <= maxlen - 3
    BY <1>1, <1>7, <2>2
  <2>4. Len(v) <= n
    BY <1>4, <2>1, <2>3
  <2> QED  BY <1>1, <1>5, <2>4
<1> QED  BY <1>2, <1>5, <1>6, <1>7

LEMMA CopyNoneIs ==
    ASSUME NEW C, NEW v \in Seq(C), NEW maxlen \in Nat, maxlen >= 1
    PROVE  \E k \in 0 .. Len(v) : /\ CopyNone(v, maxlen) = SubSeq(v, 1, k)
                                  /\ k < maxlen
                                  /\ Len(v) < maxlen => k = Len(v)
<1> DEFINE S == {Len(v), maxlen - 1}
           k == IF Len(v) < maxlen THEN Len(v) ELSE maxlen - 1
<1>1. Len(v) \in Nat /\ k \in 0 .. Len(v) /\ k < maxlen
  <2>1. Len(v) \in Nat
    OBVIOUS
  <2> QED  BY <2>1
<1>2. S \subseteq Int /\ k \in S /\ \A x \in S : k <= x
  BY <1>1
<1>3. CopyNone(v, maxlen) = SubSeq(v, 1, Min(S))
  BY DEF CopyNone
<1>4. Min(S) = k
  <2> HIDE DEF S, k
  <2> QED  BY <1>2, MinIs
<1> QED  BY <1>1, <1>3, <1>4

(* ini_puts and ini_gets: the value comes back if the line holds it, and   *)
(* the beginning of it otherwise.                                          *)
Kept(v) == IF NeedsQuotes(v) THEN v ELSE StripTrailing(SkipLeading(v))
Fits(v, size) == RawText(v, size - 4) = RawText(v, 2 * Len(v) + 4)

LEMMA QuotedComesBack ==
    ASSUME NEW C, NEW v \in Seq(C), Quote \in C, Backslash \in C, NEW size \in Nat, size >= 8,
           NeedsQuotes(v)
    PROVE  LET got == ReadText(RawText(v, size - 4), size) IN
           /\ Fits(v, size) => got = v
           /\ IsPrefix(got, v)
<1>1. Len(v) \in Nat /\ size - 4 \in Nat /\ size - 4 >= 3 /\ 2 * Len(v) + 4 \in Nat
      /\ 2 * Len(v) + 4 >= 3
  <2>1. Len(v) \in Nat
    OBVIOUS
  <2> QED  BY <2>1
<1>2. PICK n \in 0 .. Len(v) :
         /\ CopyEnquote(v, size - 4) = <<Quote>> \o Escaped(v)[n] \o <<Quote>>
         /\ n <= (size - 4) - 3
  BY <1>1, QuotedIs
<1>3. PICK m \in 0 .. Len(v) :
         /\ CopyEnquote(v, 2 * Len(v) + 4) = <<Quote>> \o Escaped(v)[m] \o <<Quote>>
         /\ 2 * Len(v) <= (2 * Len(v) + 4) - 3 => m = Len(v)
  BY <1>1, QuotedIs
<1>4. m = Len(v) /\ n < size
  BY <1>1, <1>2, <1>3
<1>5. ReadText(RawText(v, size - 4), size) = SubSeq(v, 1, n)
  <2>1. RawText(v, size - 4) = <<Quote>> \o Escaped(v)[n] \o <<Quote>>
    BY <1>2 DEF RawText
  <2> QED  BY <1>4, <2>1, QuotedReads
<1>6. ASSUME Fits(v, size) PROVE SubSeq(v, 1, n) = v
  <2> DEFINE big == size + Len(v) + 1
  <2>1. big \in Nat /\ n < big /\ m < big
    BY <1>1, <1>4
  <2>2. RawText(v, 2 * Len(v) + 4) = <<Quote>> \o Escaped(v)[m] \o <<Quote>>
    BY <1>3 DEF RawText
  <2>3. RawText(v, size - 4) = <<Quote>> \o Escaped(v)[n] \o <<Quote>>
    BY <1>2 DEF RawText
  <2> HIDE DEF big
  <2>4. ReadText(RawText(v, 2 * Len(v) + 4), big) = SubSeq(v, 1, m)
    BY <2>1, <2>2, QuotedReads
  <2>5. ReadText(RawText(v, size - 4), big) = SubSeq(v, 1, n)
    BY <2>1, <2>3, QuotedReads
  <2>6. SubSeq(v, 1, n) = SubSeq(v, 1, m)
    BY <1>6, <2>4, <2>5 DEF Fits
  <2>7. SubSeq(v, 1, m) = v
    BY <1>4
  <2> QED  BY <2>6, <2>7
<1>7. IsPrefix(SubSeq(v, 1, n), v)
  <2>1. Len(SubSeq(v, 1, n)) = n /\ SubSeq(SubSeq(v, 1, n), 1, n) = SubSeq(v, 1, n)
    OBVIOUS
  <2> QED  BY <1>1, <2>1 DEF IsPrefix
<1> QED  BY <1>5, <1>6, <1>7

LEMMA PlainComesBack ==
    ASSUME NEW C, NEW v \in Seq(C), NEW size \in Nat, size >= 8, ~NeedsQuotes(v)
    PROVE  LET got == ReadText(RawText(v, size - 4), size) IN
           /\ Fits(v, size) => got = StripTrailing(SkipLeading(v))
           /\ IsPrefix(got, v) \/ IsPrefix(got, SkipLeading(v))
           /\ Len(v) < size - 4 => got = StripTrailing(SkipLeading(v))
<1> DEFINE got == ReadText(RawText(v, size - 4), size)
<1>1. /\ Len(v) \in Nat /\ size - 4 \in Nat /\ size - 4 >= 1
      /\ 2 * Len(v) + 4 \in Nat /\ 2 * Len(v) + 4 >= 1 /\ Len(v) < 2 * Len(v) + 4
  <2>1. Len(v) \in Nat
    OBVIOUS
  <2> QED  BY <2>1
<1>2. \A i \in 1 .. Len(v) : v[i] \notin {Quote, Comment}
  <2>1. DOMAIN v = 1 .. Len(v)
    BY LenProperties
  <2>2. \A i \in DOMAIN v : v[i] \notin {Quote, Comment}
    BY DEF NeedsQuotes
  <2> QED  BY <2>1, <2>2
<1>3. PICK k \in 0 .. Len(v) : /\ CopyNone(v, size - 4) = SubSeq(v, 1, k)
                               /\ k < size - 4
                               /\ Len(v) < size - 4 => k = Len(v)
  BY <1>1, CopyNoneIs
<1>4. CopyNone(v, 2 * Len(v) + 4) = v
  <2>1. PICK m \in 0 .. Len(v) : /\ CopyNone(v, 2 * Len(v) + 4) = SubSeq(v, 1, m)
                                 /\ Len(v) < 2 * Len(v) + 4 => m = Len(v)
    BY <1>1, CopyNoneIs
  <2>2. m = Len(v) /\ SubSeq(v, 1, Len(v)) = v
    BY <1>1, <2>1
  <2> QED  BY <2>1, <2>2
<1>5. RawText(v, size - 4) = SubSeq(v, 1, k) /\ RawText(v, 2 * Len(v) + 4) = v
  BY <1>3, <1>4 DEF RawText
<1> DEFINE r == SubSeq(v, 1, k)
<1>6. /\ r \in Seq(C) /\ Len(r) = k /\ Len(r) < size
      /\ \A i \in 1 .. k : r[i] = v[i] /\ i \in 1 .. Len(v)
  <2>1. r \in Seq(C) /\ Len(r) = k /\ \A i \in 1 .. k : r[i] = v[i] /\ i \in 1 .. Len(v)
    OBVIOUS
  <2> QED  BY <1>1, <1>3, <2>1
<1>7. k = Len(v) => r = v
  OBVIOUS
<1> HIDE DEF r
<1>8. got = StripTrailing(SkipLeading(r))
  <2>1. \A i \in 1 .. Len(r) : r[i] \notin {Quote, Comment}
    BY <1>2, <1>6
  <2>2. ReadText(r, size) = StripTrailing(SkipLeading(r))
    BY <1>6, <2>1, PlainReads
  <2> QED  BY <1>5, <2>2 DEF r
<1>9. Fits(v, size) \/ Len(v) < size - 4 => r = v
  BY <1>3, <1>5, <1>7 DEF Fits, r
<1> HIDE DEF got
<1>10. CASE \A j \in 1 .. Len(r) : r[j] \in Blanks
  <2>1. SkipLeading(r) = <<>> /\ <<>> \in Seq(C) /\ Len(<<>>) = 0
    BY <1>6, <1>10, SkipsAll
  <2>2. PICK h \in 0 .. Len(<<>>) : StripTrailing(<<>>) = SubSeq(<<>>, 1, h)
    BY <2>1, StripTrailingIs
  <2>3. h = 0 /\ SubSeq(<<>>, 1, 0) = <<>>
    BY <2>1
  <2>4. got = <<>>
    BY <1>8, <2>1, <2>2, <2>3
  <2>5. SubSeq(<<>>, 1, 0) = SubSeq(v, 1, 0)
    OBVIOUS
  <2>6. IsPrefix(got, v)
    BY <1>1, <2>1, <2>4, <2>5 DEF IsPrefix
  <2> QED  BY <1>8, <1>9, <2>6 DEF got
<1>11. CASE ~(\A j \in 1 .. Len(r) : r[j] \in Blanks)
  <2>1. PICK i \in 1 .. Len(r) : /\ r[i] \notin Blanks
                                 /\ \A j \in 1 .. i - 1 : r[j] \in Blanks
    BY <1>6, <1>11, FirstKept
  <2>2. /\ i \in 1 .. Len(v) /\ i \in 1 .. k /\ v[i] \notin Blanks
        /\ \A j \in 1 .. i - 1 : j \in 1 .. k
    BY <1>6, <2>1
  <2>3. \A j \in 1 .. i - 1 : v[j] \in Blanks
    BY <1>6, <2>1, <2>2
  <2>4. SkipLeading(r) = SubSeq(r, i, k)
    BY <1>6, <2>1, SkipsTo
  <2>5. SkipLeading(v) = SubSeq(v, i, Len(v))
    BY <2>2, <2>3, SkipsTo
  <2> DEFINE x == SubSeq(r, i, k)
             y == SubSeq(v, i, Len(v))
  <2>6. /\ x \in Seq(C) /\ Len(x) = k + 1 - i
        /\ \A j \in 1 .. Len(x) : x[j] = r[i + j - 1] /\ i + j - 1 \in 1 .. k
    BY <1>6, <2>2
  <2>7. /\ y \in Seq(C) /\ Len(y) = Len(v) + 1 - i
        /\ \A j \in 1 .. Len(y) : y[j] = v[i + j - 1]
    BY <2>2
  <2> HIDE DEF x, y
  <2>8. Len(x) \in Nat /\ Len(y) \in Nat /\ Len(x) <= Len(y)
    BY <1>1, <2>2, <2>6, <2>7
  <2>9. \A j \in 1 .. Len(x) : x[j] = y[j]
    <3> TAKE j \in 1 .. Len(x)
    <3>1. x[j] = r[i + j - 1] /\ i + j - 1 \in 1 .. k
      BY <2>6
    <3>2. j \in 1 .. Len(y)
      BY <2>8
    <3>3. y[j] = v[i + j - 1]
      BY <2>7, <3>2
    <3> QED  BY <1>6, <3>1, <3>3
  <2>10. PICK h \in 0 .. Len(x) : StripTrailing(x) = SubSeq(x, 1, h)
    BY <2>6, StripTrailingIs
  <2>11. IsPrefix(SubSeq(x, 1, h), y)
    <3>1. /\ Len(SubSeq(x, 1, h)) = h /\ h <= Len(y)
          /\ SubSeq(SubSeq(x, 1, h), 1, h) = SubSeq(x, 1, h)
      BY <2>6, <2>8
    <3>2. SubSeq(x, 1, h) = SubSeq(y, 1, h)
      <4>1. h \in 0 .. Len(y) /\ \A j \in 1 .. h : x[j] = y[j]
        BY <2>8, <2>9
      <4> QED  BY ONLY <4>1, <2>6, <2>7, h \in 0 .. Len(x)
    <3> QED  BY <3>1, <3>2 DEF IsPrefix
  <2>12. got = SubSeq(x, 1, h)
    BY <1>8, <2>4, <2>10 DEF x
  <2>13. IsPrefix(got, SkipLeading(v))
    BY <2>5, <2>11, <2>12 DEF y
  <2> QED  BY <1>8, <1>9, <2>13 DEF got
<1> QED  BY <1>10, <1>11
-------------------------------------------------------------------------------
(* Numbers *)

DigitSet == {Digit(d) : d \in 0 .. 9}

LEMMA DigitsDiffer ==
    /\ \A d \in 0 .. 9 : DigitOf(Digit(d)) = d
    /\ \A c \in DigitSet : DigitOf(c) \in 0 .. 9
    /\ \A c \in DigitSet \cup {"-"} : c \notin {Quote, Comment} /\ c \notin Blanks
    /\ "-" \notin DigitSet
<1>1. DigitSet = {"0", "1", "2", "3", "4", "5", "6", "7", "8", "9"}
  BY DEF DigitSet, Digit, Digits
<1>2. \A d, e \in 0 .. 9 : Digit(d) = Digit(e) => d = e
  BY DEF Digit, Digits
<1>3. \A d \in 0 .. 9 : DigitOf(Digit(d)) = d
  BY <1>2 DEF DigitOf
<1>4. \A c \in DigitSet : DigitOf(c) \in 0 .. 9
  BY <1>3 DEF DigitSet
<1>5. \A c \in DigitSet \cup {"-"} : c \notin {Quote, Comment} /\ c \notin Blanks
  BY <1>1 DEF Quote, Comment, Blanks
<1>6. "-" \notin DigitSet
  BY <1>1
<1> QED  BY <1>3, <1>4, <1>5, <1>6

(* What one round of long2str takes off a number of either sign *)
LEMMA LastDigitOff ==
    ASSUME NEW n \in Int
    PROVE  LET d == ABS(n - 10 * Quotient(n)) IN
           /\ d \in 0 .. 9 /\ LastDigit(n) = Digit(d) /\ LastDigit(n) \in DigitSet
           /\ Quotient(n) \in Int /\ ABS(n) \in Nat /\ ABS(Quotient(n)) \in Nat
           /\ ABS(n) = 10 * ABS(Quotient(n)) + d
           /\ n < 0 => n <= Quotient(n) /\ Quotient(n) <= 0
           /\ ~(n < 0) => 0 <= Quotient(n) /\ Quotient(n) <= n
           /\ Quotient(n) = 0 => ABS(n) = d
           /\ Quotient(n) # 0 => ABS(Quotient(n)) < ABS(n)
<1> DEFINE d == ABS(n - 10 * Quotient(n))
<1>1. CASE n < 0
  <2>1. PICK q \in Int : q = (n + 9) \div 10
    OBVIOUS
  <2>2. 10 * q <= n + 9 /\ n + 9 < 10 * q + 10
    BY <2>1
  <2>3. Quotient(n) = q /\ q <= 0 /\ n <= q
    BY <1>1, <2>1, <2>2 DEF Quotient
  <2>4. d = 10 * q - n
    BY <2>2, <2>3 DEF ABS
  <2>5. ABS(n) = -n /\ ABS(q) = -q
    BY <1>1, <2>3 DEF ABS
  <2>6. d \in 0 .. 9
    BY <2>2, <2>4
  <2>7. LastDigit(n) = Digit(d) /\ LastDigit(n) \in DigitSet
    BY <2>6 DEF LastDigit, DigitSet
  <2> HIDE DEF d
  <2> QED  BY <1>1, <2>2, <2>3, <2>4, <2>5, <2>6, <2>7 DEF d
<1>2. CASE ~(n < 0)
  <2>1. PICK q \in Int : q = n \div 10
    OBVIOUS
  <2>2. 10 * q <= n /\ n < 10 * q + 10
    BY <2>1
  <2>3. Quotient(n) = q /\ 0 <= q /\ q <= n
    BY <1>2, <2>1, <2>2 DEF Quotient
  <2>4. d = n - 10 * q
    BY <2>2, <2>3 DEF ABS
  <2>5. ABS(n) = n /\ ABS(q) = q
    BY <1>2, <2>3 DEF ABS
  <2>6. d \in 0 .. 9
    BY <2>2, <2>4
  <2>7. LastDigit(n) = Digit(d) /\ LastDigit(n) \in DigitSet
    BY <2>6 DEF LastDigit, DigitSet
  <2> HIDE DEF d
  <2> QED  BY <1>2, <2>2, <2>3, <2>4, <2>5, <2>6, <2>7 DEF d
<1> QED  BY <1>1, <1>2

(* The numbers long2str goes through *)
Between(m) == IF m < 0 THEN m .. 0 ELSE 0 .. m

LEMMA BetweenGoesOn ==
    ASSUME NEW m \in Int
    PROVE  /\ m \in Between(m)
           /\ \A n \in Between(m) : n \in Int /\ Quotient(n) \in Between(m)
<1>1. m \in Between(m) /\ \A n \in Between(m) : n \in Int
  BY DEF Between
<1>2. ASSUME NEW n \in Between(m)
      PROVE  Quotient(n) \in Between(m)
  <2>1. /\ Quotient(n) \in Int
        /\ n < 0 => n <= Quotient(n) /\ Quotient(n) <= 0
        /\ ~(n < 0) => 0 <= Quotient(n) /\ Quotient(n) <= n
    BY <1>1, LastDigitOff
  <2>2. PICK q \in Int : q = Quotient(n)
    BY <2>1
  <2>3. q \in Between(m)
    BY <2>1, <2>2 DEF Between
  <2> QED  BY <2>2, <2>3
<1> QED  BY <1>1, <1>2

(* The recursive functions of Decimal and Number *)
LEMMA DecimalIs ==
    ASSUME NEW m \in Int
    PROVE  \E D : /\ Decimal(m) = D[m]
                  /\ \A n \in Between(m) :
                        D[n] = IF Quotient(n) = 0 THEN <<LastDigit(n)>>
                               ELSE D[Quotient(n)] \o <<LastDigit(n)>>
<1> DEFINE I == Between(m)
           V == Seq(DigitSet)
           body(n, g) == IF Quotient(n) = 0 THEN <<LastDigit(n)>>
                         ELSE g[Quotient(n)] \o <<LastDigit(n)>>
           step == [n \in I |-> [g \in [I -> V] |-> body(n, g)]]
           size == [n \in I |-> ABS(n)]
<1>1. \A n \in I : /\ n \in Int /\ <<LastDigit(n)>> \in V /\ Quotient(n) \in I
                   /\ ABS(n) \in Nat
                   /\ Quotient(n) # 0 => ABS(Quotient(n)) < ABS(n)
  <2>1. \A n \in I : n \in Int /\ Quotient(n) \in I
    BY BetweenGoesOn
  <2>2. \A n \in I : LastDigit(n) \in DigitSet => <<LastDigit(n)>> \in V
    OBVIOUS
  <2> HIDE DEF V, I
  <2> QED  BY <2>1, <2>2, LastDigitOff
<1>2. step \in [I -> [[I -> V] -> V]]
  <2>1. ASSUME NEW n \in I, NEW g \in [I -> V]
        PROVE  body(n, g) \in V
    <3>1. <<LastDigit(n)>> \in V /\ g[Quotient(n)] \in V
      <4> HIDE DEF V, I
      <4> QED  BY <1>1
    <3>2. g[Quotient(n)] \o <<LastDigit(n)>> \in V
      BY <3>1, ConcatProperties
    <3> HIDE DEF V
    <3> QED  BY <3>1, <3>2
  <2> HIDE DEF body, V
  <2> QED  BY <2>1
<1>3. ASSUME NEW n \in I, NEW g \in [I -> V], NEW h \in [I -> V],
             \A j \in I : size[j] < size[n] => g[j] = h[j]
      PROVE  step[n][g] = step[n][h]
  <2>1. Quotient(n) # 0 => g[Quotient(n)] = h[Quotient(n)]
    <3> HIDE DEF V, I
    <3> QED  BY <1>1, <1>3
  <2> HIDE DEF V
  <2> QED  BY <2>1
<1>4. PICK D \in [I -> V] : \A n \in I : D[n] = step[n][D]
  <2>1. \A n \in I : \A g, h \in [I -> V] :
           (\A j \in I : size[j] < size[n] => g[j] = h[j]) => step[n][g] = step[n][h]
    <3> HIDE DEF I, V, step, size
    <3> QED  BY <1>3
  <2>2. ABS(m) + 1 \in Nat /\ \A n \in I : size[n] < ABS(m) + 1
    BY DEF ABS, Between
  <2>3. V # {} /\ size \in [I -> Nat]
    <3>1. <<>> \in V
      OBVIOUS
    <3>2. size \in [I -> Nat]
      <4> HIDE DEF I, V
      <4> QED  BY <1>1
    <3> HIDE DEF V, size
    <3> QED  BY <3>1, <3>2
  <2> HIDE DEF I, V, step, size
  <2>4. Descends(I, V, size, step)
    BY <1>2, <2>1, <2>2, <2>3 DEF Descends
  <2> QED  BY <2>4, Recursion DEF Computes
<1> DEFINE Def(f) == f = [n \in Between(m) |-> IF Quotient(n) = 0 THEN <<LastDigit(n)>>
                                               ELSE f[Quotient(n)] \o <<LastDigit(n)>>]
           F == CHOOSE f : Def(f)
<1>5. Def(D)
  <2>1. \A n \in I : D[n] = body(n, D)
    <3> HIDE DEF V, body
    <3> QED  BY <1>4
  <2> HIDE DEF V
  <2> QED  BY <1>4, <2>1
<1>6. Def(F)
  <2> HIDE DEF Def
  <2> QED  BY <1>5
<1>7. Decimal(m) = F[m]
  BY DEF Decimal, Between
<1> HIDE DEF F, step, V, size
<1>8. \A n \in Between(m) : F[n] = IF Quotient(n) = 0 THEN <<LastDigit(n)>>
                                   ELSE F[Quotient(n)] \o <<LastDigit(n)>>
  BY <1>6
<1> QED  BY <1>7, <1>8

LEMMA NumberIs ==
    ASSUME NEW s \in Seq(DigitSet)
    PROVE  \E N \in [0 .. Len(s) -> Int] :
              /\ Number(s) = N[Len(s)]
              /\ N[0] = 0
              /\ \A i \in 1 .. Len(s) : N[i] = 10 * N[i - 1] + DigitOf(s[i])
<1> DEFINE I == 0 .. Len(s)
           body(i, g) == IF i = 0 THEN 0 ELSE 10 * g[i - 1] + DigitOf(s[i])
           step == [i \in I |-> [g \in [I -> Int] |-> body(i, g)]]
           size == [i \in I |-> i]
<1>1. Len(s) \in Nat /\ \A i \in 1 .. Len(s) : DigitOf(s[i]) \in Int
  <2>1. \A i \in 1 .. Len(s) : s[i] \in DigitSet
    OBVIOUS
  <2>2. \A i \in 1 .. Len(s) : DigitOf(s[i]) \in 0 .. 9
    BY <2>1, DigitsDiffer
  <2>3. Len(s) \in Nat
    OBVIOUS
  <2> QED  BY <2>2, <2>3
<1>2. step \in [I -> [[I -> Int] -> Int]]
  <2>1. ASSUME NEW i \in I, NEW g \in [I -> Int]
        PROVE  body(i, g) \in Int
    <3>1. CASE i = 0
      BY <3>1
    <3>2. CASE i # 0
      <4>1. i \in 1 .. Len(s) /\ g[i - 1] \in Int
        BY <1>1, <3>2
      <4>2. DigitOf(s[i]) \in Int
        BY <1>1, <4>1
      <4> QED  BY <3>2, <4>1, <4>2
    <3> QED  BY <3>1, <3>2
  <2> HIDE DEF body
  <2> QED  BY <2>1
<1>3. ASSUME NEW i \in I, NEW g \in [I -> Int], NEW h \in [I -> Int],
             \A j \in I : size[j] < size[i] => g[j] = h[j]
      PROVE  step[i][g] = step[i][h]
  <2>1. i # 0 => g[i - 1] = h[i - 1]
    BY <1>1, <1>3
  <2> QED  BY <2>1
<1>4. PICK N \in [I -> Int] : \A i \in I : N[i] = step[i][N]
  <2>1. \A i \in I : \A g, h \in [I -> Int] :
           (\A j \in I : size[j] < size[i] => g[j] = h[j]) => step[i][g] = step[i][h]
    <3> HIDE DEF I, step, size
    <3> QED  BY <1>3
  <2>2. Len(s) + 1 \in Nat /\ \A i \in I : size[i] < Len(s) + 1
    BY <1>1
  <2>3. Int # {} /\ size \in [I -> Nat]
    BY <1>1
  <2> HIDE DEF I, step, size
  <2>4. Descends(I, Int, size, step)
    BY <1>2, <2>1, <2>2, <2>3 DEF Descends
  <2> QED  BY <2>4, Recursion DEF Computes
<1> DEFINE Def(f) == f = [i \in 0 .. Len(s) |-> IF i = 0 THEN 0
                                 ELSE 10 * f[i - 1] + DigitOf(s[i])]
           F == CHOOSE f : Def(f)
<1>5. Def(N)
  <2>1. \A i \in I : N[i] = body(i, N)
    <3> HIDE DEF body
    <3> QED  BY <1>4
  <2> QED  BY <1>4, <2>1 DEF DigitOf
<1>6. Def(F)
  <2> HIDE DEF Def
  <2> QED  BY <1>5
<1>7. Number(s) = F[Len(s)]
  BY DEF Number
<1> HIDE DEF F, step, size
<1>8. /\ F[0] = 0
      /\ \A i \in 1 .. Len(s) : F[i] = 10 * F[i - 1] + DigitOf(s[i])
  <2>1. \A i \in 0 .. Len(s) : F[i] = IF i = 0 THEN 0 ELSE 10 * F[i - 1] + DigitOf(s[i])
    BY <1>6
  <2>2. 0 \in 0 .. Len(s) /\ \A i \in 1 .. Len(s) : i \in 0 .. Len(s) /\ i # 0
    BY <1>1
  <2> QED  BY <2>1, <2>2
<1> DEFINE T == {k \in Nat : k <= Len(s) => F[k] \in Int}
<1>9. 0 \in T /\ \A k \in Nat : k \in T => k + 1 \in T
  <2>1. ASSUME NEW k \in Nat, k \in T, k + 1 <= Len(s)
        PROVE  F[k + 1] \in Int
    <3>1. PICK i \in 1 .. Len(s) : i = k + 1 /\ i - 1 = k
      BY <1>1, <2>1
    <3>2. F[i - 1] \in Int
      BY <1>1, <2>1, <3>1
    <3>3. F[i] = 10 * F[i - 1] + DigitOf(s[i])
      BY <1>8
    <3>4. DigitOf(s[i]) \in Int
      BY <1>1
    <3>5. F[i] \in Int
      BY <3>2, <3>3, <3>4
    <3> QED  BY <3>1, <3>5
  <2>2. 0 \in T
    BY <1>8
  <2> QED  BY <2>1, <2>2
<1>10. \A i \in I : F[i] \in Int
  <2>1. Nat \subseteq T
    <3> HIDE DEF T
    <3> QED  BY <1>9, Induction
  <2> QED  BY <1>1, <2>1
<1>11. F \in [0 .. Len(s) -> Int]
  <2> DEFINE G == [i \in 0 .. Len(s) |-> IF i = 0 THEN 0 ELSE 10 * F[i - 1] + DigitOf(s[i])]
  <2>1. F = G
    BY <1>6
  <2>2. G = [i \in 0 .. Len(s) |-> G[i]]
    OBVIOUS
  <2> HIDE DEF G
  <2> QED  BY <1>10, <2>1, <2>2
<1> QED  BY <1>7, <1>8, <1>11

LEMMA NumberAppends ==
    ASSUME NEW s \in Seq(DigitSet), NEW d \in 0 .. 9
    PROVE  /\ Number(s) \in Int
           /\ Number(s \o <<Digit(d)>>) = 10 * Number(s) + d
<1> DEFINE t == s \o <<Digit(d)>>
<1>1. /\ Len(s) \in Nat /\ t \in Seq(DigitSet) /\ Len(t) = Len(s) + 1
      /\ t[Len(s) + 1] = Digit(d) /\ \A i \in 1 .. Len(s) : t[i] = s[i]
  <2>1. Digit(d) \in DigitSet
    BY DEF DigitSet
  <2> QED  BY <2>1
<1> HIDE DEF t
<1>2. PICK N \in [0 .. Len(s) -> Int] :
         /\ Number(s) = N[Len(s)]
         /\ N[0] = 0
         /\ \A i \in 1 .. Len(s) : N[i] = 10 * N[i - 1] + DigitOf(s[i])
  BY NumberIs
<1>3. PICK M \in [0 .. Len(t) -> Int] :
         /\ Number(t) = M[Len(t)]
         /\ M[0] = 0
         /\ \A i \in 1 .. Len(t) : M[i] = 10 * M[i - 1] + DigitOf(t[i])
  BY <1>1, NumberIs
<1> DEFINE T == {k \in Nat : k <= Len(s) => M[k] = N[k]}
<1>4. 0 \in T
  BY <1>2, <1>3
<1>5. ASSUME NEW k \in Nat, k \in T, k + 1 <= Len(s)
      PROVE  M[k + 1] = N[k + 1]
  <2>1. PICK i \in 1 .. Len(s) : i = k + 1 /\ i - 1 = k /\ i \in 1 .. Len(t)
    BY <1>1, <1>5
  <2>2. M[i - 1] = N[i - 1]
    BY <1>1, <1>5, <2>1
  <2>3. M[i] = 10 * M[i - 1] + DigitOf(t[i])
    BY <1>3, <2>1
  <2>4. N[i] = 10 * N[i - 1] + DigitOf(s[i])
    BY <1>2
  <2>5. t[i] = s[i]
    BY <1>1
  <2> QED  BY <2>1, <2>2, <2>3, <2>4, <2>5
<1>6. M[Len(s)] = N[Len(s)]
  <2>1. \A k \in Nat : k \in T => k + 1 \in T
    BY <1>5
  <2>2. Nat \subseteq T
    <3> HIDE DEF T
    <3> QED  BY <1>4, <2>1, Induction
  <2> QED  BY <1>1, <2>2
<1>7. M[Len(t)] = 10 * M[Len(s)] + d
  <2>1. PICK i \in 1 .. Len(t) : i = Len(s) + 1 /\ i - 1 = Len(s) /\ i = Len(t)
    BY <1>1
  <2>2. M[i] = 10 * M[i - 1] + DigitOf(t[i])
    BY <1>3
  <2>3. DigitOf(t[i]) = d
    BY <1>1, <2>1, DigitsDiffer
  <2> QED  BY <2>1, <2>2, <2>3
<1>8. N[Len(s)] \in Int
  BY <1>1, <1>2
<1> QED  BY <1>2, <1>3, <1>6, <1>7, <1>8 DEF t

LEMMA NumberOfNone == <<>> \in Seq(DigitSet) /\ Number(<<>>) = 0
<1>1. <<>> \in Seq(DigitSet) /\ Len(<<>>) = 0
  OBVIOUS
<1>2. PICK N \in [0 .. Len(<<>>) -> Int] : Number(<<>>) = N[Len(<<>>)] /\ N[0] = 0
  BY <1>1, NumberIs
<1> QED  BY <1>1, <1>2

(* What long2str writes for a number of either sign, before it adds the    *)
(* sign, has digits, at least one, and is the number without its sign.      *)
LEMMA DecimalReads ==
    ASSUME NEW m \in Int
    PROVE  Decimal(m) \in Seq(DigitSet) /\ Decimal(m) # <<>> /\ Number(Decimal(m)) = ABS(m)
<1>1. PICK D : /\ Decimal(m) = D[m]
               /\ \A n \in Between(m) :
                     D[n] = IF Quotient(n) = 0 THEN <<LastDigit(n)>>
                            ELSE D[Quotient(n)] \o <<LastDigit(n)>>
  BY DecimalIs
<1> DEFINE Right(n) == D[n] \in Seq(DigitSet) /\ D[n] # <<>> /\ Number(D[n]) = ABS(n)
           T == {k \in Nat : \A n \in Between(m) : ABS(n) < k => Right(n)}
<1>2. ASSUME NEW n \in Between(m), Quotient(n) = 0
      PROVE  Right(n)
  <2>1. PICK d \in 0 .. 9 : LastDigit(n) = Digit(d) /\ Digit(d) \in DigitSet /\ ABS(n) = d
    BY <1>2, BetweenGoesOn, LastDigitOff
  <2>2. D[n] = <<Digit(d)>>
    BY <1>1, <1>2, <2>1
  <2>3. <<Digit(d)>> = <<>> \o <<Digit(d)>>
    OBVIOUS
  <2>4. Number(<<Digit(d)>>) = 10 * 0 + d
    BY <2>3, NumberAppends, NumberOfNone
  <2>5. <<Digit(d)>> \in Seq(DigitSet) /\ <<Digit(d)>> # <<>>
    BY <2>1
  <2>6. 10 * 0 + d = d
    OBVIOUS
  <2> QED  BY <2>1, <2>2, <2>4, <2>5, <2>6
<1>3. ASSUME NEW n \in Between(m), Quotient(n) # 0, Right(Quotient(n))
      PROVE  Right(n)
  <2> DEFINE s == D[Quotient(n)]
  <2>1. PICK d \in 0 .. 9 : /\ LastDigit(n) = Digit(d) /\ Digit(d) \in DigitSet
                            /\ ABS(n) = 10 * ABS(Quotient(n)) + d
    BY BetweenGoesOn, LastDigitOff
  <2>2. D[n] = s \o <<Digit(d)>> /\ s \in Seq(DigitSet) /\ Number(s) = ABS(Quotient(n))
    BY <1>1, <1>3, <2>1
  <2> HIDE DEF s
  <2>3. Number(s \o <<Digit(d)>>) = 10 * Number(s) + d
    BY <2>2, NumberAppends
  <2>4. s \o <<Digit(d)>> \in Seq(DigitSet) /\ s \o <<Digit(d)>> # <<>>
    BY <2>1, <2>2
  <2> QED  BY <2>1, <2>2, <2>3, <2>4
<1> HIDE DEF Right
<1>4. 0 \in T
  <2>1. \A n \in Between(m) : ~(ABS(n) < 0)
    BY DEF Between, ABS
  <2> QED  BY <2>1
<1>5. ASSUME NEW k \in Nat, k \in T
      PROVE  k + 1 \in T
  <2>1. ASSUME NEW n \in Between(m), ABS(n) < k + 1
        PROVE  Right(n)
    <3>1. CASE Quotient(n) = 0
      BY <1>2, <3>1
    <3>2. CASE Quotient(n) # 0
      <4>1. /\ Quotient(n) \in Between(m) /\ ABS(Quotient(n)) < ABS(n)
            /\ ABS(n) \in Nat /\ ABS(Quotient(n)) \in Nat
        BY <3>2, BetweenGoesOn, LastDigitOff
      <4>2. ABS(Quotient(n)) < k
        BY <2>1, <4>1
      <4>3. Right(Quotient(n))
        BY <1>5, <4>1, <4>2
      <4> QED  BY <1>3, <3>2, <4>3
    <3> QED  BY <3>1, <3>2
  <2> QED  BY <2>1
<1>6. Right(m)
  <2>1. Nat \subseteq T
    <3> HIDE DEF T
    <3> QED  BY <1>4, <1>5, Induction
  <2>2. /\ m \in Between(m) /\ ABS(m) \in Nat /\ ABS(m) + 1 \in Nat
        /\ ABS(m) < ABS(m) + 1
    BY DEF Between, ABS
  <2>3. ABS(m) + 1 \in T
    <3> HIDE DEF T
    <3> QED  BY <2>1, <2>2
  <2> QED  BY <2>2, <2>3
<1> QED  BY <1>1, <1>6 DEF Right

LEMMA NumberComesBack ==
    ASSUME NEW n \in Int, NEW size \in Nat, size >= 8,
           Len(Long2Str(n)) <= size - 5
    PROVE  LET v == Long2Str(n) IN
           /\ v \in Seq(DigitSet \cup {"-"})
           /\ ReadText(RawText(v, size - 4), size) = v
           /\ GetL(v, 0) = n
<1> DEFINE v == Long2Str(n)
           m == ABS(n)
           s == Decimal(n)
           C == DigitSet \cup {"-"}
<1>1. m = IF n < 0 THEN -n ELSE n
  BY DEF ABS
<1>2. v = IF n < 0 THEN <<"-">> \o s ELSE s
  BY DEF Long2Str
<1>3. s \in Seq(DigitSet) /\ s # <<>> /\ Number(s) = m
  BY DecimalReads
<1> HIDE DEF s, v, m
<1>4. s \in Seq(C)
  <2>1. DigitSet \subseteq C
    OBVIOUS
  <2> HIDE DEF C
  <2> QED  BY <1>3, <2>1, SeqMonotonic
<1>5. /\ v \in Seq(C) /\ v # <<>>
      /\ n < 0 => v[1] = "-" /\ Tail(v) = s
      /\ ~(n < 0) => v[1] # "-"
  <2>1. CASE n < 0
    <3>1. v = <<"-">> \o s /\ "-" \in C
      BY <1>2, <2>1
    <3> HIDE DEF C
    <3>2. v \in Seq(C) /\ v # <<>> /\ v[1] = "-" /\ Tail(v) = s
      BY <1>4, <3>1
    <3> QED  BY <2>1, <3>2
  <2>2. CASE ~(n < 0)
    <3>1. v = s
      BY <1>2, <2>2
    <3>2. s[1] \in DigitSet
      BY <1>3
    <3>3. s[1] # "-"
      BY <3>2, DigitsDiffer
    <3> HIDE DEF C
    <3> QED  BY <1>3, <1>4, <2>2, <3>1, <3>3
  <2> QED  BY <2>1, <2>2
<1>6. GetL(v, 0) = n
  <2>1. CASE n < 0
    <3>1. GetL(v, 0) = -Number(s)
      BY <1>5, <2>1 DEF GetL
    <3> QED  BY <1>1, <1>3, <2>1, <3>1
  <2>2. CASE ~(n < 0)
    <3>1. GetL(v, 0) = Number(v) /\ v = s
      BY <1>2, <1>5, <2>2 DEF GetL
    <3> QED  BY <1>1, <1>3, <2>2, <3>1
  <2> QED  BY <2>1, <2>2
<1>7. /\ Len(v) \in Nat /\ Len(v) > 0 /\ DOMAIN v = 1 .. Len(v)
      /\ \A i \in 1 .. Len(v) : v[i] \in C
  <2> HIDE DEF C
  <2> QED  BY <1>5
<1>8. \A i \in 1 .. Len(v) : v[i] \notin {Quote, Comment} /\ v[i] \notin Blanks
  BY <1>7, DigitsDiffer
<1>9. ~NeedsQuotes(v)
  <2>1. Len(v) \in 1 .. Len(v)
    BY <1>7
  <2>2. v[Len(v)] # " "
    BY <1>8, <2>1 DEF Blanks
  <2> QED  BY <1>7, <1>8, <2>2 DEF NeedsQuotes, At
<1>10. ReadText(RawText(v, size - 4), size) = StripTrailing(SkipLeading(v))
  <2>1. Len(v) < size - 4
    <3>1. Len(v) <= size - 5
      BY DEF v
    <3> QED  BY <1>7, <3>1
  <2> HIDE DEF C
  <2> QED  BY <1>5, <1>9, <2>1, PlainComesBack
<1>11. SkipLeading(v) = v
  <2>1. 1 \in 1 .. Len(v) /\ v[1] \notin Blanks /\ \A j \in 1 .. 1 - 1 : v[j] \in Blanks
    BY <1>7, <1>8
  <2> HIDE DEF C
  <2>2. SkipLeading(v) = SubSeq(v, 1, Len(v))
    BY <1>5, <2>1, SkipsTo
  <2>3. SubSeq(v, 1, Len(v)) = v
    BY <1>5
  <2> QED  BY <2>2, <2>3
<1>12. StripTrailing(v) = v
  <2>1. Len(v) \in 1 .. Len(v)
    BY <1>7
  <2>2. Len(v) > 0 /\ v[Len(v)] \notin Blanks
    BY <1>7, <1>8, <2>1
  <2> HIDE DEF C
  <2>3. StripTrailing(v) = SubSeq(v, 1, Len(v))
    BY <1>5, <2>2, StripTrailingIs
  <2>4. SubSeq(v, 1, Len(v)) = v
    BY <1>5
  <2> QED  BY <2>3, <2>4
<1> QED  BY <1>5, <1>6, <1>10, <1>11, <1>12 DEF v
-------------------------------------------------------------------------------
(* The value that was written is the one that is read. *)

LEMMA FoundIsGot ==
    ASSUME PutPlaces
    PROVE  PutIsGot
<1> SUFFICES ASSUME pc = "done", Writes
             PROVE  PutIsGot
  BY DEF PutIsGot
<1> DEFINE v == setting.value
           C == Range(v) \cup {Quote, Backslash}
           read == ReadText(RawText(v, LineSize - 4), LineSize)
           got == Gets(out, setting.section, setting.key, None)
<1>1. got = IF exists /\ SameValue THEN v ELSE read
  BY DEF PutPlaces, WrittenIsFound, NewEntry, Entry
<1>2. v \in Seq(C) /\ Quote \in C /\ Backslash \in C
  <2>1. v \in Seq(Range(v))
    BY DEF PutPlaces, Writes
  <2>2. Range(v) \subseteq C
    OBVIOUS
  <2> HIDE DEF v
  <2>3. v \in Seq(C)
    <3> DEFINE R == Range(v)
    <3> HIDE DEF R, C
    <3>1. v \in Seq(R) /\ R \subseteq C
      BY <2>1, <2>2 DEF R
    <3> QED  BY <3>1, SeqMonotonic
  <2> QED  BY <2>3
<1> HIDE DEF got, C, v, read
<1>3. /\ Fits(v, LineSize) => read = Kept(v)
      /\ IsPrefix(read, v) \/ IsPrefix(read, SkipLeading(v))
  <2>1. CASE NeedsQuotes(v)
    <3>1. (Fits(v, LineSize) => read = v) /\ IsPrefix(read, v)
      BY <1>2, <2>1, LineAssumption, QuotedComesBack DEF read
    <3> QED  BY <2>1, <3>1 DEF Kept
  <2>2. CASE ~NeedsQuotes(v)
    <3>1. /\ Fits(v, LineSize) => read = StripTrailing(SkipLeading(v))
          /\ IsPrefix(read, v) \/ IsPrefix(read, SkipLeading(v))
      BY <1>2, <2>2, LineAssumption, PlainComesBack DEF read
    <3> QED  BY <2>2, <3>1 DEF Kept
  <2> QED  BY <2>1, <2>2
<1>4. ASSUME NEW n \in Numbers, v = Long2Str(n)
      PROVE  GetL(got, 0) = n
  <2>1. n \in Int /\ Len(Long2Str(n)) <= LineSize - 5
    BY NumbersAssumption
  <2>2. ReadText(RawText(v, LineSize - 4), LineSize) = v /\ GetL(v, 0) = n
    <3>1. /\ ReadText(RawText(Long2Str(n), LineSize - 4), LineSize) = Long2Str(n)
          /\ GetL(Long2Str(n), 0) = n
      BY <2>1, LineAssumption, NumberComesBack
    <3> QED  BY <1>4, <3>1
  <2>3. got = v
    BY <1>1, <2>2 DEF read
  <2> QED  BY <2>2, <2>3
<1>5. /\ IF exists /\ SameValue THEN got = v
         ELSE IF Fits(v, LineSize) THEN got = Kept(v)
         ELSE IsPrefix(got, v) \/ IsPrefix(got, SkipLeading(v))
  BY <1>1, <1>3
<1> QED  BY <1>4, <1>5 DEF PutIsGot, Fits, Kept, got, v

(* Every value that ini_puts writes, of any characters and any length,     *)
(* into any file, ini_gets returns: as test.c expects of its examples.     *)
THEOREM PutReadsBack == PutSpec => []PutIsGot
  BY FoundIsGot, PutInitPlaces, PutInitInv, PutNextInv, PutPlacesNext, PTL DEF PutSpec
-------------------------------------------------------------------------------
(* Listing a file by index                                                 *)

(* Indexes grow with the lines. *)
LEMMA IndexGrows ==
    ASSUME NEW N \in Nat, NEW S, S \subseteq 1 .. N
    PROVE  /\ IsFiniteSet(S) /\ Cardinality(S) \in Nat
           /\ \A i : /\ IsFiniteSet({j \in S : j < i})
                     /\ Cardinality({j \in S : j < i}) \in 0 .. Cardinality(S)
           /\ \A i, k \in S : i < k =>
                 Cardinality({j \in S : j < i}) < Cardinality({j \in S : j < k})
<1>1. IsFiniteSet(S) /\ Cardinality(S) \in Nat
  <2>1. IsFiniteSet(1 .. N)
    BY FS_Interval
  <2> QED  BY <2>1, FS_Subset, FS_CardinalityType
<1>2. ASSUME NEW i
      PROVE  LET below == {j \in S : j < i} IN
             IsFiniteSet(below) /\ Cardinality(below) \in 0 .. Cardinality(S)
  <2> DEFINE below == {j \in S : j < i}
  <2>1. below \in SUBSET S
    OBVIOUS
  <2> HIDE DEF below
  <2>2. IsFiniteSet(below) /\ Cardinality(below) <= Cardinality(S)
    BY <1>1, <2>1, FS_Subset
  <2>3. Cardinality(below) \in Nat
    BY <2>2, FS_CardinalityType
  <2>4. Cardinality(below) \in 0 .. Cardinality(S)
    BY <1>1, <2>2, <2>3
  <2> QED  BY <2>2, <2>4 DEF below
<1>3. ASSUME NEW i \in S, NEW k \in S, i < k
      PROVE  Cardinality({j \in S : j < i}) < Cardinality({j \in S : j < k})
  <2> DEFINE A == {j \in S : j < i}
             B == {j \in S : j < k}
  <2>1. IsFiniteSet(A) /\ IsFiniteSet(B) /\ Cardinality(A) \in Nat /\ Cardinality(B) \in Nat
    BY <1>1, <1>2
  <2>2. i \notin A /\ A \cup {i} \in SUBSET B
    <3>1. i \in Nat /\ k \in Nat /\ \A j \in S : j \in Nat
      OBVIOUS
    <3>2. ~(i < i) /\ \A j \in S : j < i => j < k
      BY ONLY <1>3, <3>1
    <3> QED  BY <1>3, <3>2
  <2> HIDE DEF A, B
  <2>3. Cardinality(A \cup {i}) = Cardinality(A) + 1
    BY <2>1, <2>2, FS_AddElement
  <2>4. Cardinality(A \cup {i}) <= Cardinality(B)
    BY <2>1, <2>2, FS_Subset
  <2>5. Cardinality(A) < Cardinality(B)
    BY <2>1, <2>3, <2>4
  <2> QED  BY <2>5 DEF A, B
<1> QED  BY <1>1, <1>2, <1>3

(* There is a line with every index below that of a line, so that no loop  *)
(* over indexes ends early ...                                             *)
LEMMA IndexReached ==
    ASSUME NEW N \in Nat, NEW S, S \subseteq 1 .. N, NEW i \in S, NEW n, HasIndex(S, i, n)
    PROVE  n \in Indexes(S) /\ WithIndex(S, n) = i
<1> DEFINE Index(x) == Cardinality({j \in S : j < x})
           T == {k \in Nat : k <= n => \E x \in S : Index(x) = n - k}
<1>1. /\ IsFiniteSet(S) /\ Cardinality(S) \in Nat
      /\ \A x : IsFiniteSet({j \in S : j < x}) /\ Index(x) \in 0 .. Cardinality(S)
      /\ \A x, y \in S : x < y => Index(x) < Index(y)
  BY IndexGrows
<1>2. n = Index(i) /\ n \in 0 .. Cardinality(S) /\ n \in Nat
  BY <1>1 DEF HasIndex
<1>3. 0 \in T
  <2>1. n - 0 = n
    BY <1>2
  <2> HIDE DEF Index
  <2> QED  BY <1>2, <2>1
<1>4. ASSUME NEW k \in Nat, k \in T
      PROVE  k + 1 \in T
  <2> SUFFICES ASSUME k + 1 <= n
               PROVE  \E y \in S : Index(y) = n - (k + 1)
    OBVIOUS
  <2>1. k <= n /\ n - k \in Nat /\ n - k # 0 /\ n - (k + 1) = (n - k) - 1
    BY <1>2
  <2>2. PICK x \in S : Index(x) = n - k
    BY <1>4, <2>1
  <2> DEFINE A == {j \in S : j < x}
  <2>3. A # {}
    BY <2>1, <2>2, FS_EmptySet
  <2>4. A \subseteq 0 .. N
    <3>1. 1 .. N \subseteq 0 .. N
      OBVIOUS
    <3>2. A \subseteq 1 .. N
      OBVIOUS
    <3> HIDE DEF A
    <3> QED  BY ONLY <3>1, <3>2
  <2>5. PICK y \in A : \A z \in A : z <= y
    <3> HIDE DEF A
    <3> QED  BY <2>3, <2>4, Greatest
  <2>6. {j \in S : j < y} = A \ {y}
    <3>1. ASSUME NEW j \in S
          PROVE  j < y <=> j < x /\ j # y
      <4>1. j \in Nat /\ x \in Nat /\ y \in Nat /\ y < x
        OBVIOUS
      <4>2. j < x => j <= y
        BY <2>5
      <4> QED  BY ONLY <4>1, <4>2
    <3> QED  BY <3>1
  <2>7. IsFiniteSet(A) /\ Cardinality(A) = n - k
    BY <1>1, <2>2
  <2> HIDE DEF A
  <2>8. Cardinality(A \ {y}) = (n - k) - 1
    BY <2>5, <2>7, FS_RemoveElement
  <2>9. y \in S
    BY DEF A
  <2> QED  BY <2>1, <2>6, <2>8, <2>9
<1>5. Nat \subseteq T
  <2> HIDE DEF T
  <2> QED  BY <1>3, <1>4, Induction
<1>6. ASSUME NEW m \in 0 .. n
      PROVE  \E x \in S : Index(x) = m
  <2>1. n - m \in Nat /\ n - m <= n /\ n - (n - m) = m
    BY <1>2
  <2>2. n - m \in T
    BY <1>5, <2>1
  <2> HIDE DEF Index
  <2> QED  BY <2>1, <2>2
<1>7. n \in Indexes(S)
  BY <1>2, <1>6 DEF Indexes, HasIndex
<1>8. ASSUME NEW x \in S, Index(x) = n
      PROVE  x = i
  <2>1. x \in Nat /\ i \in Nat /\ Index(x) \in Nat
    BY <1>1
  <2> HIDE DEF Index
  <2> QED  BY <1>1, <1>2, <1>8, <2>1
<1>9. WithIndex(S, n) = i
  <2>1. WithIndex(S, n) = CHOOSE x \in S : Index(x) = n
    BY DEF WithIndex, HasIndex
  <2> HIDE DEF Index
  <2> QED  BY <1>2, <1>8, <2>1
<1> QED  BY <1>7, <1>9

(* ... and every index a loop reaches is that of a line. *)
LEMMA IndexBack ==
    ASSUME NEW N \in Nat, NEW S, S \subseteq 1 .. N, NEW n \in Indexes(S)
    PROVE  WithIndex(S, n) \in S /\ HasIndex(S, WithIndex(S, n), n) /\ n \in Nat
<1>1. Cardinality(S) \in Nat
  BY IndexGrows
<1>2. n \in 0 .. Cardinality(S) /\ \A k \in 0 .. n : \E i \in S : HasIndex(S, i, k)
  BY DEF Indexes
<1>3. n \in 0 .. n /\ n \in Nat
  BY <1>1, <1>2
<1>4. \E i \in S : HasIndex(S, i, n)
  BY <1>2, <1>3
<1> HIDE DEF HasIndex
<1> QED  BY <1>3, <1>4 DEF WithIndex

(* Lines with a higher index stand further down. *)
LEMMA IndexOrder ==
    ASSUME NEW N \in Nat, NEW S, S \subseteq 1 .. N, NEW n \in Indexes(S), NEW m \in Indexes(S), n < m
    PROVE  WithIndex(S, n) < WithIndex(S, m)
<1> DEFINE x == WithIndex(S, n)
           y == WithIndex(S, m)
           Index(i) == Cardinality({j \in S : j < i})
<1>1. /\ x \in S /\ y \in S /\ x \in Nat /\ y \in Nat
      /\ Index(x) = n /\ Index(y) = m /\ n \in Nat /\ m \in Nat
  <2>1. /\ x \in S /\ HasIndex(S, x, n) /\ n \in Nat
        /\ y \in S /\ HasIndex(S, y, m) /\ m \in Nat
    BY IndexBack
  <2> HIDE DEF x, y
  <2>2. x \in Nat /\ y \in Nat
    BY <2>1
  <2>3. Index(x) = n /\ Index(y) = m
    BY <2>1 DEF HasIndex
  <2> HIDE DEF Index
  <2> QED  BY <2>1, <2>2, <2>3
<1>2. \A i, k \in S : i < k => Index(i) < Index(k)
  BY IndexGrows
<1> HIDE DEF x, y, Index
<1>3. x < y
  BY <1>1, <1>2
<1> QED  BY <1>3 DEF x, y

(* The keys of a section whose name occurs once are those below its        *)
(* heading, and a file without bare brackets is listed in two ways alike.  *)
LEMMA EnumerationAgrees ==
    ASSUME NEW C, NEW o \in Seq(C), SectionsDiffer(o)
    PROVE  /\ {p[3] : p \in Enumerated(o)} = Browsed(o)
           /\ \A p, q \in Enumerated(o) :
                 p[1] < q[1] \/ (p[1] = q[1] /\ p[2] < q[2]) => p[3] < q[3]
<1> DEFINE N == Len(o)
           H == Headings(o)
           K(h) == Under(o, o[h].section)
<1>1. N \in Nat /\ DOMAIN o = 1 .. N /\ H \subseteq 1 .. N
  BY LenProperties DEF Headings
<1>2. ASSUME NEW s
      PROVE  Under(o, s) \subseteq 1 .. N
  BY <1>1 DEF Under
<1>3. ASSUME NEW h \in H, NEW i
      PROVE  i \in K(h) <=> /\ i \in 1 .. N /\ o[i].kind = "entry" /\ h < i
                            /\ \A j \in h + 1 .. i : ~Bracketed(o[j])
  <2>1. \A g \in H : SameSection(o[g].section, o[h].section) => g = h
    BY DEF SectionsDiffer
  <2>2. SameSection(o[h].section, o[h].section) /\ ~(h < h)
    BY <1>1 DEF SameSection
  <2> HIDE DEF H
  <2>3. i \in K(h) <=>
          /\ i \in 1 .. N /\ o[i].kind = "entry"
          /\ \E f \in H : /\ f < i /\ SameSection(o[f].section, o[h].section)
                          /\ \A g \in H : g < f => ~SameSection(o[g].section, o[h].section)
                          /\ \A j \in f + 1 .. i : ~Bracketed(o[j])
    BY <1>1 DEF Under, H
  <2>4. ASSUME NEW g \in H, g < h
        PROVE  ~SameSection(o[g].section, o[h].section)
    BY <2>1, <2>2, <2>4
  <2> HIDE DEF N, K
  <2> QED  BY <2>1, <2>2, <2>3, <2>4
<1>4. ASSUME NEW p
      PROVE  p \in Enumerated(o) <=>
               \E n \in Indexes(H) : \E m \in Indexes(K(WithIndex(H, n))) :
                  p = <<n, m, WithIndex(K(WithIndex(H, n)), m)>>
  BY DEF Enumerated
<1> HIDE DEF N, H, K
<1>5. ASSUME NEW n \in Indexes(H), NEW m \in Indexes(K(WithIndex(H, n)))
      PROVE  LET h == WithIndex(H, n)
                 i == WithIndex(K(h), m) IN
             /\ h \in H /\ i \in K(h) /\ h \in 1 .. N /\ i \in 1 .. N /\ h < i
             /\ \A j \in h + 1 .. i : ~Bracketed(o[j])
  <2> DEFINE h == WithIndex(H, n)
             i == WithIndex(K(h), m)
  <2>1. h \in H
    BY <1>1, IndexBack
  <2>2. K(h) \subseteq 1 .. N
    BY <1>2 DEF K
  <2>3. i \in K(h)
    BY <1>1, <2>2, IndexBack
  <2> HIDE DEF h, i
  <2>4. /\ h \in 1 .. N /\ i \in 1 .. N /\ h < i
        /\ \A j \in h + 1 .. i : ~Bracketed(o[j])
    BY <1>1, <1>3, <2>1, <2>3
  <2> QED  BY <2>1, <2>3, <2>4 DEF h, i
<1>6. ASSUME NEW i \in Browsed(o)
      PROVE  \E p \in Enumerated(o) : p[3] = i
  <2>1. i \in 1 .. N /\ o[i].kind = "entry" /\ \E h \in H : h < i
    BY <1>1 DEF Browsed, H
  <2> DEFINE A == {h \in H : h < i}
  <2>2. A \subseteq 0 .. N /\ A # {}
    <3>1. 1 .. N \subseteq 0 .. N
      BY <1>1
    <3>2. A \subseteq H /\ A # {}
      BY <2>1
    <3> HIDE DEF A
    <3> QED  BY ONLY <1>1, <3>1, <3>2
  <2>3. PICK h \in A : \A g \in A : g <= h
    <3> HIDE DEF A
    <3> QED  BY <1>1, <2>2, Greatest
  <2>4. h \in H /\ h < i /\ h \in 1 .. N
    BY <1>1
  <2>5. ASSUME NEW j \in h + 1 .. i
        PROVE  ~Bracketed(o[j])
    <3>1. j \in 1 .. N /\ h < j /\ j <= i /\ h \in Nat /\ j \in Nat /\ i \in Nat
      BY <1>1, <2>1, <2>4
    <3>2. j # i => j < i
      BY <3>1
    <3>3. j \notin H
      <4>1. CASE j = i
        BY <2>1, <4>1 DEF H, Headings
      <4>2. CASE j # i
        <5>1. j \in H => j <= h
          BY <2>3, <3>2, <4>2
        <5> QED  BY <3>1, <5>1
      <4> QED  BY <4>1, <4>2
    <3>4. o[j].kind # "bracket" /\ o[j].kind # "heading"
      BY <1>1, <3>1, <3>3 DEF SectionsDiffer, H, Headings
    <3> QED  BY <3>4 DEF Bracketed
  <2>6. i \in K(h)
    BY <1>3, <2>1, <2>4, <2>5
  <2> DEFINE n == Cardinality({g \in H : g < h})
             m == Cardinality({j \in K(h) : j < i})
  <2>7. K(h) \subseteq 1 .. N
    BY <1>2 DEF K
  <2>8. n \in Indexes(H) /\ WithIndex(H, n) = h
    BY <1>1, <2>4, IndexReached DEF HasIndex
  <2>9. m \in Indexes(K(h)) /\ WithIndex(K(h), m) = i
    BY <1>1, <2>6, <2>7, IndexReached DEF HasIndex
  <2> HIDE DEF n, m
  <2>10. <<n, m, i>> \in Enumerated(o)
    BY <1>4, <2>8, <2>9
  <2> QED  BY <2>10
<1>7. ASSUME NEW p \in Enumerated(o)
      PROVE  p[3] \in Browsed(o)
  <2>a. PICK n \in Indexes(H) : \E m \in Indexes(K(WithIndex(H, n))) :
           p = <<n, m, WithIndex(K(WithIndex(H, n)), m)>>
    BY <1>4
  <2>1. PICK m \in Indexes(K(WithIndex(H, n))) : p = <<n, m, WithIndex(K(WithIndex(H, n)), m)>>
    BY <2>a
  <2> DEFINE h == WithIndex(H, n)
             i == WithIndex(K(h), m)
  <2>2. p[3] = i
    BY <2>1
  <2>3. h \in H /\ i \in K(h)
    BY <1>5
  <2> HIDE DEF h, i
  <2>4. i \in 1 .. N /\ o[i].kind = "entry" /\ h < i
    BY <1>3, <2>3
  <2> QED  BY <1>1, <2>2, <2>3, <2>4 DEF Browsed, H
<1>8. ASSUME NEW p \in Enumerated(o), NEW q \in Enumerated(o),
             p[1] < q[1] \/ (p[1] = q[1] /\ p[2] < q[2])
      PROVE  p[3] < q[3]
  <2>a. PICK n \in Indexes(H) : \E m \in Indexes(K(WithIndex(H, n))) :
           p = <<n, m, WithIndex(K(WithIndex(H, n)), m)>>
    BY <1>4
  <2>1. PICK m \in Indexes(K(WithIndex(H, n))) : p = <<n, m, WithIndex(K(WithIndex(H, n)), m)>>
    BY <2>a
  <2>b. PICK k \in Indexes(H) : \E l \in Indexes(K(WithIndex(H, k))) :
           q = <<k, l, WithIndex(K(WithIndex(H, k)), l)>>
    BY <1>4
  <2>2. PICK l \in Indexes(K(WithIndex(H, k))) : q = <<k, l, WithIndex(K(WithIndex(H, k)), l)>>
    BY <2>b
  <2> DEFINE g == WithIndex(H, n)
             h == WithIndex(H, k)
             i == WithIndex(K(g), m)
             j == WithIndex(K(h), l)
  <2>3. /\ g \in H /\ g \in 1 .. N /\ i \in 1 .. N /\ g < i
        /\ \A x \in g + 1 .. i : ~Bracketed(o[x])
    BY <1>5
  <2>4. h \in H /\ h \in 1 .. N /\ j \in 1 .. N /\ h < j
    BY <1>5
  <2>5. n < k \/ (n = k /\ m < l)
    BY <1>8, <2>1, <2>2
  <2>6. CASE n < k
    <3>1. g < h
      BY <1>1, <2>6, IndexOrder
    <3>2. Bracketed(o[h])
      BY <2>4 DEF H, Headings, Bracketed
    <3> HIDE DEF g, h, i, j
    <3>3. h \notin g + 1 .. i
      BY <2>3, <3>2
    <3>4. i < j
      BY <1>1, <2>3, <2>4, <3>1, <3>3
    <3> QED  BY <2>1, <2>2, <3>4 DEF g, h, i, j
  <2>7. CASE n = k /\ m < l
    <3>1. K(g) \subseteq 1 .. N
      BY <1>2 DEF K
    <3>2. g = h /\ l \in Indexes(K(g)) /\ m \in Indexes(K(g))
      BY <2>7
    <3> HIDE DEF g, h
    <3>3. i < j
      BY <1>1, <2>7, <3>1, <3>2, IndexOrder
    <3> QED  BY <2>1, <2>2, <3>3 DEF g, h
  <2> QED  BY <2>5, <2>6, <2>7
<1> QED  BY <1>6, <1>7, <1>8

(* Listing the file that is left by section and key indexes comes to its   *)
(* entries in the order of ini_browse, for every file and every setting    *)
(* written to it: no index is skipped, given twice or out of order, and no *)
(* loop over them ends early.                                              *)
THEOREM PutEnumerates == PutSpec => []EnumerationIsBrowse
<1>1. PutInv => EnumerationIsBrowse
  <2>1. PutInv => out \in Seq(PutLines)
    BY DEF PutInv
  <2> QED  BY <2>1, EnumerationAgrees DEF EnumerationIsBrowse
<1> QED  BY <1>1, PutInitInv, PutNextInv, PTL DEF PutSpec
===============================================================================
