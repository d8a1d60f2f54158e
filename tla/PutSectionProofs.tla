---------------------------- MODULE PutSectionProofs ----------------------------
(***************************************************************************)
(* Proofs about PutSection, for files of any length, any saved values and  *)
(* any size of the buffer.                                                 *)
(***************************************************************************)
EXTENDS PutSection, FiniteSetTheorems, SequenceTheorems, TLAPS

(* What the lines of the two files are taken from *)
LinesOf(f, v) == Range(f) \cup Range(Section(v)) \cup {Blank}
-------------------------------------------------------------------------------
(* The keys of a section, in the order they are written: each of them once. *)
LEMMA KeysOnce ==
    ASSUME NEW S, IsFiniteSet(S)
    PROVE  /\ Cardinality(S) \in Nat
           /\ SetToSeq(S) \in [1 .. Cardinality(S) -> S]
           /\ IsInjective(SetToSeq(S))
           /\ \A k \in S : \E i \in 1 .. Cardinality(S) : SetToSeq(S)[i] = k
<1> DEFINE n == Cardinality(S)
           f == SetToSeq(S)
<1>1. n \in Nat /\ ExistsBijection(1 .. n, S)
  BY FS_CardinalityType
<1>2. f \in [1 .. n -> S] /\ IsInjective(f)
  <2>1. PICK g : g \in Bijection(1 .. n, S)
    BY <1>1 DEF ExistsBijection
  <2>2. g \in [1 .. n -> S] /\ IsInjective(g)
    BY <2>1 DEF Bijection, Injection
  <2> QED  BY <2>2 DEF SetToSeq
<1>3. f \in Injection(1 .. n, S)
  BY <1>2 DEF Injection
<1>4. Cardinality(1 .. n) = n
  BY <1>1, FS_Interval
<1>5. f \in Surjection(1 .. n, S)
  BY <1>3, <1>4, FS_Injection
<1> QED  BY <1>1, <1>2, <1>5 DEF Surjection

(* Where the lines of two sequences are after one was put behind the other *)
LEMMA Behind ==
    ASSUME NEW S, NEW s \in Seq(S), NEW t \in Seq(S)
    PROVE  /\ s \o t \in Seq(S)
           /\ Len(s \o t) = Len(s) + Len(t)
           /\ \A i \in 1 .. Len(s) : (s \o t)[i] = s[i]
           /\ \A i \in 1 .. Len(t) : (s \o t)[Len(s) + i] = t[i]
<1>1. /\ s \o t \in Seq(S)
      /\ Len(s \o t) = Len(s) + Len(t)
      /\ \A i \in 1 .. Len(s) + Len(t) :
            (s \o t)[i] = IF i <= Len(s) THEN s[i] ELSE t[i - Len(s)]
  BY ConcatProperties
<1>2. Len(s) \in Nat /\ Len(t) \in Nat
  BY LenProperties
<1>3. ASSUME NEW i \in 1 .. Len(t)
      PROVE  (s \o t)[Len(s) + i] = t[i]
  <2>1. Len(s) + i \in 1 .. Len(s) + Len(t) /\ ~(Len(s) + i <= Len(s)) /\ Len(s) + i - Len(s) = i
    BY <1>2
  <2> QED  BY <2>1, <1>1
<1> QED  BY <1>1, <1>2, <1>3

(* What putsection writes: the heading, an entry for each key, a blank     *)
(* line; nothing when there are no keys.                                   *)
LEMMA SectionText ==
    ASSUME NEW v, IsFiniteSet(DOMAIN v)
    PROVE  /\ Section(v) \in Seq(Range(Section(v)))
           /\ DOMAIN v = {} => Section(v) = <<>>
           /\ DOMAIN v # {} =>
                 LET n == Cardinality(DOMAIN v)
                     s == Section(v) IN
                 /\ Len(s) = n + 2
                 /\ s[1] = Heading("values", FALSE)
                 /\ \A i \in 1 .. n : s[i + 1] = Entry(SetToSeq(DOMAIN v)[i],
                                                       v[SetToSeq(DOMAIN v)[i]])
                 /\ s[n + 2] = Blank
<1> DEFINE n == Cardinality(DOMAIN v)
           keys == SetToSeq(DOMAIN v)
           h == <<Heading("values", FALSE)>>
           e == [i \in DOMAIN keys |-> Entry(keys[i], v[keys[i]])]
           b == <<Blank>>
           T == {Heading("values", FALSE), Blank} \cup Range(e)
<1>1. n \in Nat /\ keys \in [1 .. n -> DOMAIN v]
  BY KeysOnce
<1>2. keys \in Seq(DOMAIN v) /\ Len(keys) = n
  BY <1>1
<1>3. keys = <<>> <=> DOMAIN v = {}
  <2>1. keys = <<>> <=> n = 0
    BY <1>2, EmptySeq
  <2>2. n = 0 <=> DOMAIN v = {}
    BY FS_EmptySet
  <2> QED  BY <2>1, <2>2
<1>4. h \in Seq(T) /\ b \in Seq(T) /\ Len(h) = 1 /\ Len(b) = 1
      /\ h[1] = Heading("values", FALSE) /\ b[1] = Blank
  OBVIOUS
<1>5. /\ e \in Seq(T) /\ Len(e) = n
      /\ \A i \in 1 .. n : e[i] = Entry(keys[i], v[keys[i]])
  <2>1. DOMAIN e = 1 .. n
    BY <1>1
  <2>2. \A i \in 1 .. n : e[i] \in T
    BY <2>1 DEF Range
  <2>3. e \in [1 .. n -> T]
    BY <2>1, <2>2
  <2>4. \A i \in 1 .. n : e[i] = Entry(keys[i], v[keys[i]])
    BY <2>1
  <2> HIDE DEF e, T
  <2>5. e \in Seq(T)
    BY <2>3, <1>1, SeqDef
  <2>6. Len(e) = n
    BY <2>5, <2>1, <1>1, LenProperties
  <2> QED  BY <2>4, <2>5, <2>6
<1>6. /\ h \o e \in Seq(T) /\ Len(h \o e) = n + 1
      /\ (h \o e)[1] = h[1]
      /\ \A i \in 1 .. n : (h \o e)[i + 1] = e[i]
  <2> HIDE DEF h, e, T
  <2>1. h \in Seq(T) /\ e \in Seq(T) /\ Len(h) = 1 /\ Len(e) = n
    BY <1>4, <1>5
  <2>2. /\ h \o e \in Seq(T) /\ Len(h \o e) = Len(h) + Len(e)
        /\ \A i \in 1 .. Len(h) : (h \o e)[i] = h[i]
        /\ \A i \in 1 .. Len(e) : (h \o e)[Len(h) + i] = e[i]
    <3>1. h \in Seq(T) /\ e \in Seq(T)
      BY <2>1
    <3> QED  BY ONLY <3>1, Behind, SMTT(20)
  <2>3. (h \o e)[1] = h[1]
    BY <2>1, <2>2
  <2>4. ASSUME NEW i \in 1 .. n
        PROVE  (h \o e)[i + 1] = e[i]
    <3>1. i + 1 = Len(h) + i /\ i \in 1 .. Len(e)
      BY <2>1
    <3> QED  BY <3>1, <2>2
  <2>5. Len(h \o e) = n + 1
    BY <2>1, <2>2, <1>1
  <2> QED  BY <2>2, <2>3, <2>4, <2>5
<1>7. /\ h \o e \o b \in Seq(T) /\ Len(h \o e \o b) = n + 2
      /\ \A i \in 1 .. n + 1 : (h \o e \o b)[i] = (h \o e)[i]
      /\ (h \o e \o b)[n + 2] = Blank
  <2> HIDE DEF h, e, b, T, n
  <2>1. h \o e \in Seq(T) /\ b \in Seq(T) /\ Len(h \o e) = n + 1 /\ Len(b) = 1 /\ b[1] = Blank
    BY <1>4, <1>6
  <2>2. /\ h \o e \o b \in Seq(T) /\ Len(h \o e \o b) = Len(h \o e) + Len(b)
        /\ \A i \in 1 .. Len(h \o e) : (h \o e \o b)[i] = (h \o e)[i]
        /\ \A i \in 1 .. Len(b) : (h \o e \o b)[Len(h \o e) + i] = b[i]
    <3>1. h \o e \in Seq(T) /\ b \in Seq(T)
      BY <2>1
    <3> QED  BY ONLY <3>1, Behind, SMTT(20)
  <2>3. n + 1 + 1 = n + 2
    BY <1>1
  <2>4. 1 \in 1 .. Len(b) /\ Len(h \o e) + 1 = n + 2
    BY <2>1, <2>3
  <2>5. (h \o e \o b)[n + 2] = Blank
    BY <2>1, <2>2, <2>4
  <2>6. Len(h \o e \o b) = n + 2
    BY <2>1, <2>2, <2>3
  <2> QED  BY <2>1, <2>2, <2>5, <2>6
<1>8. Section(v) = IF keys = <<>> THEN <<>> ELSE h \o e \o b
  BY DEF Section
<1>9. Section(v) \in Seq(Range(Section(v)))
  <2>1. Section(v) \in Seq(T)
    BY <1>7, <1>8, EmptySeq
  <2>2. \A i \in 1 .. Len(Section(v)) : Section(v)[i] \in Range(Section(v))
    BY <2>1, LenProperties DEF Range
  <2> QED  BY <2>1, <2>2, LenProperties
<1>10. DOMAIN v # {} =>
         /\ Len(Section(v)) = n + 2
         /\ Section(v)[1] = Heading("values", FALSE)
         /\ \A i \in 1 .. n : Section(v)[i + 1] = Entry(keys[i], v[keys[i]])
         /\ Section(v)[n + 2] = Blank
  <2> SUFFICES ASSUME DOMAIN v # {}
               PROVE  /\ Len(Section(v)) = n + 2
                      /\ Section(v)[1] = Heading("values", FALSE)
                      /\ \A i \in 1 .. n : Section(v)[i + 1] = Entry(keys[i], v[keys[i]])
                      /\ Section(v)[n + 2] = Blank
    OBVIOUS
  <2>1. Section(v) = h \o e \o b
    BY <1>3, <1>8
  <2> HIDE DEF h, e, b
  <2>2. h[1] = Heading("values", FALSE)
    BY <1>4
  <2>3. 1 \in 1 .. n + 1 /\ \A i \in 1 .. n : i + 1 \in 1 .. n + 1
    BY <1>1
  <2> QED  BY <2>1, <2>2, <2>3, <1>5, <1>6, <1>7
<1> QED  BY <1>3, <1>8, <1>9, <1>10
-------------------------------------------------------------------------------
(* The reference, as the copying gets to it: the file up to the section,   *)
(* the new section, and the lines behind the old one as far as line n      *)
Target(n) ==
    SubSeq(file, 1, First(file) - 1) \o Section(vals) \o SubSeq(file, Following(file), n)

(* Up to the heading everything is copied or accumulated. *)
Searching ==
    /\ out = SubSeq(file, 1, mark - 1)
    /\ \A j \in 1 .. mark + cachelen - 1 : ~Matches(file[j])
    /\ pc = "found" => mark + cachelen <= Len(file) /\ Matches(file[mark + cachelen])

(* Inside the section everything before it is copied, and the mark moves   *)
(* on to the next bracket.  Flag then tells whether there is one.          *)
Skipping ==
    /\ cachelen = 0
    /\ First(file) \in 1 .. Len(file) /\ Matches(file[First(file)])
    /\ out = SubSeq(file, 1, First(file) - 1)
    /\ mark > First(file)
    /\ pc = "section" => /\ mark = rpos
                         /\ \A j \in First(file) + 1 .. mark - 1 : ~Bracketed(file[j])
    /\ pc = "replace" => /\ mark = Following(file)
                         /\ mark <= Len(file) => Flag /\ Bracketed(file[mark])

(* Behind it, what is copied and what is accumulated add up again.  With   *)
(* nothing behind the section there may be a line accumulated that is not  *)
(* in the file.                                                            *)
Resuming ==
    /\ First(file) \in 1 .. Len(file) /\ Matches(file[First(file)])
    /\ Following(file) \in First(file) + 1 .. mark
    /\ Following(file) <= Len(file) => Bracketed(file[Following(file)])
    /\ out = Target(mark - 1)
    /\ rpos = mark + cachelen \/ (AtEnd /\ rpos = mark)

Inv ==
    /\ file \in Files /\ vals \in Saves
    /\ TypeOK
    /\ out \in Seq(LinesOf(file, vals))
    /\ pc \in {"search", "found"} => Searching
    /\ pc \in {"section", "replace"} => Skipping
    /\ pc = "rest" => Resuming
    /\ pc = "done" => RewritesSection
-------------------------------------------------------------------------------
(* The file a rewrite leaves: lines without the section, the new section,  *)
(* lines without the section that begin with another heading.              *)
Around(pre, v, suf) ==
    /\ IsFiniteSet(DOMAIN v) /\ v \in [DOMAIN v -> Range(v)]
    /\ \E L : pre \in Seq(L) /\ suf \in Seq(L) /\ Section(v) \in Seq(L)
    /\ \A i \in 1 .. Len(pre) : ~Matches(pre[i])
    /\ \A i \in 1 .. Len(suf) : ~Matches(suf[i])
    /\ suf # <<>> => suf[1].kind = "heading"

(* Where the lines of three sequences are after they were put together *)
Joined(x, s, t, u) ==
    /\ Len(s) \in Nat /\ Len(t) \in Nat /\ Len(u) \in Nat
    /\ DOMAIN x = 1 .. Len(s) + Len(t) + Len(u)
    /\ \A i \in 1 .. Len(s) : x[i] = s[i]
    /\ \A i \in 1 .. Len(t) : x[Len(s) + i] = t[i]
    /\ \A i \in 1 .. Len(u) : x[Len(s) + Len(t) + i] = u[i]

LEMMA Three ==
    ASSUME NEW S, NEW s \in Seq(S), NEW t \in Seq(S), NEW u \in Seq(S)
    PROVE  Joined(s \o t \o u, s, t, u)
<1>1. Len(s) \in Nat /\ Len(t) \in Nat /\ Len(u) \in Nat
  BY LenProperties
<1>2. PICK x : x = s \o t
  OBVIOUS
<1>3. /\ x \in Seq(S) /\ Len(x) = Len(s) + Len(t)
      /\ \A i \in 1 .. Len(s) : x[i] = s[i]
      /\ \A i \in 1 .. Len(t) : x[Len(s) + i] = t[i]
  BY ONLY <1>2, s \in Seq(S), t \in Seq(S), Behind
<1>4. PICK y : y = x \o u
  OBVIOUS
<1>5. /\ y \in Seq(S) /\ Len(y) = Len(x) + Len(u)
      /\ \A i \in 1 .. Len(x) : y[i] = x[i]
      /\ \A i \in 1 .. Len(u) : y[Len(x) + i] = u[i]
  <2>1. x \in Seq(S)
    BY <1>3
  <2>2. /\ x \o u \in Seq(S) /\ Len(x \o u) = Len(x) + Len(u)
        /\ \A i \in 1 .. Len(x) : (x \o u)[i] = x[i]
        /\ \A i \in 1 .. Len(u) : (x \o u)[Len(x) + i] = u[i]
    BY ONLY <2>1, u \in Seq(S), Behind
  <2> QED  BY ONLY <1>4, <2>2, Zenon
<1>6. DOMAIN y = 1 .. Len(s) + Len(t) + Len(u)
  <2>1. DOMAIN y = 1 .. Len(y)
    BY ONLY <1>5, LenProperties
  <2>2. Len(y) = Len(s) + Len(t) + Len(u)
    BY <1>1, <1>3, <1>5
  <2> QED  BY <2>1, <2>2
<1>7. ASSUME NEW i \in 1 .. Len(s)
      PROVE  y[i] = s[i]
  <2>1. i \in 1 .. Len(x)
    BY <1>1, <1>3
  <2> QED  BY <2>1, <1>3, <1>5
<1>8. ASSUME NEW i \in 1 .. Len(t)
      PROVE  y[Len(s) + i] = t[i]
  <2>1. Len(s) + i \in 1 .. Len(x)
    BY <1>1, <1>3
  <2> QED  BY <2>1, <1>3, <1>5
<1>9. ASSUME NEW i \in 1 .. Len(u)
      PROVE  y[Len(s) + Len(t) + i] = u[i]
  <2>1. Len(s) + Len(t) + i = Len(x) + i
    BY <1>3
  <2> QED  BY <2>1, <1>5
<1>10. y = s \o t \o u
  BY <1>2, <1>4
<1>11. Joined(y, s, t, u)
  BY ONLY <1>1, <1>6, <1>7, <1>8, <1>9 DEF Joined
<1> QED  BY ONLY <1>10, <1>11

(* The kinds and parts of the lines a section consists of *)
LEMMA LineParts ==
    /\ \A k, x : /\ Entry(k, x).kind = "entry"
                 /\ Entry(k, x).key = k /\ Entry(k, x).text = x
                 /\ ~Matches(Entry(k, x))
    /\ Heading("values", FALSE).kind = "heading"
    /\ Heading("values", FALSE).section = "values"
    /\ Blank.kind = "blank" /\ ~Matches(Blank)
  BY DEF Entry, Heading, Blank, Matches

(* The entries that are read of such a file are those of the new section. *)
LEMMA EntriesRead ==
    ASSUME NEW pre, NEW v, NEW suf, Around(pre, v, suf), DOMAIN v # {},
           NEW i \in DOMAIN (pre \o Section(v) \o suf)
    PROVE  IsRead(pre \o Section(v) \o suf, i) <=>
               i \in Len(pre) + 2 .. Len(pre) + 1 + Cardinality(DOMAIN v)
<1>1. PICK L : pre \in Seq(L) /\ suf \in Seq(L) /\ Section(v) \in Seq(L)
  BY DEF Around
<1> DEFINE n == Cardinality(DOMAIN v)
           keys == SetToSeq(DOMAIN v)
           p == Len(pre)
<1>2. PICK s : s = Section(v)
  OBVIOUS
<1>3. PICK o : o = pre \o Section(v) \o suf
  OBVIOUS
<1>4. n \in Nat
  BY KeysOnce DEF Around
<1>5. /\ Len(s) = n + 2
      /\ s[1] = Heading("values", FALSE)
      /\ \A j \in 1 .. n : s[j + 1] = Entry(keys[j], v[keys[j]])
      /\ s[n + 2] = Blank
  BY <1>2, SectionText DEF Around
<1>6. /\ p \in Nat /\ Len(suf) \in Nat
      /\ DOMAIN o = 1 .. p + Len(s) + Len(suf)
      /\ \A j \in 1 .. p : o[j] = pre[j]
      /\ \A j \in 1 .. Len(s) : o[p + j] = s[j]
      /\ \A j \in 1 .. Len(suf) : o[p + Len(s) + j] = suf[j]
  <2>1. pre \in Seq(L) /\ s \in Seq(L) /\ suf \in Seq(L)
    BY <1>1, <1>2
  <2>2. Joined(pre \o s \o suf, pre, s, suf)
    BY ONLY <2>1, Three
  <2>3. Joined(o, pre, s, suf)
    BY ONLY <1>2, <1>3, <2>2
  <2> QED  BY ONLY <2>3 DEF Joined, p
<1> HIDE DEF n, keys, p
<1> DEFINE q == Len(suf)
<1>numbers. p \in Nat /\ n \in Nat /\ q \in Nat /\ Len(s) = n + 2
  BY <1>4, <1>5, <1>6
<1>domain. \A j : j \in DOMAIN o <=> j \in 1 .. p + (n + 2) + q
  BY <1>6, <1>numbers
<1> HIDE DEF q
<1>7. o[p + 1] = Heading("values", FALSE)
  <2>1. 1 \in 1 .. Len(s)
    BY <1>numbers
  <2> QED  BY <2>1, <1>5, <1>6
<1>8. ASSUME NEW j \in p + 2 .. p + 1 + n
      PROVE  o[j].kind = "entry" /\ ~Matches(o[j])
  <2>1. PICK x \in 1 .. n : j = p + (x + 1)
    <3>1. j - p - 1 \in 1 .. n /\ j = p + ((j - p - 1) + 1)
      BY <1>4, <1>6
    <3> QED  BY <3>1
  <2>2. x + 1 \in 1 .. Len(s)
    BY <1>4, <1>5
  <2>3. o[j] = Entry(keys[x], v[keys[x]])
    BY <1>5, <1>6, <2>1, <2>2
  <2> QED  BY <2>3, LineParts
<1>9. o[p + (n + 2)] = Blank
  <2>1. n + 2 \in 1 .. Len(s)
    BY <1>4, <1>5
  <2> QED  BY <2>1, <1>5, <1>6
<1>10. ASSUME NEW j \in DOMAIN o, j >= p + n + 3
       PROVE  o[p + n + 3].kind = "heading" /\ ~Matches(o[j])
  <2>1. PICK x \in 1 .. Len(suf) : j = p + Len(s) + x
    <3>1. j \in 1 .. p + (n + 2) + q
      BY <1>domain
    <3>2. j - p - (n + 2) \in 1 .. q /\ j = p + (n + 2) + (j - p - (n + 2))
      BY <1>numbers, <1>10, <3>1, SMTT(30)
    <3> QED  BY <1>numbers, <3>2 DEF q
  <2>2. ~Matches(o[j])
    BY <1>6, <2>1 DEF Around
  <2>3. suf # <<>>
    BY <1>1, <2>1, EmptySeq
  <2>4. 1 \in 1 .. Len(suf) /\ p + n + 3 = p + Len(s) + 1
    BY <1>numbers, <2>1 DEF q
  <2>5. o[p + n + 3] = suf[1]
    BY <1>6, <2>4
  <2> QED  BY <2>2, <2>3, <2>5 DEF Around
<1>11. ASSUME NEW h \in DOMAIN o, Matches(o[h])
       PROVE  h = p + 1
  <2>1. ~(h \in 1 .. p)
    <3>1. \A j \in 1 .. p : ~Matches(pre[j])
      BY DEF Around, p
    <3> QED  BY <3>1, <1>6, <1>11
  <2>2. ~(h \in p + 2 .. p + 1 + n)
    BY <1>8, <1>11
  <2>3. h # p + (n + 2)
    BY <1>9, <1>11, LineParts
  <2>4. ~(h >= p + n + 3)
    BY <1>10, <1>11
  <2>5. h \in 1 .. p + (n + 2) + q
    BY <1>domain
  <2> QED  BY <1>numbers, <2>1, <2>2, <2>3, <2>4, <2>5
<1>12. i \in 1 .. p + (n + 2) + q
  BY <1>3, <1>domain
<1>13. ASSUME IsRead(o, i)
       PROVE  i \in p + 2 .. p + 1 + n
  <2>1. PICK h \in 1 .. i - 1 :
          /\ o[h].kind = "heading" /\ o[h].section = "values"
          /\ \A j \in h + 1 .. i - 1 : o[j].kind # "heading"
    BY <1>13 DEF IsRead
  <2>2. h \in DOMAIN o
    <3>1. h \in 1 .. p + (n + 2) + q
      BY <1>numbers, <1>12
    <3> QED  BY <3>1, <1>domain
  <2>3. h = p + 1
    BY <1>11, <2>1, <2>2 DEF Matches
  <2>4. i >= p + 2
    BY <1>numbers, <1>12, <2>3
  <2>5. o[i].kind = "entry"
    BY <1>13 DEF IsRead
  <2>6. i # p + (n + 2)
    BY <1>9, <2>5, LineParts
  <2>7. ASSUME i >= p + n + 3
        PROVE  FALSE
    <3>1. o[p + n + 3].kind = "heading"
      BY <1>10, <1>12, <1>domain, <2>7
    <3>2. CASE i = p + n + 3
      BY <3>1, <3>2, <2>5
    <3>3. CASE i # p + n + 3
      <4>1. p + n + 3 \in h + 1 .. i - 1
        BY <1>numbers, <1>12, <2>3, <2>7, <3>3
      <4> QED  BY <2>1, <3>1, <4>1
    <3> QED  BY <3>2, <3>3
  <2> QED  BY <1>numbers, <1>12, <2>4, <2>6, <2>7
<1>14. ASSUME i \in p + 2 .. p + 1 + n
       PROVE  IsRead(o, i)
  <2>1. p + 1 \in 1 .. i - 1
    BY <1>numbers, <1>14
  <2>2. ASSUME NEW j \in (p + 1) + 1 .. i - 1
        PROVE  o[j].kind # "heading"
    <3>1. j \in p + 2 .. p + 1 + n
      BY <1>numbers, <1>14
    <3> QED  BY <1>8, <3>1
  <2>3. o[i].kind = "entry"
    BY <1>8, <1>14
  <2>4. o[p + 1].kind = "heading" /\ o[p + 1].section = "values"
    BY <1>7, LineParts
  <2> QED  BY <2>1, <2>2, <2>3, <2>4 DEF IsRead
<1> QED  BY <1>3, <1>13, <1>14 DEF n, p

(* What is read of such a file is what was saved. *)
LEMMA ReadsBack ==
    ASSUME NEW pre, NEW v, NEW suf, Around(pre, v, suf)
    PROVE  Read(pre \o Section(v) \o suf) = v
<1>1. PICK L : pre \in Seq(L) /\ suf \in Seq(L) /\ Section(v) \in Seq(L)
  BY DEF Around
<1> DEFINE o == pre \o Section(v) \o suf
           n == Cardinality(DOMAIN v)
           k == SetToSeq(DOMAIN v)
           p == Len(pre)
           places(x) == {i \in DOMAIN o : IsRead(o, i) /\ o[i].key = x}
           keys == {o[i].key : i \in {j \in DOMAIN o : IsRead(o, j)}}
<1>2. Read(o) = [x \in keys |-> o[Max(places(x))].text]
  BY DEF Read
<1>3. v \in [DOMAIN v -> Range(v)]
  BY DEF Around
<1>4. /\ n \in Nat /\ k \in [1 .. n -> DOMAIN v] /\ IsInjective(k)
      /\ \A x \in DOMAIN v : \E i \in 1 .. n : k[i] = x
  BY KeysOnce DEF Around
<1>5. /\ p \in Nat /\ Len(suf) \in Nat /\ Len(Section(v)) \in Nat
      /\ DOMAIN o = 1 .. p + Len(Section(v)) + Len(suf)
      /\ \A i \in 1 .. p : o[i] = pre[i]
      /\ \A i \in 1 .. Len(Section(v)) : o[p + i] = Section(v)[i]
      /\ \A i \in 1 .. Len(suf) : o[p + Len(Section(v)) + i] = suf[i]
  <2>1. Joined(o, pre, Section(v), suf)
    BY ONLY <1>1, Three
  <2> HIDE DEF o
  <2> QED  BY ONLY <2>1 DEF Joined, p
<1>numbers. n \in Nat /\ p \in Nat /\ Len(suf) \in Nat
  BY <1>4, <1>5
<1>6. CASE DOMAIN v = {}
  <2>1. Section(v) = <<>>
    BY <1>6, SectionText DEF Around
  <2>2. Len(Section(v)) = 0
    BY <2>1, EmptySeq
  <2>3. ASSUME NEW i \in DOMAIN o
        PROVE  ~Matches(o[i])
    <3>1. i \in 1 .. p \/ (i - p \in 1 .. Len(suf) /\ i = p + 0 + (i - p))
      BY <1>5, <2>2
    <3>2. CASE i \in 1 .. p
      BY <1>5, <3>2 DEF Around
    <3>3. CASE i - p \in 1 .. Len(suf) /\ i = p + 0 + (i - p)
      <4>1. PICK j \in 1 .. Len(suf) : i = p + Len(Section(v)) + j
        BY <2>2, <3>3
      <4>2. o[i] = suf[j]
        BY <1>5, <4>1
      <4> QED  BY <4>2 DEF Around
    <3> QED  BY <3>1, <3>2, <3>3
  <2>4. ASSUME NEW i \in DOMAIN o
        PROVE  ~IsRead(o, i)
    <3>1. ASSUME NEW h \in 1 .. i - 1
          PROVE  h \in DOMAIN o
      BY <1>5
    <3> QED  BY <2>3, <3>1 DEF IsRead, Matches
  <2>5. keys = {}
    BY <2>4
  <2> QED  BY <1>2, <1>3, <1>6, <2>5
<1>7. CASE DOMAIN v # {}
  <2>1. /\ Len(Section(v)) = n + 2
        /\ \A j \in 1 .. n : Section(v)[j + 1] = Entry(k[j], v[k[j]])
    BY <1>7, SectionText DEF Around
  <2>2. ASSUME NEW i \in DOMAIN o
        PROVE  IsRead(o, i) <=> i \in p + 2 .. p + 1 + n
    BY <1>7, EntriesRead
  <2>3. ASSUME NEW j \in 1 .. n
        PROVE  /\ p + 1 + j \in DOMAIN o /\ p + 1 + j \in p + 2 .. p + 1 + n
               /\ o[p + 1 + j].key = k[j] /\ o[p + 1 + j].text = v[k[j]]
    <3>1. p + 1 + j = p + (j + 1) /\ j + 1 \in 1 .. n + 2
      BY <1>numbers
    <3>2. o[p + 1 + j] = Entry(k[j], v[k[j]])
      BY <1>5, <2>1, <3>1
    <3>3. p + 1 + j \in 1 .. p + (n + 2) + Len(suf) /\ p + 1 + j \in p + 2 .. p + 1 + n
      BY <1>4, <1>5
    <3> QED  BY <1>5, <2>1, <3>2, <3>3, LineParts
  <2>4. ASSUME NEW i \in DOMAIN o, IsRead(o, i)
        PROVE  \E j \in 1 .. n : i = p + 1 + j
    <3>1. i \in p + 2 .. p + 1 + n
      BY <2>2, <2>4
    <3>2. i - p - 1 \in 1 .. n /\ i = p + 1 + (i - p - 1)
      BY <1>numbers, <3>1, SMTT(30)
    <3> QED  BY <3>2
  <2>5. keys = DOMAIN v
    <3>1. ASSUME NEW x \in DOMAIN v
          PROVE  x \in keys
      <4>1. PICK j \in 1 .. n : k[j] = x
        BY <1>4
      <4> QED  BY <2>2, <2>3, <4>1
    <3>2. ASSUME NEW x \in keys
          PROVE  x \in DOMAIN v
      <4>1. PICK i \in DOMAIN o : IsRead(o, i) /\ x = o[i].key
        OBVIOUS
      <4>2. PICK j \in 1 .. n : i = p + 1 + j
        BY <2>4, <4>1
      <4>3. x = k[j]
        BY <2>3, <4>1, <4>2
      <4> QED  BY <1>4, <4>3
    <3> QED  BY <3>1, <3>2
  <2>6. ASSUME NEW x \in DOMAIN v
        PROVE  o[Max(places(x))].text = v[x]
    <3>1. PICK j \in 1 .. n : k[j] = x
      BY <1>4
    <3>2. p + 1 + j \in places(x)
      BY <2>2, <2>3, <3>1
    <3>3. ASSUME NEW i \in places(x)
          PROVE  i = p + 1 + j
      <4>1. PICK l \in 1 .. n : i = p + 1 + l
        BY <2>4
      <4>2. k[l] = k[j]
        BY <2>3, <3>1, <4>1
      <4>3. l = j
        BY <1>4, <4>2 DEF IsInjective
      <4> QED  BY <4>1, <4>3
    <3>4. places(x) = {p + 1 + j}
      BY <3>2, <3>3
    <3>5. Max(places(x)) = p + 1 + j
      <4>1. p + 1 + j \in Int
        BY <1>5
      <4> QED  BY <3>4, <4>1 DEF Max
    <3> QED  BY <2>3, <3>1, <3>5
  <2>7. v = [x \in DOMAIN v |-> v[x]]
    BY <1>3
  <2> DEFINE f(x) == o[Max(places(x))].text
  <2>8. Read(o) = [x \in DOMAIN v |-> f(x)]
    BY <1>2, <2>5
  <2>9. \A x \in DOMAIN v : f(x) = v[x]
    BY <2>6
  <2> HIDE DEF f, o
  <2>10. Read(o) = [x \in DOMAIN v |-> v[x]]
    BY <2>8, <2>9
  <2> QED  BY <2>7, <2>10 DEF o
<1> QED  BY <1>6, <1>7
-------------------------------------------------------------------------------
(* Both numbers CHOOSE means are unique. *)
LEMMA FirstIs ==
    ASSUME NEW f, Len(f) \in Nat, NEW h \in 1 .. Len(f), Matches(f[h]),
           \A j \in 1 .. h - 1 : ~Matches(f[j])
    PROVE  First(f) = h
<1> DEFINE P(i) == /\ i <= Len(f) => Matches(f[i])
                   /\ \A j \in 1 .. i - 1 : ~Matches(f[j])
<1>1. h \in 1 .. Len(f) + 1 /\ P(h)
  OBVIOUS
<1>2. ASSUME NEW i \in 1 .. Len(f) + 1, P(i)
      PROVE  i = h
  <2>1. CASE i < h
    <3>1. i \in 1 .. h - 1 /\ i <= Len(f)
      BY <2>1
    <3> QED  BY <3>1, <1>2
  <2>2. CASE h < i
    <3>1. h \in 1 .. i - 1
      BY <2>2
    <3> QED  BY <3>1, <1>2
  <2> QED  BY <2>1, <2>2
<1>3. First(f) = CHOOSE i \in 1 .. Len(f) + 1 : P(i)
  BY DEF First
<1> HIDE DEF P
<1> QED  BY <1>1, <1>2, <1>3

LEMMA FollowingIs ==
    ASSUME NEW f, Len(f) \in Nat, First(f) \in Nat,
           NEW m \in First(f) + 1 .. Len(f) + 1, m <= Len(f) => Bracketed(f[m]),
           \A j \in First(f) + 1 .. m - 1 : ~Bracketed(f[j])
    PROVE  Following(f) = m
<1> DEFINE P(i) == /\ i <= Len(f) => Bracketed(f[i])
                   /\ \A j \in First(f) + 1 .. i - 1 : ~Bracketed(f[j])
<1>1. P(m)
  OBVIOUS
<1>2. ASSUME NEW i \in First(f) + 1 .. Len(f) + 1, P(i)
      PROVE  i = m
  <2>1. CASE i < m
    <3>1. i \in First(f) + 1 .. m - 1 /\ i <= Len(f)
      BY <2>1
    <3> QED  BY <3>1, <1>2
  <2>2. CASE m < i
    <3>1. m \in First(f) + 1 .. i - 1 /\ m <= Len(f)
      BY <2>2
    <3> QED  BY <3>1, <1>2
  <2> QED  BY <2>1, <2>2
<1>3. Following(f) = CHOOSE i \in First(f) + 1 .. Len(f) + 1 : P(i)
  BY DEF Following
<1> HIDE DEF P
<1> QED  BY <1>1, <1>2, <1>3

(* The file and the section are sequences of lines. *)
LEMMA Inputs ==
    ASSUME file \in Files, vals \in Saves
    PROVE  /\ file \in Seq(LinesOf(file, vals))
           /\ Section(vals) \in Seq(LinesOf(file, vals))
           /\ Len(file) \in Nat
           /\ DOMAIN file = 1 .. Len(file)
<1>1. file \in Seq(Range(file))
  BY FilesAssumption
<1>2. Section(vals) \in Seq(Range(Section(vals)))
  BY SavesAssumption, SectionText
<1>3. Range(file) \subseteq LinesOf(file, vals) /\ Range(Section(vals)) \subseteq LinesOf(file, vals)
  BY DEF LinesOf
<1> QED  BY <1>1, <1>2, <1>3, SeqMonotonic, LenProperties

(* A piece of a sequence is one of the same kind, and the next piece may be *)
(* put behind it.                                                          *)
LEMMA NextPiece ==
    ASSUME NEW S, NEW s \in Seq(S),
           NEW a \in 1 .. Len(s) + 1, NEW n \in a - 1 .. Len(s)
    PROVE  /\ SubSeq(s, a, n) \in Seq(S)
           /\ \A m \in a .. n + 1 : SubSeq(s, a, m - 1) \o SubSeq(s, m, n) = SubSeq(s, a, n)
<1>0. Len(s) \in Nat
  BY LenProperties
<1>1. \A i \in a .. n : s[i] \in S
  <2>1. \A i \in a .. n : i \in 1 .. Len(s)
    BY <1>0
  <2> QED  BY <2>1, ElementOfSeq
<1>2. SubSeq(s, a, n) \in Seq(S)
  BY <1>1, <1>0, SubSeqProperties
<1>3. ASSUME NEW m \in a .. n + 1
      PROVE  SubSeq(s, a, m - 1) \o SubSeq(s, m, n) = SubSeq(s, a, n)
  <2>1. m - 1 \in a - 1 .. Len(s) /\ n \in m - 1 .. Len(s) /\ (m - 1) + 1 = m
    BY <1>0
  <2>2. SubSeq(s, a, m - 1) \o SubSeq(s, (m - 1) + 1, n) = SubSeq(s, a, n)
    BY <2>1, ConcatAdjacentSubSeq
  <2> QED  BY <2>1, <2>2
<1> QED  BY <1>2, <1>3

(* So it is with the lines of the file. *)
LEMMA Pieces ==
    ASSUME file \in Files, vals \in Saves,
           NEW a \in 1 .. Len(file) + 1, NEW n \in a - 1 .. Len(file)
    PROVE  /\ SubSeq(file, a, n) \in Seq(LinesOf(file, vals))
           /\ \A m \in a .. n + 1 :
                 SubSeq(file, a, m - 1) \o SubSeq(file, m, n) = SubSeq(file, a, n)
<1>1. file \in Seq(LinesOf(file, vals))
  BY Inputs
<1> QED  BY <1>1, NextPiece

(* Copying the lines from m to n takes the reference from m - 1 to n. *)
LEMMA TargetGrows ==
    ASSUME file \in Files, vals \in Saves,
           First(file) \in 1 .. Len(file), Following(file) \in 1 .. Len(file) + 1,
           NEW m \in Following(file) .. Len(file) + 1, NEW n \in m - 1 .. Len(file)
    PROVE  /\ Target(m - 1) \in Seq(LinesOf(file, vals))
           /\ Target(m - 1) \o SubSeq(file, m, n) = Target(n)
<1> DEFINE L == LinesOf(file, vals)
           x == SubSeq(file, 1, First(file) - 1) \o Section(vals)
           a == Following(file)
<1>0. Len(file) \in Nat /\ Section(vals) \in Seq(L)
  BY Inputs
<1>1. SubSeq(file, 1, First(file) - 1) \in Seq(L)
  BY <1>0, Pieces
<1>2. x \in Seq(L)
  BY <1>0, <1>1, ConcatProperties
<1>3. SubSeq(file, a, m - 1) \in Seq(L) /\ SubSeq(file, m, n) \in Seq(L)
  BY <1>0, Pieces
<1>4. SubSeq(file, a, m - 1) \o SubSeq(file, m, n) = SubSeq(file, a, n)
  <2>1. a \in 1 .. Len(file) + 1 /\ n \in a - 1 .. Len(file) /\ m \in a .. n + 1
    BY <1>0
  <2> HIDE DEF a
  <2> QED  BY ONLY <2>1, file \in Files, vals \in Saves, Pieces
<1> DEFINE y == SubSeq(file, a, m - 1)
           z == SubSeq(file, m, n)
<1>5. (x \o y) \o z = x \o (y \o z) /\ x \o y \in Seq(L)
  <2>1. x \in Seq(L) /\ y \in Seq(L) /\ z \in Seq(L)
    BY <1>2, <1>3
  <2> HIDE DEF L, x, y, z
  <2>2. (x \o y) \o z = x \o (y \o z)
    BY ONLY <2>1, ConcatAssociative, SMTT(30)
  <2>3. x \o y \in Seq(L)
    BY ONLY <2>1, ConcatProperties
  <2> QED  BY <2>2, <2>3
<1> QED  BY <1>4, <1>5 DEF Target
-------------------------------------------------------------------------------
(* The numbers of the invariant *)
LEMMA Ranges ==
    ASSUME Inv
    PROVE  /\ file \in Files /\ vals \in Saves
           /\ Len(file) \in Nat
           /\ BufferSize \in Nat /\ BufferSize >= 2
           /\ rpos \in 1 .. Len(file) + 1
           /\ mark \in 1 .. Len(file) + 1
           /\ cachelen \in 0 .. BufferSize - 1
           /\ terminated \in BOOLEAN /\ wiped \in BOOLEAN
<1>1. file \in Files /\ vals \in Saves /\ TypeOK
  BY DEF Inv
<1>2. Len(file) \in Nat
  BY <1>1, Inputs
<1>3. BufferSize \in Nat /\ BufferSize >= 2
  BY BufferAssumption
<1> QED  BY <1>1, <1>2, <1>3 DEF TypeOK

(* Accumulating the next line moves the end of what is accumulated by one; *)
(* what stops being accumulated has been copied.                           *)
LEMMA Accumulates ==
    ASSUME Len(file) \in Nat, mark \in 1 .. Len(file) + 1, cachelen \in 0 .. BufferSize - 1,
           Accumulate, mark + cachelen <= Len(file)
    PROVE  \E c \in 0 .. BufferSize - 1, m \in mark .. Len(file) :
               /\ cachelen' = c /\ mark' = m
               /\ m + c = mark + cachelen + 1
               /\ \/ m = mark /\ out' = out
                  \/ m = mark + cachelen /\ out' = out \o Cached
<1>1. CASE cachelen + 1 < BufferSize
  <2>1. cachelen' = cachelen + 1 /\ mark' = mark /\ out' = out
    BY <1>1 DEF Accumulate
  <2>2. /\ cachelen + 1 \in 0 .. BufferSize - 1 /\ mark \in mark .. Len(file)
        /\ mark + (cachelen + 1) = mark + cachelen + 1
    BY <1>1, BufferAssumption
  <2> QED  BY ONLY <2>1, <2>2
<1>2. CASE ~(cachelen + 1 < BufferSize)
  <2>1. cachelen' = 1 /\ mark' = mark + cachelen /\ out' = out \o Cached
    BY <1>2 DEF Accumulate
  <2>2. 1 \in 0 .. BufferSize - 1 /\ mark + cachelen \in mark .. Len(file)
    BY <1>2, BufferAssumption
  <2> QED  BY <2>1, <2>2
<1> QED  BY <1>1, <1>2

(* What is copied up to line m - 1 of the file, and what follows as far as *)
(* line n, is the file up to line n.                                       *)
LEMMA PrefixGrows ==
    ASSUME file \in Files, vals \in Saves,
           NEW m \in 1 .. Len(file) + 1, NEW n \in m - 1 .. Len(file)
    PROVE  /\ SubSeq(file, 1, m - 1) \o SubSeq(file, m, n) = SubSeq(file, 1, n)
           /\ SubSeq(file, 1, n) \in Seq(LinesOf(file, vals))
<1>1. Len(file) \in Nat
  BY Inputs
<1>2. 1 \in 1 .. Len(file) + 1 /\ n \in 1 - 1 .. Len(file) /\ m \in 1 .. n + 1
  BY <1>1
<1> QED  BY ONLY <1>2, file \in Files, vals \in Saves, Pieces

(* In a plain file nothing before First or behind Following matches. *)
LEMMA TargetRead ==
    ASSUME Inv, Resuming, Plain
    PROVE  Read(Target(Len(file))) = vals
<1> DEFINE L == LinesOf(file, vals)
           f == First(file)
           g == Following(file)
<1>1. /\ f \in 1 .. Len(file) /\ Matches(file[f]) /\ g \in f + 1 .. mark
      /\ g <= Len(file) => Bracketed(file[g])
  BY DEF Resuming
<1>2. /\ file \in Seq(L) /\ Section(vals) \in Seq(L)
      /\ DOMAIN file = 1 .. Len(file)
  BY Inputs, Ranges
<1>3. \A i \in 1 .. Len(file) : Matches(file[i]) => i = f
  BY <1>1, <1>2 DEF Plain
<1>4. PICK pre : pre = SubSeq(file, 1, f - 1)
  OBVIOUS
<1>5. PICK suf : suf = SubSeq(file, g, Len(file))
  OBVIOUS
<1>6. f - 1 \in Int /\ g \in Int /\ Len(file) \in Int /\ 1 \in Int
  BY <1>1, Ranges
<1>7. /\ \A i \in 1 .. f - 1 : file[i] \in L
      /\ \A i \in g .. Len(file) : file[i] \in L
  <2>1. /\ \A i \in 1 .. f - 1 : i \in 1 .. Len(file)
        /\ \A i \in g .. Len(file) : i \in 1 .. Len(file)
    BY <1>1, Ranges, SMTT(30)
  <2> QED  BY <1>2, <2>1, ElementOfSeq
<1>8. /\ pre \in Seq(L)
      /\ Len(pre) = IF 1 <= f - 1 THEN (f - 1) - 1 + 1 ELSE 0
      /\ \A i \in 1 .. (f - 1) - 1 + 1 : pre[i] = file[1 + i - 1]
  BY <1>4, <1>6, <1>7, SubSeqProperties
<1>9. /\ suf \in Seq(L)
      /\ Len(suf) = IF g <= Len(file) THEN Len(file) - g + 1 ELSE 0
      /\ \A i \in 1 .. Len(file) - g + 1 : suf[i] = file[g + i - 1]
  BY <1>5, <1>6, <1>7, SubSeqProperties
<1> HIDE DEF L, f, g
<1>10. ASSUME NEW i \in 1 .. Len(pre)
       PROVE  ~Matches(pre[i])
  <2>1. i \in 1 .. (f - 1) - 1 + 1 /\ 1 + i - 1 = i /\ i \in 1 .. Len(file) /\ i # f
    BY <1>1, <1>8, Ranges, SMTT(30)
  <2> QED  BY <1>3, <1>8, <2>1
<1>11. ASSUME NEW i \in 1 .. Len(suf)
       PROVE  ~Matches(suf[i])
  <2>1. g \in Int /\ f \in Int /\ f >= 1 /\ g > f
    BY <1>1, Ranges
  <2>2. Len(suf) = 0 \/ Len(suf) = Len(file) - g + 1
    BY <1>9
  <2>3. i \in 1 .. Len(file) - g + 1
    BY <2>1, <2>2, Ranges
  <2>4. g + i - 1 \in 1 .. Len(file) /\ g + i - 1 # f
    BY <2>1, <2>3, Ranges
  <2> QED  BY <1>3, <1>9, <2>3, <2>4
<1>12. ASSUME suf # <<>>
       PROVE  suf[1].kind = "heading"
  <2>1. Len(suf) # 0 /\ Len(suf) \in Nat
    BY <1>9, <1>12, EmptySeq, LenProperties
  <2>2. g <= Len(file) /\ 1 \in 1 .. Len(file) - g + 1 /\ g + 1 - 1 = g /\ g \in 1 .. Len(file)
    BY <1>1, <1>9, <2>1, Ranges, SMTT(30)
  <2>3. suf[1] = file[g] /\ Bracketed(file[g])
    BY <1>1, <1>9, <2>2
  <2> QED  BY <1>2, <2>2, <2>3 DEF Bracketed, Plain
<1>13. Around(pre, vals, suf)
  BY <1>2, <1>8, <1>9, <1>10, <1>11, <1>12, Ranges, SavesAssumption DEF Around
<1>14. Read(pre \o Section(vals) \o suf) = vals
  BY ONLY <1>13, ReadsBack
<1> QED  BY <1>4, <1>5, <1>14 DEF Target, f, g

LEMMA InitInv == Init => Inv
<1> SUFFICES ASSUME Init PROVE Inv
  OBVIOUS
<1>1. file \in Files /\ vals \in Saves
  BY DEF Init
<1>2. Len(file) \in Nat /\ DOMAIN file = 1 .. Len(file)
  BY <1>1, Inputs
<1>3. TypeOK
  <2>1. 1 \in 1 .. Len(file) + 1
    BY <1>2
  <2>2. 0 \in 0 .. BufferSize - 1
    BY BufferAssumption
  <2>3. /\ terminated \in BOOLEAN /\ wiped \in BOOLEAN
        /\ pc = "search" /\ rpos = 1 /\ mark = 1 /\ cachelen = 0
    BY DEF Init
  <2> QED  BY <2>1, <2>2, <2>3 DEF TypeOK, Pcs
<1>4. out = <<>> /\ mark = 1 /\ cachelen = 0 /\ pc = "search"
  BY DEF Init
<1>5. out = SubSeq(file, 1, mark - 1)
  BY <1>4, SubSeqEmpty
<1>6. Searching
  BY <1>4, <1>5 DEF Searching
<1>7. out \in Seq(LinesOf(file, vals))
  BY <1>4, EmptySeq
<1> QED  BY <1>1, <1>3, <1>4, <1>6, <1>7 DEF Inv

LEMMA SearchLineInv ==
    ASSUME Inv, SearchLine
    PROVE  Inv'
<1>1. /\ file' = file /\ vals' = vals /\ terminated' = terminated
      /\ pc = "search" /\ rpos <= Len(file)
      /\ rpos' = rpos + 1 /\ wiped' = FALSE
  BY Ranges DEF SearchLine, inputs, AtEnd, ReadLine
<1>2. Searching /\ rpos = mark + cachelen /\ out \in Seq(LinesOf(file, vals))
  BY <1>1 DEF Inv, TypeOK
<1>3. CASE Matches(file[rpos])
  <2>1. pc' = "found" /\ mark' = mark /\ cachelen' = cachelen /\ out' = out
    BY <1>3 DEF SearchLine
  <2>2. rpos + 1 \in 1 .. Len(file) + 1
    BY <1>1, Ranges
  <2>3. TypeOK'
    BY <1>1, <2>1, <2>2, Ranges DEF TypeOK, Pcs
  <2>4. Searching'
    BY <1>1, <1>2, <1>3, <2>1 DEF Searching
  <2> QED  BY <1>1, <1>2, <2>1, <2>3, <2>4, Ranges DEF Inv
<1>4. CASE ~Matches(file[rpos])
  <2>1. pc' = "search" /\ Accumulate
    BY <1>1, <1>4 DEF SearchLine
  <2>2. PICK c \in 0 .. BufferSize - 1, m \in mark .. Len(file) :
           /\ cachelen' = c /\ mark' = m
           /\ m + c = mark + cachelen + 1
           /\ \/ m = mark /\ out' = out
              \/ m = mark + cachelen /\ out' = out \o Cached
    BY <1>1, <1>2, <2>1, Ranges, Accumulates
  <2>3. TypeOK'
    <3>1. rpos + 1 \in 1 .. Len(file) + 1 /\ m \in 1 .. Len(file) + 1 /\ rpos + 1 = m + c
      BY <1>1, <1>2, <2>2, Ranges, SMTT(30)
    <3> QED  BY <1>1, <2>1, <2>2, <3>1, Ranges DEF TypeOK, Pcs
  <2>4. out' = SubSeq(file, 1, m - 1) /\ out' \in Seq(LinesOf(file, vals))
    <3>1. out = SubSeq(file, 1, mark - 1)
      BY <1>2 DEF Searching
    <3>2. m - 1 \in mark - 1 .. Len(file) /\ mark \in 1 .. Len(file) + 1
      BY Ranges
    <3>3. /\ SubSeq(file, 1, mark - 1) \o SubSeq(file, mark, m - 1) = SubSeq(file, 1, m - 1)
          /\ SubSeq(file, 1, m - 1) \in Seq(LinesOf(file, vals))
      BY <3>2, Ranges, PrefixGrows
    <3>4. ASSUME m = mark + cachelen
          PROVE  Cached = SubSeq(file, mark, m - 1)
      <4>1. m - 1 = mark + cachelen - 1
        BY <3>4, Ranges
      <4> QED  BY ONLY <4>1 DEF Cached
    <3> QED  BY <1>2, <2>2, <3>1, <3>3, <3>4
  <2>5. \A j \in 1 .. m + c - 1 : ~Matches(file[j])
    <3>1. \A j \in 1 .. mark + cachelen - 1 : ~Matches(file[j])
      BY <1>2 DEF Searching
    <3>2. ASSUME NEW j \in 1 .. mark + cachelen
          PROVE  ~Matches(file[j])
      <4>1. mark \in Int /\ cachelen \in Int /\ rpos = mark + cachelen
        BY <1>2, Ranges
      <4>2. j \in 1 .. mark + cachelen - 1 \/ j = rpos
        BY ONLY <4>1, j \in 1 .. mark + cachelen
      <4> QED  BY <4>2, <3>1, <1>4
    <3>3. mark \in Int /\ cachelen \in Int /\ m \in Int /\ c \in Int
      BY Ranges
    <3>4. m + c = mark + cachelen + 1
      BY <2>2
    <3>5. m + c - 1 = mark + cachelen
      BY ONLY <3>3, <3>4
    <3> QED  BY <3>2, <3>5
  <2>6. Searching'
    BY <1>1, <2>1, <2>2, <2>4, <2>5 DEF Searching
  <2> QED  BY <1>1, <2>1, <2>3, <2>4, <2>6, Ranges DEF Inv
<1> QED  BY <1>3, <1>4

(* Without the section the reference is the file and the new section. *)
LEMMA SearchEndInv ==
    ASSUME Inv, SearchEnd
    PROVE  Inv'
<1> DEFINE L == LinesOf(file, vals)
<1>1. /\ file' = file /\ vals' = vals /\ terminated' = terminated
      /\ pc = "search" /\ rpos > Len(file) /\ pc' = "done"
      /\ rpos' = rpos /\ mark' = mark /\ cachelen' = cachelen /\ wiped' = wiped
      /\ out' = Ended(out \o Cached) \o Section(vals)
  BY DEF SearchEnd, inputs, AtEnd
<1>2. Searching /\ rpos = mark + cachelen
  BY <1>1 DEF Inv, TypeOK
<1>3. TypeOK'
  BY <1>1, Ranges DEF TypeOK, Pcs
<1>4. /\ file \in Seq(L) /\ Section(vals) \in Seq(L) /\ Blank \in L
      /\ DOMAIN file = 1 .. Len(file)
  BY Ranges, Inputs DEF LinesOf
<1>5. out \o Cached = file
  <2>1. mark + cachelen - 1 = Len(file)
    BY <1>1, <1>2, Ranges
  <2>2. Cached = SubSeq(file, mark, Len(file))
    BY <2>1 DEF Cached
  <2>3. Len(file) \in mark - 1 .. Len(file)
    BY Ranges
  <2>4. SubSeq(file, 1, mark - 1) \o SubSeq(file, mark, Len(file)) = SubSeq(file, 1, Len(file))
    BY <2>3, Ranges, PrefixGrows
  <2>5. SubSeq(file, 1, Len(file)) = file
    BY <1>4, SubSeqFull
  <2> QED  BY <1>2, <2>2, <2>4, <2>5 DEF Searching
<1>6. \A i \in DOMAIN file : ~Matches(file[i])
  <2>1. mark + cachelen - 1 = Len(file)
    BY <1>1, <1>2, Ranges
  <2> QED  BY <1>2, <1>4, <2>1 DEF Searching
<1>7. Ended(file) \in {file, Append(file, Blank)}
  BY DEF Ended
<1>8. Append(file, Blank) \in Seq(L)
  BY <1>4, AppendProperties
<1>9. out' \in Seq(L)
  <2>1. Ended(file) \in Seq(L)
    BY <1>4, <1>7, <1>8
  <2>2. out' = Ended(file) \o Section(vals)
    BY <1>1, <1>5
  <2> HIDE DEF L
  <2> QED  BY <1>4, <2>1, <2>2, ConcatProperties
<1>10. Rewritten'
  <2>1. Replaced(file, vals) = file \o Section(vals)
    BY <1>6 DEF Replaced
  <2>2. \/ out' = file \o Section(vals)
        \/ out' = Append(file, Blank) \o Section(vals)
    BY <1>1, <1>5, <1>7
  <2> QED  BY <1>1, <1>6, <2>1, <2>2 DEF Rewritten
<1>11. Read(out') = vals
  <2>1. PICK pre : pre = Ended(file)
    OBVIOUS
  <2>2. pre \in Seq(L) /\ <<>> \in Seq(L)
    BY <1>4, <1>7, <1>8, <2>1, EmptySeq
  <2>3. ASSUME NEW i \in 1 .. Len(pre)
        PROVE  ~Matches(pre[i])
    <3>1. CASE pre = file
      BY <1>4, <1>6, <3>1
    <3>2. CASE pre = Append(file, Blank)
      <4>1. /\ Len(Append(file, Blank)) = Len(file) + 1
            /\ \A j \in 1 .. Len(file) : Append(file, Blank)[j] = file[j]
            /\ Append(file, Blank)[Len(file) + 1] = Blank
        BY <1>4, AppendProperties
      <4>2. i \in 1 .. Len(file) \/ i = Len(file) + 1
        BY <3>2, <4>1, Ranges
      <4> QED  BY <1>4, <1>6, <3>2, <4>1, <4>2, LineParts
    <3> QED  BY <1>7, <2>1, <3>1, <3>2
  <2>4. Len(<<>>) = 0
    BY EmptySeq
  <2>5. Around(pre, vals, <<>>)
    BY <1>4, <2>2, <2>3, <2>4, Ranges, SavesAssumption DEF Around
  <2>6. Read(pre \o Section(vals) \o <<>>) = vals
    BY ONLY <2>5, ReadsBack
  <2>7. out' = pre \o Section(vals)
    BY <1>1, <1>5, <2>1
  <2>8. out' \o <<>> = out'
    BY <1>9, ConcatEmptySeq
  <2> QED  BY <2>6, <2>7, <2>8
<1>12. RewritesSection'
  BY <1>1, <1>10, <1>11 DEF RewritesSection
<1> QED  BY <1>1, <1>3, <1>9, <1>12, Ranges DEF Inv

(* The heading is the first line that matches. *)
LEMMA FoundInv ==
    ASSUME Inv, Found
    PROVE  Inv'
<1>1. /\ file' = file /\ vals' = vals /\ terminated' = terminated
      /\ pc = "found" /\ pc' = "section" /\ cachelen' = 0 /\ wiped' = FALSE
      /\ rpos' = mark + cachelen + 1 /\ mark' = mark + cachelen + 1
      /\ out' = out \o Cached
  BY DEF Found, inputs, ReadLine
<1>2. Searching
  BY <1>1 DEF Inv
<1> DEFINE h == mark + cachelen
<1>3. /\ h \in 1 .. Len(file) /\ Matches(file[h])
      /\ \A j \in 1 .. h - 1 : ~Matches(file[j])
  <2>1. h - 1 = mark + cachelen - 1
    BY Ranges
  <2>2. /\ h <= Len(file) /\ Matches(file[h])
        /\ \A j \in 1 .. mark + cachelen - 1 : ~Matches(file[j])
    BY <1>1, <1>2 DEF Searching
  <2>3. h \in 1 .. Len(file)
    BY <2>2, Ranges
  <2> QED  BY <2>1, <2>2, <2>3
<1>4. Cached = SubSeq(file, mark, h - 1)
  <2>1. h - 1 = mark + cachelen - 1
    BY Ranges
  <2> HIDE DEF h
  <2> QED  BY ONLY <2>1 DEF Cached
<1>5. h - 1 \in mark - 1 .. Len(file)
  BY <1>3, Ranges
<1>6. h + 1 \in 1 .. Len(file) + 1 /\ h + 1 > h
  BY <1>3, Ranges
<1>7. rpos' = h + 1 /\ mark' = h + 1
  BY <1>1
<1> HIDE DEF h
<1>8. First(file) = h
  BY <1>3, Ranges, FirstIs
<1>9. out' = SubSeq(file, 1, h - 1) /\ out' \in Seq(LinesOf(file, vals))
  <2>1. /\ SubSeq(file, 1, mark - 1) \o SubSeq(file, mark, h - 1) = SubSeq(file, 1, h - 1)
        /\ SubSeq(file, 1, h - 1) \in Seq(LinesOf(file, vals))
    BY <1>5, Ranges, PrefixGrows
  <2> QED  BY <1>1, <1>2, <1>4, <2>1 DEF Searching
<1>10. TypeOK'
  <2>1. 0 \in 0 .. BufferSize - 1
    BY Ranges
  <2> QED  BY <1>1, <1>6, <1>7, <2>1, Ranges DEF TypeOK, Pcs
<1>11. \A j \in h + 1 .. (h + 1) - 1 : ~Bracketed(file[j])
  BY <1>3
<1>12. Skipping'
  BY <1>1, <1>3, <1>6, <1>7, <1>8, <1>9, <1>11 DEF Skipping
<1> QED  BY <1>1, <1>9, <1>10, <1>12, Ranges DEF Inv

LEMMA SectionLineInv ==
    ASSUME Inv, SectionLine
    PROVE  Inv'
<1>1. /\ file' = file /\ vals' = vals /\ terminated' = terminated
      /\ pc = "section" /\ cachelen' = cachelen /\ out' = out
      /\ rpos' = rpos + 1 /\ wiped' = FALSE /\ buffer' = file[rpos]
  BY DEF SectionLine, inputs, ReadLine
<1>2. rpos <= Len(file)
  BY Ranges DEF SectionLine, AtEnd
<1>3. Skipping /\ out \in Seq(LinesOf(file, vals))
  BY <1>1 DEF Inv
<1>4. /\ mark = rpos /\ mark > First(file) /\ First(file) \in 1 .. Len(file)
      /\ \A j \in First(file) + 1 .. mark - 1 : ~Bracketed(file[j])
  BY <1>1, <1>3 DEF Skipping
<1>5. rpos + 1 \in 1 .. Len(file) + 1 /\ rpos + 1 > First(file)
  BY <1>2, <1>4, Ranges
<1>6. CASE Bracketed(file[rpos])
  <2>1. pc' = "replace" /\ mark' = mark
    BY <1>6 DEF SectionLine
  <2>2. mark \in First(file) + 1 .. Len(file) + 1
    BY <1>4, Ranges
  <2>3. Following(file) = mark
    BY <1>4, <1>6, <2>2, Ranges, FollowingIs
  <2>4. Flag'
    BY <1>1, <1>6 DEF Flag
  <2>5. Skipping'
    BY <1>1, <1>3, <1>4, <1>6, <2>1, <2>3, <2>4 DEF Skipping
  <2>6. TypeOK'
    BY <1>1, <1>5, <2>1, Ranges DEF TypeOK, Pcs
  <2> QED  BY <1>1, <1>3, <2>1, <2>5, <2>6, Ranges DEF Inv
<1>7. CASE ~Bracketed(file[rpos])
  <2>1. pc' = "section" /\ mark' = rpos + 1
    BY <1>1, <1>7 DEF SectionLine
  <2>2. ASSUME NEW j \in First(file) + 1 .. (rpos + 1) - 1
        PROVE  ~Bracketed(file[j])
    <3>1. j \in First(file) + 1 .. mark - 1 \/ j = rpos
      BY <1>4, Ranges
    <3> QED  BY <3>1, <1>4, <1>7
  <2>3. Skipping'
    BY <1>1, <1>3, <1>5, <2>1, <2>2 DEF Skipping
  <2>4. TypeOK'
    BY <1>1, <1>5, <2>1, Ranges DEF TypeOK, Pcs
  <2> QED  BY <1>1, <1>3, <2>1, <2>3, <2>4, Ranges DEF Inv
<1> QED  BY <1>6, <1>7

LEMMA SectionEndInv ==
    ASSUME Inv, SectionEnd
    PROVE  Inv'
<1>1. /\ file' = file /\ vals' = vals /\ terminated' = terminated
      /\ pc = "section" /\ pc' = "replace" /\ cachelen' = cachelen /\ out' = out
      /\ rpos' = mark /\ mark' = mark /\ wiped' = TRUE /\ rpos > Len(file)
  BY DEF SectionEnd, inputs, AtEnd
<1>2. Skipping /\ out \in Seq(LinesOf(file, vals))
  BY <1>1 DEF Inv
<1>3. /\ mark = rpos /\ mark > First(file) /\ First(file) \in 1 .. Len(file)
      /\ \A j \in First(file) + 1 .. mark - 1 : ~Bracketed(file[j])
  BY <1>1, <1>2 DEF Skipping
<1>4. mark = Len(file) + 1 /\ mark \in First(file) + 1 .. Len(file) + 1 /\ ~(mark <= Len(file))
  BY <1>1, <1>3, Ranges
<1>5. Following(file) = mark
  BY <1>3, <1>4, Ranges, FollowingIs
<1>6. Skipping'
  BY <1>1, <1>2, <1>4, <1>5 DEF Skipping
<1>7. TypeOK'
  BY <1>1, Ranges DEF TypeOK, Pcs
<1> QED  BY <1>1, <1>2, <1>6, <1>7, Ranges DEF Inv

(* The new section is behind what was before the old one; what was behind  *)
(* the old one follows, beginning with its heading if there is any.        *)
LEMMA ReplaceInv ==
    ASSUME Inv, Replace
    PROVE  Inv'
<1> DEFINE L == LinesOf(file, vals)
<1>1. /\ file' = file /\ vals' = vals /\ terminated' = terminated
      /\ pc = "replace" /\ pc' = "rest" /\ out' = out \o Section(vals)
  BY DEF Replace, inputs
<1>2. Skipping /\ out \in Seq(L)
  BY <1>1 DEF Inv
<1>3. /\ First(file) \in 1 .. Len(file) /\ Matches(file[First(file)])
      /\ mark > First(file) /\ mark = Following(file)
      /\ mark <= Len(file) => Flag /\ Bracketed(file[mark])
      /\ out = SubSeq(file, 1, First(file) - 1)
  BY <1>1, <1>2 DEF Skipping
<1>4. mark \in First(file) + 1 .. Len(file) + 1
  BY <1>3, Ranges
<1>5. out' \in Seq(L)
  <2>1. out \in Seq(L) /\ Section(vals) \in Seq(L)
    BY <1>2, Inputs, Ranges
  <2> HIDE DEF L
  <2>2. out \o Section(vals) \in Seq(L)
    BY ONLY <2>1, ConcatProperties
  <2> QED  BY <1>1, <2>2
<1>6. out' = Target(mark - 1)
  <2>1. SubSeq(file, mark, mark - 1) = <<>>
    BY <1>4, Ranges, SubSeqEmpty
  <2>2. out' \o <<>> = out'
    BY <1>5, ConcatEmptySeq
  <2>3. Target(mark - 1) = out' \o <<>>
    BY <1>1, <1>3, <2>1 DEF Target
  <2> QED  BY <2>2, <2>3
<1>7. Target(mark - 1)' = Target(mark' - 1)
  BY <1>1 DEF Target
<1>8. Following(file) \in First(file) + 1 .. mark
  BY <1>3, <1>4, Ranges
<1>9. CASE mark <= Len(file)
  <2>1. cachelen' = 1 /\ mark' = mark /\ rpos' = mark + 1 /\ wiped' = FALSE
    BY <1>3, <1>9 DEF Replace, ReadLine
  <2>2. Resuming'
    BY <1>1, <1>3, <1>6, <1>7, <1>8, <2>1 DEF Resuming
  <2>3. mark + 1 \in 1 .. Len(file) + 1 /\ 1 \in 0 .. BufferSize - 1
    BY <1>9, Ranges
  <2>4. TypeOK'
    BY <1>1, <2>1, <2>3, Ranges DEF TypeOK, Pcs
  <2> QED  BY <1>1, <1>5, <2>2, <2>4, Ranges DEF Inv
<1>10. CASE ~(mark <= Len(file))
  <2>1. cachelen' \in {0, 1} /\ mark' = mark /\ rpos' = mark /\ wiped' \in BOOLEAN
    BY <1>10 DEF Replace
  <2>2. mark > Len(file)
    BY <1>10, Ranges
  <2>3. Resuming'
    BY <1>1, <1>3, <1>6, <1>7, <1>8, <2>1, <2>2 DEF Resuming, AtEnd
  <2>4. 0 \in 0 .. BufferSize - 1 /\ 1 \in 0 .. BufferSize - 1
    BY Ranges
  <2>5. TypeOK'
    BY <1>1, <2>1, <2>4, Ranges DEF TypeOK, Pcs
  <2> QED  BY <1>1, <1>5, <2>3, <2>5, Ranges DEF Inv
<1> QED  BY <1>9, <1>10

(* Copying the rest goes on where the old section ended. *)
LEMMA RestLineInv ==
    ASSUME Inv, RestLine
    PROVE  Inv'
<1>1. /\ file' = file /\ vals' = vals /\ terminated' = terminated
      /\ pc = "rest" /\ pc' = "rest" /\ rpos' = rpos + 1 /\ wiped' = FALSE
      /\ Accumulate
  BY DEF RestLine, inputs, ReadLine
<1>2. rpos <= Len(file)
  BY Ranges DEF RestLine, AtEnd
<1>3. Resuming /\ out \in Seq(LinesOf(file, vals))
  BY <1>1 DEF Inv
<1>4. rpos = mark + cachelen
  BY <1>2, <1>3, Ranges DEF Resuming, AtEnd
<1>5. PICK c \in 0 .. BufferSize - 1, m \in mark .. Len(file) :
           /\ cachelen' = c /\ mark' = m
           /\ m + c = mark + cachelen + 1
           /\ \/ m = mark /\ out' = out
              \/ m = mark + cachelen /\ out' = out \o Cached
  BY <1>1, <1>2, <1>4, Ranges, Accumulates
<1>6. /\ First(file) \in 1 .. Len(file) /\ Matches(file[First(file)])
      /\ Following(file) \in First(file) + 1 .. mark
      /\ Following(file) <= Len(file) => Bracketed(file[Following(file)])
      /\ out = Target(mark - 1)
  BY <1>3 DEF Resuming
<1>7. out' = Target(m - 1) /\ out' \in Seq(LinesOf(file, vals))
  <2>1. /\ Following(file) \in 1 .. Len(file) + 1
        /\ mark \in Following(file) .. Len(file) + 1
        /\ m \in Following(file) .. Len(file) + 1
        /\ m - 1 \in mark - 1 .. Len(file) /\ Len(file) \in m - 1 .. Len(file)
    BY <1>6, Ranges, SMTT(30)
  <2>2. Target(mark - 1) \o SubSeq(file, mark, m - 1) = Target(m - 1)
    BY <1>6, <2>1, Ranges, TargetGrows
  <2>3. Target(m - 1) \in Seq(LinesOf(file, vals))
    BY <1>6, <2>1, Ranges, TargetGrows
  <2>4. ASSUME m = mark + cachelen
        PROVE  Cached = SubSeq(file, mark, m - 1)
    <3>1. m - 1 = mark + cachelen - 1
      BY <2>4, Ranges
    <3> QED  BY ONLY <3>1 DEF Cached
  <2> QED  BY <1>5, <1>6, <2>2, <2>3, <2>4
<1>8. TypeOK'
  <2>1. rpos + 1 \in 1 .. Len(file) + 1 /\ m \in 1 .. Len(file) + 1
    BY <1>2, Ranges
  <2> QED  BY <1>1, <1>5, <2>1, Ranges DEF TypeOK, Pcs
<1>9. Resuming'
  <2>1. Following(file) \in First(file) + 1 .. m
    BY <1>6, Ranges
  <2>2. rpos + 1 = m + c
    BY <1>4, <1>5, Ranges
  <2>3. Target(m - 1)' = Target(m - 1)
    BY <1>1 DEF Target
  <2> QED  BY <1>1, <1>5, <1>6, <1>7, <2>1, <2>2, <2>3 DEF Resuming, Target
<1> QED  BY <1>1, <1>7, <1>8, <1>9, Ranges DEF Inv

(* At the end of the file the last flush completes the reference. *)
LEMMA RestEndInv ==
    ASSUME Inv, RestEnd
    PROVE  Inv'
<1>1. /\ file' = file /\ vals' = vals /\ terminated' = terminated
      /\ pc = "rest" /\ rpos' = rpos /\ mark' = mark /\ cachelen' = cachelen /\ wiped' = wiped
  BY DEF RestEnd, inputs
<1>2. Resuming /\ out \in Seq(LinesOf(file, vals))
  BY <1>1 DEF Inv
<1>3. TypeOK'
  BY <1>1, Ranges DEF TypeOK, Pcs, RestEnd
<1>4. CASE mark + cachelen <= Len(file) + 1
  <2>1. pc' = "done" /\ out' = out \o Cached
    BY <1>4 DEF RestEnd
  <2>2. /\ First(file) \in 1 .. Len(file) /\ Matches(file[First(file)])
        /\ Following(file) \in First(file) + 1 .. mark
        /\ out = Target(mark - 1)
        /\ rpos = mark + cachelen \/ rpos = mark
    BY <1>2 DEF Resuming
  <2>3. rpos > Len(file)
    BY DEF RestEnd, AtEnd
  <2>4. mark + cachelen - 1 = Len(file)
    BY <1>4, <2>2, <2>3, Ranges, SMTT(30)
  <2>5. Cached = SubSeq(file, mark, Len(file))
    BY ONLY <2>4 DEF Cached
  <2>6. /\ Following(file) \in 1 .. Len(file) + 1
        /\ mark \in Following(file) .. Len(file) + 1
        /\ Len(file) + 1 \in Following(file) .. Len(file) + 1
        /\ Len(file) \in mark - 1 .. Len(file)
    BY <2>2, Ranges
  <2>7. out' = Target(Len(file))
    BY <2>1, <2>2, <2>5, <2>6, Ranges, TargetGrows
  <2>8. Target(Len(file)) \in Seq(LinesOf(file, vals))
    <3>1. PICK e \in Following(file) .. Len(file) + 1 : e = Len(file) + 1
      BY <2>6
    <3>2. e - 1 = Len(file) /\ Len(file) \in e - 1 .. Len(file)
      BY <3>1, Ranges
    <3>3. Target(e - 1) \in Seq(LinesOf(file, vals))
      BY <2>2, <2>6, <3>2, Ranges, TargetGrows
    <3> QED  BY <3>2, <3>3
  <2>9. Target(Len(file)) = Replaced(file, vals)
    <3>1. First(file) \in DOMAIN file
      BY <2>2, Ranges, Inputs
    <3> QED  BY <2>2, <3>1 DEF Target, Replaced
  <2>10. Rewritten'
    BY <1>1, <2>7, <2>9 DEF Rewritten
  <2>11. ASSUME Plain
         PROVE  Read(Target(Len(file))) = vals
    BY <1>1, <1>2, <2>11, Ranges, TargetRead DEF Resuming
  <2>12. RewritesSection'
    BY <1>1, <2>7, <2>10, <2>11 DEF RewritesSection, Plain
  <2> QED  BY <1>1, <1>3, <2>1, <2>7, <2>8, <2>12, Ranges DEF Inv
<1>5. CASE ~(mark + cachelen <= Len(file) + 1)
  <2>1. pc' = "reading" /\ out' = out
    BY <1>5 DEF RestEnd
  <2> QED  BY <1>1, <1>2, <1>3, <2>1, Ranges DEF Inv
<1> QED  BY <1>4, <1>5
-------------------------------------------------------------------------------
LEMMA NextInv == Inv /\ [Next]_vars => Inv'
<1> SUFFICES ASSUME Inv, [Next]_vars PROVE Inv'
  OBVIOUS
<1>1. CASE UNCHANGED vars
  <2>1. /\ file' = file /\ terminated' = terminated /\ vals' = vals /\ pc' = pc
        /\ rpos' = rpos /\ mark' = mark /\ cachelen' = cachelen
        /\ buffer' = buffer /\ wiped' = wiped /\ out' = out
    BY <1>1 DEF vars
  <2>2. RewritesSection' <=> RewritesSection
    BY <2>1 DEF RewritesSection, Rewritten, Plain
  <2>3. TypeOK' <=> TypeOK
    BY <2>1 DEF TypeOK
  <2>4. (Searching' <=> Searching) /\ (Skipping' <=> Skipping)
    BY <2>1 DEF Searching, Skipping, Flag
  <2>5. Resuming' <=> Resuming
    BY <2>1 DEF Resuming, Target, AtEnd
  <2> QED  BY <2>1, <2>2, <2>3, <2>4, <2>5 DEF Inv
<1> QED
  BY <1>1, SearchLineInv, SearchEndInv, FoundInv, SectionLineInv, SectionEndInv,
     ReplaceInv, RestLineInv, RestEndInv DEF Next

(* TypeOK for every file, every save and every size of the buffer: among   *)
(* them that what is accumulated fits into it.                             *)
THEOREM TypeCorrect == Spec => []TypeOK
<1>1. Inv => TypeOK
  BY DEF Inv
<1> QED  BY <1>1, InitInv, NextInv, PTL DEF Spec

(* Whatever was flushed, and whenever, a rewrite that ends leaves every    *)
(* line of the file in its place but for the section; and the next Load    *)
(* reads of it what was saved.                                             *)
THEOREM RewriteRight == Spec => []RewritesSection
<1>1. Inv => RewritesSection
  BY DEF Inv, RewritesSection
<1> QED  BY <1>1, InitInv, NextInv, PTL DEF Spec
-------------------------------------------------------------------------------
(* Every step enters the loop that comes next or reads on in the one it is  *)
(* in, although the flushes go back in the file.  With rpos never more     *)
(* than Len(file) + 1 (TypeOK) this bounds the steps of a rewrite.         *)
Advances ==
    \/ pc' = pc /\ pc \in {"search", "section", "rest"} /\ rpos' > rpos
    \/ pc = "search" /\ pc' \in {"found", "done"}
    \/ pc = "found" /\ pc' = "section"
    \/ pc = "section" /\ pc' = "replace"
    \/ pc = "replace" /\ pc' = "rest"
    \/ pc = "rest" /\ pc' \in {"done", "reading"}

(* The loops of ini_putsection make progress: none reads a line a second   *)
(* time for another step of its own, and none is entered again.            *)
THEOREM CopyProgress == Spec => [][Advances]_vars
<1>1. ASSUME Inv, [Next]_vars
      PROVE  [Advances]_vars
  <2>1. rpos + 1 > rpos
    BY <1>1, Ranges
  <2>2. CASE SearchLine \/ SearchEnd \/ Found
    BY <2>1, <2>2 DEF SearchLine, SearchEnd, Found, ReadLine, Advances
  <2>3. CASE SectionLine \/ SectionEnd \/ Replace
    BY <2>1, <2>3 DEF SectionLine, SectionEnd, Replace, ReadLine, Advances
  <2>4. CASE RestLine \/ RestEnd
    BY <2>1, <2>4 DEF RestLine, RestEnd, ReadLine, Advances
  <2> QED  BY <1>1, <2>2, <2>3, <2>4 DEF Next
<1> QED  BY <1>1, InitInv, NextInv, PTL DEF Spec
-------------------------------------------------------------------------------
(* What LocalBuffer holds where it matters: the line read last, even after *)
(* the flush at the end of the file wiped its first character; and what    *)
(* follows if a line that is not there is counted as accumulated.          *)
Looked ==
    /\ pc = "section" => ~wiped /\ buffer = file[rpos - 1]
    /\ pc = "replace" /\ mark > Len(file) =>
           /\ wiped /\ buffer = file[Len(file)]
           /\ \A j \in First(file) + 1 .. Len(file) : ~Bracketed(file[j])
    /\ pc = "rest" /\ mark + cachelen > Len(file) + 1 => EndsInHeading
    /\ pc = "reading" => EndsInHeading

(* At the end of the file the flag is set only for the heading itself. *)
LEMMA FlagAtEnd ==
    ASSUME Inv, Looked, pc = "replace", mark > Len(file), Flag
    PROVE  EndsInHeading
<1>1. /\ First(file) \in 1 .. Len(file) /\ Matches(file[First(file)])
      /\ wiped /\ buffer = file[Len(file)]
      /\ \A j \in First(file) + 1 .. Len(file) : ~Bracketed(file[j])
  BY DEF Inv, Looked, Skipping
<1>2. Bracketed(file[Len(file)]) /\ file[Len(file)].indented
  BY <1>1 DEF Flag
<1>3. First(file) = Len(file)
  <2>1. First(file) # Len(file) => Len(file) \in First(file) + 1 .. Len(file)
    BY <1>1, Ranges
  <2> QED  BY <1>1, <1>2, <2>1
<1>4. file # <<>> /\ Last(file) = file[Len(file)]
  <2>1. Len(file) # 0
    BY <1>1, Ranges
  <2>2. file \in Seq(LinesOf(file, vals))
    BY Inputs, Ranges
  <2> QED  BY <2>1, <2>2, EmptySeq DEF Last
<1> QED  BY <1>1, <1>2, <1>3, <1>4 DEF EndsInHeading

LEMMA LookedNext == Inv /\ Looked /\ [Next]_vars => Looked'
<1> SUFFICES ASSUME Inv, Looked, [Next]_vars PROVE Looked'
  OBVIOUS
<1>1. CASE SearchLine \/ SearchEnd
  BY <1>1 DEF SearchLine, SearchEnd, Looked
<1>2. CASE Found
  <2>1. /\ pc' = "section" /\ file' = file /\ wiped' = FALSE
        /\ buffer' = file[mark + cachelen] /\ rpos' = mark + cachelen + 1
    BY <1>2 DEF Found, ReadLine, inputs
  <2>2. rpos' - 1 = mark + cachelen
    BY <2>1, Ranges
  <2> QED  BY <2>1, <2>2 DEF Looked
<1>3. CASE SectionLine
  <2>1. /\ pc' \in {"section", "replace"} /\ file' = file /\ wiped' = FALSE
        /\ buffer' = file[rpos] /\ rpos' = rpos + 1
        /\ pc' = "replace" => mark' = mark
    BY <1>3 DEF SectionLine, ReadLine, inputs
  <2>2. rpos' - 1 = rpos
    BY <2>1, Ranges
  <2>3. pc = "section" /\ ~(rpos > Len(file))
    BY <1>3 DEF SectionLine, AtEnd
  <2>4. mark = rpos
    BY <2>3 DEF Inv, Skipping
  <2>5. pc' = "replace" => ~(mark' > Len(file'))
    BY <2>1, <2>3, <2>4
  <2> QED  BY <2>1, <2>2, <2>5 DEF Looked
<1>4. CASE SectionEnd
  <2>1. /\ pc = "section" /\ pc' = "replace" /\ file' = file /\ wiped' = TRUE
        /\ buffer' = buffer /\ mark' = mark /\ rpos > Len(file)
    BY <1>4 DEF SectionEnd, inputs, AtEnd
  <2>2. mark = rpos /\ \A j \in First(file) + 1 .. mark - 1 : ~Bracketed(file[j])
    BY <2>1 DEF Inv, Skipping
  <2>3. rpos - 1 = Len(file)
    BY <2>1, Ranges
  <2>4. \A j \in First(file) + 1 .. Len(file) : ~Bracketed(file[j])
    BY <2>2, <2>3
  <2>5. buffer = file[Len(file)]
    BY <2>1, <2>3 DEF Looked
  <2>6. Len(file') = Len(file) /\ First(file') = First(file)
    BY <2>1
  <2> QED  BY <2>1, <2>4, <2>5, <2>6 DEF Looked
<1>5. CASE Replace
  <2>1. pc = "replace" /\ pc' = "rest" /\ file' = file
    BY <1>5 DEF Replace, inputs
  <2>2. EndsInHeading' <=> EndsInHeading
    BY <2>1 DEF EndsInHeading
  <2>3. CASE mark <= Len(file)
    <3>1. PICK c, m : /\ cachelen' = c /\ mark' = m
                      /\ <<c, m>> \in {<<1, mark>>, <<0, mark + 1>>}
      BY <1>5, <2>3 DEF Replace, ReadLine
    <3>2. ~(m + c > Len(file) + 1)
      BY <2>3, <3>1, Ranges
    <3> QED  BY <2>1, <3>1, <3>2 DEF Looked
  <2>4. CASE ~(mark <= Len(file))
    <3>1. mark > Len(file) /\ mark = Len(file) + 1
      BY <2>4, Ranges
    <3>2. mark' = mark /\ (cachelen' = 0 \/ Flag)
      BY <1>5, <2>4 DEF Replace
    <3>3. Flag => EndsInHeading
      BY <2>1, <3>1, FlagAtEnd
    <3>4. ~(mark + 0 > Len(file) + 1)
      BY <3>1, Ranges
    <3> QED  BY <2>1, <2>2, <3>2, <3>3, <3>4 DEF Looked
  <2> QED  BY <2>3, <2>4
<1>6. CASE RestLine
  <2>1. /\ pc = "rest" /\ pc' = "rest" /\ file' = file /\ rpos <= Len(file) /\ Accumulate
    BY <1>6, Ranges DEF RestLine, inputs, AtEnd
  <2>2. rpos = mark + cachelen
    BY <2>1, Ranges DEF Inv, Resuming, AtEnd
  <2>3. PICK c \in 0 .. BufferSize - 1, m \in mark .. Len(file) :
            cachelen' = c /\ mark' = m /\ m + c = mark + cachelen + 1
    BY <2>1, <2>2, Ranges, Accumulates
  <2>4. ~(m + c > Len(file) + 1)
    BY <2>1, <2>2, <2>3, Ranges
  <2> QED  BY <2>1, <2>3, <2>4 DEF Looked
<1>7. CASE RestEnd
  <2>1. /\ pc = "rest" /\ file' = file
        /\ pc' = "done" \/ (pc' = "reading" /\ ~(mark + cachelen <= Len(file) + 1))
    BY <1>7 DEF RestEnd, inputs
  <2>2. EndsInHeading' <=> EndsInHeading
    BY <2>1 DEF EndsInHeading
  <2>3. ~(mark + cachelen <= Len(file) + 1) => mark + cachelen > Len(file) + 1
    BY Ranges
  <2> QED  BY <2>1, <2>2, <2>3 DEF Looked
<1>8. CASE UNCHANGED vars
  <2>1. /\ file' = file /\ pc' = pc /\ rpos' = rpos /\ mark' = mark
        /\ cachelen' = cachelen /\ buffer' = buffer /\ wiped' = wiped
    BY <1>8 DEF vars
  <2> QED  BY <2>1 DEF Looked, EndsInHeading
<1> QED  BY <1>1, <1>2, <1>3, <1>4, <1>5, <1>6, <1>7, <1>8 DEF Next

(* The comment on flag is wrong of no other files than those that end in an *)
(* indented heading of the section: everywhere else there is a heading to  *)
(* copy when it is set, and the last flush reads no further than the file  *)
(* goes (FlagMeansHeading is violated in the former, see putsection_flag). *)
FlagErrsOnlyThere ==
    ~EndsInHeading => FlagMeansHeading /\ pc # "reading"

THEOREM FlagConfined == Spec => []FlagErrsOnlyThere
<1>1. Init => Looked
  BY DEF Init, Looked
<1>2. Inv /\ Looked => FlagErrsOnlyThere
  <2> SUFFICES ASSUME Inv, Looked, ~EndsInHeading PROVE FlagMeansHeading /\ pc # "reading"
    BY DEF FlagErrsOnlyThere
  <2>1. ASSUME pc = "replace", Flag
        PROVE  mark <= Len(file) /\ Bracketed(file[mark])
    <3>1. ~(mark > Len(file))
      BY <2>1, FlagAtEnd
    <3>2. mark <= Len(file)
      BY <3>1, Ranges
    <3> QED  BY <2>1, <3>2 DEF Inv, Skipping
  <2> QED  BY <2>1 DEF FlagMeansHeading, Looked
<1> QED  BY <1>1, <1>2, InitInv, NextInv, LookedNext, PTL DEF Spec
-------------------------------------------------------------------------------
(* The rewrite as module Config sees it: while it runs a thread is at the   *)
(* operation "copy"; when it is done the temporary file holds the section  *)
(* that ini_browse would read of it.  The thread is in SetConfigValues and *)
(* holds the mutex; what else the object and the card hold does not matter *)
(* and is given some value.                                                *)
CONSTANTS thread, free, ConfigKeys, SignBit, DefaultValue, NoFile,
          list   \* what SetConfigValues was called with

Object == INSTANCE Config WITH
    Threads <- {thread}, NoThread <- free, Keys <- ConfigKeys,
    Requests <- {list}, Files <- {NoFile}, Stamps <- {1}, Faults <- {},
    alive <- TRUE, configMutex <- thread, loaded <- TRUE, mtime <- 1,
    configValues <- DefaultValue, enabled <- TRUE,
    call <- [t \in {thread} |-> IF pc = "done" THEN "remove" ELSE "copy"],
    arg <- [t \in {thread} |-> list],
    disk <- Read(file), stamp <- 1,
    temp <- IF pc = "done" THEN Read(out) ELSE [k \in {} |-> 0],
    view <- DefaultValue, told <- FALSE, published <- DefaultValue, ready <- TRUE,
    save <- list

LEMMA NextKeeps == [Next]_vars => UNCHANGED inputs /\ (pc = "done" => UNCHANGED <<pc, out>>)
BY DEF Next, vars, SearchLine, SearchEnd, Found, SectionLine, SectionEnd, Replace,
       RestLine, RestEnd, inputs

(* Whatever ini_putsection does to copy a plain file is one step of Config, *)
(* its CopyToTemp, and nothing before: the loops, the cache and the two    *)
(* positions implement the step the proofs about Config rest on.  (Parts   *)
(* of a file getting lost, the fault "io", are not among the behaviours of *)
(* PutSection.)                                                            *)
THEOREM CopyIsOneStep ==
    ASSUME Saves = {Object!Saved(list)}
    PROVE  Spec => [][Plain => Object!CopyToTemp(thread)]_(Object!vars)
<1>1. ASSUME Inv, [Next]_vars, RewritesSection'
      PROVE  [Plain => Object!CopyToTemp(thread)]_(Object!vars)
  <2> DEFINE atRemove == [t \in {thread} |-> "remove"]
             atCopy == [t \in {thread} |-> "copy"]
  <2>1. file' = file /\ terminated' = terminated /\ vals' = vals
    BY <1>1, NextKeeps DEF inputs
  <2>2. Read(file)' = Read(file)
    BY <2>1
  <2>3. CASE pc = "done" \/ pc' # "done"
    <3>1. (pc' = "done" <=> pc = "done") /\ (pc = "done" => out' = out)
      BY <1>1, <2>3, NextKeeps
    <3>2. UNCHANGED Object!vars
      BY <2>2, <3>1 DEF Object!vars, Object!memory, Object!callers, Object!card, Object!history
    <3> QED  BY <3>2
  <2>4. CASE pc # "done" /\ pc' = "done"
    <3> SUFFICES ASSUME Plain PROVE Object!CopyToTemp(thread)
      OBVIOUS
    <3>1. Plain'
      BY <2>1 DEF Plain
    <3>2. Read(out)' = vals
      BY <1>1, <2>1, <2>4, <3>1 DEF RewritesSection
    <3>3. vals = Object!Saved(list)
      BY <1>1, Ranges
    <3>4. Read(out)' \in Object!Transferred(Object!Saved(list))
      BY <3>2, <3>3 DEF Object!Transferred
    <3>5. atRemove = [atCopy EXCEPT ![thread] = "remove"] /\ atCopy[thread] = "copy"
      OBVIOUS
    <3> QED  BY <2>2, <2>4, <3>4, <3>5
             DEF Object!CopyToTemp, Object!Goto, Object!memory, Object!history
  <2> QED  BY <2>3, <2>4
<1>2. Inv => RewritesSection
  BY DEF Inv, RewritesSection
<1> QED  BY <1>1, <1>2, InitInv, NextInv, PTL DEF Spec

(* The same for the file that is created when there was none: the section   *)
(* alone reads back as what was saved (Config's FillFile).                 *)
THEOREM NewFileReadsBack == \A v \in Saves : Read(Section(v)) = v
<1> SUFFICES ASSUME NEW v \in Saves PROVE Read(Section(v)) = v
  OBVIOUS
<1>1. IsFiniteSet(DOMAIN v) /\ v \in [DOMAIN v -> Range(v)]
  BY SavesAssumption
<1>2. Section(v) \in Seq(Range(Section(v)))
  BY <1>1, SectionText
<1>3. <<>> \in Seq(Range(Section(v))) /\ Len(<<>>) = 0
  OBVIOUS
<1>4. Around(<<>>, v, <<>>)
  BY <1>1, <1>2, <1>3 DEF Around
<1>5. <<>> \o Section(v) \o <<>> = Section(v)
  BY <1>2, ConcatEmptySeq
<1> QED  BY <1>4, <1>5, ReadsBack
===============================================================================
