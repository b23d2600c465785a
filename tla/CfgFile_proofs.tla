--------------------------- MODULE CfgFile_proofs ---------------------------
(***************************************************************************)
(* Theorems about the configuration file, for any sections, keys, values,  *)
(* lengths of the file and sequences of calls: about the table that one    *)
(* program edits (CfgFile) and about the file that programs share          *)
(* (CfgStore, from its state CfgDisk).                                     *)
(*                                                                         *)
(* The table.  CfgFile computes with sequences, by recursion over their    *)
(* length; induction is derived here, as a lemma, from the existence of a  *)
(* least counterexample, and with it that the two recursive functions of   *)
(* CfgFile exist.  In a tidy table, one that names no item twice, cfg_find *)
(* answers v for an item exactly when some entry below its section holds   *)
(* v for it, wherever the entry stands.  Each edit either changes the      *)
(* value of one entry or takes entries out, or puts them in, that hold no  *)
(* other item and part none from its section; so it changes what cfg_find  *)
(* answers for that item alone, and the table stays tidy.  A table without *)
(* continuation lines and bare texts is read back as it was written.       *)
(*                                                                         *)
(* The file.  Programs of one thread each, sharing a file that exists,     *)
(* never read a half-written configuration and never mix two commits.  A   *)
(* thread inside fstat..unlock holds its process's shared lock and one     *)
(* inside fopen..fclose its exclusive lock; an exclusive lock has no other *)
(* beside it; and the file differs from the last complete write only while *)
(* a thread is between fopen and fclose.                                   *)
(***************************************************************************)
EXTENDS CfgFile, CfgDisk, FiniteSetTheorems, SequenceTheorems, TLAPS

(* A set of naturals has a least element.                                  *)
LEMMA Least ==
  ASSUME NEW S \in SUBSET Nat, S # {}
  PROVE  \E x \in S : \A y \in S : x <= y
<1> PICK m \in S : TRUE
  OBVIOUS
<1> DEFINE T == {0..x : x \in {y \in S : y <= m}}
           R == StrictSubsetOrdering(0..m)
<1>1. IsFiniteSet(0..m)
  BY FS_Interval
<1>2. FiniteSubsetsOf(0..m) = SUBSET (0..m)
  BY <1>1, FS_FiniteSubsetsOfFinite
<1>3. IsWellFoundedOn(R, SUBSET (0..m))
  BY <1>2, FS_StrictSubsetOrderingWellFounded
<1>4. T \in SUBSET (SUBSET (0..m)) /\ 0..m \in T
  OBVIOUS
<1>5. PICK I \in T : \A J \in T : ~(<<J, I>> \in R)
  <2> HIDE DEF T, R
  <2> QED BY <1>3, <1>4, WFMin
<1>6. PICK x \in S : x <= m /\ I = 0..x
  BY <1>5
<1>7. ASSUME NEW y \in S, y < x
      PROVE  FALSE
  <2>1. 0..y \in T /\ 0..y \subseteq I /\ x \in I /\ x \notin 0..y
    BY <1>6, <1>7
  <2>2. 0..y \in SUBSET (0..m) /\ I \in SUBSET (0..m)
    BY <1>4, <2>1
  <2>3. <<0..y, I>> \in R
    BY <2>1, <2>2 DEF StrictSubsetOrdering
  <2> QED BY <1>5, <2>1, <2>3
<1> QED BY <1>6, <1>7

(* Min is the least element.                                               *)
LEMMA MinIsLeast ==
  ASSUME NEW S \in SUBSET Nat, S # {}
  PROVE  Min(S) \in S /\ \A y \in S : Min(S) <= y
BY Least DEF Min

(* Induction over an initial segment of the naturals, or all of them.      *)
Segment(D) == D \in SUBSET Nat /\ 0 \in D /\ \A n \in D : 0..n \subseteq D

LEMMA Induction ==
  ASSUME NEW D, Segment(D), NEW S, 0 \in S,
         \A n \in D : n + 1 \in D /\ n \in S => n + 1 \in S
  PROVE  D \subseteq S
<1> SUFFICES ASSUME D \ S # {} PROVE FALSE
  OBVIOUS
<1>1. D \ S \in SUBSET Nat
  BY DEF Segment
<1>2. PICK x \in D \ S : \A y \in D \ S : x <= y
  BY <1>1, Least
<1>3. x \in Nat /\ x # 0
  BY <1>1, <1>2
<1>4. x - 1 \in D
  BY <1>2, <1>3 DEF Segment
<1>5. x - 1 \in S
  BY <1>2, <1>3, <1>4
<1> QED BY <1>2, <1>3, <1>4, <1>5

(* A function that is defined by recursion exists.                         *)
Recursive(g, D, s0, step) ==
  g = [n \in D |-> IF n = 0 THEN s0 ELSE step[<<n, g[n - 1]>>]]

LEMMA Recursion ==
  ASSUME NEW D, Segment(D), NEW S, NEW s0 \in S, NEW step,
         \A n \in D \ {0}, x \in S : step[<<n, x>>] \in S
  PROVE  \E g \in [D -> S] : Recursive(g, D, s0, step)
<1> DEFINE Upto(n) == {h \in [0..n -> S] :
                         /\ h[0] = s0
                         /\ \A i \in 1..n : h[i] = step[<<i, h[i - 1]>>]}
<1>1. D \in SUBSET Nat
  BY DEF Segment
<1>2. ASSUME NEW m \in D, NEW n \in D, m <= n, NEW h \in Upto(m), NEW k \in Upto(n),
             NEW i \in 0..m
      PROVE  h[i] = k[i]
  <2> DEFINE Same == {j \in 0..m : h[j] = k[j]}
  <2>1. 0 \in Same
    BY <1>1
  <2>2. ASSUME NEW j \in 0..m, j + 1 \in 0..m, j \in Same
        PROVE  j + 1 \in Same
    <3>1. h[j + 1] = step[<<j + 1, h[j]>>]
      BY <1>1, <2>2
    <3>2. k[j + 1] = step[<<j + 1, k[j]>>]
      BY <1>1, <1>2, <2>2
    <3> QED BY <2>2, <3>1, <3>2
  <2>3. Segment(0..m)
    BY <1>1 DEF Segment
  <2>4. 0..m \subseteq Same
    <3> HIDE DEF Same
    <3> QED BY <2>1, <2>2, <2>3, Induction
  <2> QED BY <2>4
<1>3. \A n \in D : Upto(n) # {}
  <2> DEFINE Built == {n \in D : Upto(n) # {}}
  <2>1. 0 \in Built
    <3>1. [i \in 0..0 |-> s0] \in Upto(0)
      OBVIOUS
    <3>2. 0 \in D
      BY DEF Segment
    <3> QED BY <3>1, <3>2
  <2>2. ASSUME NEW n \in D, n + 1 \in D, n \in Built
        PROVE  n + 1 \in Built
    <3>1. PICK h \in Upto(n) : TRUE
      BY <2>2
    <3> DEFINE k == [i \in 0..n + 1 |-> IF i = n + 1 THEN step[<<n + 1, h[n]>>] ELSE h[i]]
    <3>2. n \in Nat /\ h \in [0..n -> S]
      BY <1>1, <3>1
    <3>3. step[<<n + 1, h[n]>>] \in S
      BY <2>2, <3>2
    <3>4. k \in [0..n + 1 -> S]
      BY <3>2, <3>3
    <3>5. k[0] = s0
      BY <3>1, <3>2
    <3>6. ASSUME NEW i \in 1..n + 1
          PROVE  k[i] = step[<<i, k[i - 1]>>]
      <4>1. i - 1 \in 0..n /\ k[i - 1] = h[i - 1]
        BY <3>2
      <4>2. i # n + 1 => k[i] = h[i] /\ i \in 1..n /\ h[i] = step[<<i, h[i - 1]>>]
        BY <3>1, <3>2
      <4>3. i = n + 1 => i - 1 = n /\ k[i] = step[<<i, h[n]>>]
        BY <3>2
      <4> QED BY <4>1, <4>2, <4>3
    <3>7. k \in Upto(n + 1)
      <4> HIDE DEF k
      <4> QED BY <3>4, <3>5, <3>6
    <3> QED BY <2>2, <3>7
  <2>3. D \subseteq Built
    <3> HIDE DEF Built
    <3> QED BY <2>1, <2>2, Induction
  <2> QED BY <2>3
<1> DEFINE g == [n \in D |-> (CHOOSE h \in Upto(n) : TRUE)[n]]
<1>4. ASSUME NEW n \in D
      PROVE  \E h \in Upto(n) : \A i \in 0..n : i \in D /\ g[i] = h[i]
  <2> DEFINE h == CHOOSE h \in Upto(n) : TRUE
  <2>1. h \in Upto(n)
    BY <1>3
  <2>2. ASSUME NEW i \in 0..n
        PROVE  i \in D /\ g[i] = h[i]
    <3>1. i \in D /\ i <= n /\ i \in Nat /\ i \in 0..i
      BY <1>1 DEF Segment
    <3> DEFINE k == CHOOSE k \in Upto(i) : TRUE
    <3>2. k \in Upto(i)
      BY <1>3, <3>1
    <3>3. g[i] = k[i]
      BY <3>1
    <3>4. k[i] = h[i]
      <4> HIDE DEF k, h, Upto
      <4> QED BY <1>2, <2>1, <3>1, <3>2
    <3> QED BY <3>1, <3>3, <3>4
  <2> QED BY <2>1, <2>2
<1>5. ASSUME NEW n \in D
      PROVE  g[n] \in S /\ g[n] = IF n = 0 THEN s0 ELSE step[<<n, g[n - 1]>>]
  <2> HIDE DEF g
  <2>1. PICK h \in Upto(n) : \A i \in 0..n : i \in D /\ g[i] = h[i]
    BY <1>4
  <2>2. n \in Nat /\ n \in 0..n /\ h \in [0..n -> S]
    BY <1>1, <2>1
  <2>3. n # 0 => n \in 1..n /\ n - 1 \in 0..n
    BY <2>2
  <2>4. n # 0 => h[n] = step[<<n, h[n - 1]>>]
    BY <2>1, <2>3
  <2> QED BY <2>1, <2>2, <2>3, <2>4
<1>6. g \in [D -> S] /\ g = [n \in D |-> IF n = 0 THEN s0 ELSE step[<<n, g[n - 1]>>]]
  <2>1. g \in [D -> S]
    BY <1>5
  <2>2. g = [n \in D |-> IF n = 0 THEN s0 ELSE step[<<n, g[n - 1]>>]]
    <3> HIDE DEF g
    <3> QED BY <1>5, <2>1
  <2> QED BY <2>1, <2>2
<1> QED
  <2> HIDE DEF g
  <2> QED BY <1>6 DEF Recursive

(* Capacity is the function its equation describes.                        *)
LEMMA CapacityDef ==
  \A n \in Nat : Capacity[n] = IF n = 0 THEN 0 ELSE Room(n, Capacity[n - 1])
<1> DEFINE step == [p \in Nat \X Nat |-> Room(p[1], p[2])]
           Solves(g) == g = [n \in Nat |-> IF n = 0 THEN 0 ELSE Room(n, g[n - 1])]
<1>1. \A n \in Nat \ {0}, x \in Nat : Room(n, x) \in Nat /\ step[<<n, x>>] = Room(n, x)
  BY ChunkAssumption DEF Room
<1>2. Segment(Nat)
  BY DEF Segment
<1>3. PICK g \in [Nat -> Nat] : Recursive(g, Nat, 0, step)
  <2>1. \A n \in Nat \ {0}, x \in Nat : step[<<n, x>>] \in Nat
    BY <1>1
  <2>2. 0 \in Nat
    OBVIOUS
  <2> HIDE DEF step
  <2> QED BY <1>2, <2>1, <2>2, Recursion
<1>4. \A n \in Nat \ {0} : step[<<n, g[n - 1]>>] = Room(n, g[n - 1])
  <2>1. \A n \in Nat \ {0} : n - 1 \in Nat
    OBVIOUS
  <2> HIDE DEF step
  <2> QED BY <1>1, <1>3, <2>1
<1>5. Solves(g)
  <2> HIDE DEF step
  <2> QED BY <1>3, <1>4 DEF Recursive
<1>6. Solves(Capacity)
  <2>1. Capacity = CHOOSE h : Solves(h)
    BY DEF Capacity
  <2> HIDE DEF Solves
  <2> QED BY <1>5, <2>1
<1> QED BY <1>6

(* Each entry that is stored has room.                                     *)
LEMMA RoomGrows ==
  ASSUME NEW n \in Nat, NEW m \in Nat, n <= m + 1
  PROVE  Room(n, m) \in Nat /\ n <= Room(n, m) /\ m <= Room(n, m)
BY ChunkAssumption DEF Room

LEMMA CapacityIsEnough == \A n \in Nat : Capacity[n] \in Nat /\ n <= Capacity[n]
<1> DEFINE Enough == {n \in Nat : Capacity[n] \in Nat /\ n <= Capacity[n]}
<1>1. 0 \in Enough
  BY CapacityDef
<1>2. ASSUME NEW n \in Nat, n \in Enough
      PROVE  n + 1 \in Enough
  <2>1. Capacity[n + 1] = Room(n + 1, Capacity[n])
    BY CapacityDef
  <2> QED BY <1>2, <2>1, RoomGrows, SMTT(30)
<1>3. Segment(Nat)
  BY DEF Segment
<1>4. Nat \subseteq Enough
  <2> HIDE DEF Enough
  <2> QED BY <1>1, <1>2, <1>3, Induction
<1> QED BY <1>4

(* The table s after line n of the file f.                                 *)
Longer(f, n, s) == IF Read(f[n]) THEN Append(s, ParseLine(f[n])) ELSE s

(* What is stored of a line is an entry.                                   *)
LEMMA ParsedLine ==
  ASSUME NEW line \in Line
  PROVE  ParseLine(line) \in Entry
<1>1. line.entry.id # NULL => [id |-> line.entry.id, value |-> line.entry.value] \in Joint
  BY DEF Line, Entry, Joint, Id
<1> QED BY <1>1 DEF ParseLine, Line, Entry, Joint, Id

(* So is Loaded, whose values are tables.                                  *)
LEMMA LoadedDef ==
  ASSUME NEW f \in Seq(Line)
  PROVE  \A n \in 0..Len(f) :
           /\ Loaded(f)[n] = IF n = 0 THEN <<>> ELSE Longer(f, n, Loaded(f)[n - 1])
           /\ Loaded(f)[n] \in Seq(Entry)
<1> DEFINE D == 0..Len(f)
           step == [p \in D \X Seq(Entry) |-> Longer(f, p[1], p[2])]
           Solves(g) == g = [n \in D |-> IF n = 0 THEN <<>> ELSE Longer(f, n, g[n - 1])]
<1>1. ASSUME NEW n \in D \ {0}, NEW s \in Seq(Entry)
      PROVE  Longer(f, n, s) \in Seq(Entry) /\ step[<<n, s>>] = Longer(f, n, s)
  <2>1. f[n] \in Line
    OBVIOUS
  <2>2. ParseLine(f[n]) \in Entry
    BY <2>1, ParsedLine
  <2> QED BY <2>2 DEF Longer
<1>2. Segment(D)
  BY DEF Segment
<1>3. PICK g \in [D -> Seq(Entry)] : Recursive(g, D, <<>>, step)
  <2>1. \A n \in D \ {0}, x \in Seq(Entry) : step[<<n, x>>] \in Seq(Entry)
    BY <1>1
  <2>2. <<>> \in Seq(Entry)
    OBVIOUS
  <2> HIDE DEF step, D
  <2> QED BY <1>2, <2>1, <2>2, Recursion
<1>4. \A n \in D \ {0} : step[<<n, g[n - 1]>>] = Longer(f, n, g[n - 1])
  <2>1. \A n \in D \ {0} : n - 1 \in D
    OBVIOUS
  <2> HIDE DEF step, D
  <2> QED BY <1>1, <1>3, <2>1
<1>5. Solves(g)
  <2> HIDE DEF step, D
  <2> QED BY <1>3, <1>4 DEF Recursive
<1>6. Solves(Loaded(f))
  <2>1. Loaded(f) = CHOOSE h : Solves(h)
    BY DEF Loaded, Longer
  <2> HIDE DEF Solves
  <2> QED BY <1>5, <2>1
<1> DEFINE Good == {n \in D : Loaded(f)[n] \in Seq(Entry)}
<1>7. 0 \in Good
  BY <1>6
<1>8. ASSUME NEW n \in D, n + 1 \in D, n \in Good
      PROVE  n + 1 \in Good
  <2>1. Loaded(f)[n + 1] = Longer(f, n + 1, Loaded(f)[n])
    BY <1>6, <1>8
  <2>2. n + 1 \in D \ {0} /\ Loaded(f)[n] \in Seq(Entry)
    BY <1>8
  <2>3. Loaded(f)[n + 1] \in Seq(Entry)
    <3> HIDE DEF step, D, Solves
    <3> QED BY <1>1, <2>1, <2>2
  <2> QED BY <1>8, <2>3
<1>9. D \subseteq Good
  <2> HIDE DEF D, Good
  <2> QED BY <1>2, <1>7, <1>8, Induction
<1> QED BY <1>6, <1>9

(* _cfg_parse makes a table of any file.                                   *)
LEMMA Parsed ==
  ASSUME NEW f \in Seq(Line)
  PROVE  Parse(f) \in Seq(Entry)
<1>1. Len(f) \in 0..Len(f)
  OBVIOUS
<1> QED BY <1>1, LoadedDef DEF Parse
-----------------------------------------------------------------------------
(* What the searches find.                                                 *)

(* What the searches of cfg_find and cfg_write find.                       *)
LEMMA SectionAtFinds ==
  ASSUME NEW t \in Seq(Entry), NEW s
  PROVE  LET p == SectionAt(t, s)
         IN  \/ p = 0 /\ \A i \in 1..Len(t) : t[i].section # s
             \/ p \in 1..Len(t) /\ t[p].section = s /\ \A i \in 1..p - 1 : t[i].section # s
<1> DEFINE I == {i \in 1..Len(t) : t[i].section = s}
<1>1. SectionAt(t, s) = IF I # {} THEN Min(I) ELSE 0
  BY DEF SectionAt, SelectInSeq
<1>2. I # {} => Min(I) \in I /\ \A i \in I : Min(I) <= i
  <2>1. I \in SUBSET Nat
    OBVIOUS
  <2> HIDE DEF I
  <2> QED BY <2>1, MinIsLeast
<1> DEFINE p == SectionAt(t, s)
<1>3. I = {} => p = 0 /\ \A i \in 1..Len(t) : t[i].section # s
  BY <1>1
<1>4. I # {} => p \in I /\ \A i \in I : p <= i
  BY <1>1, <1>2
<1>5. I # {} => p \in 1..Len(t) /\ t[p].section = s /\ \A i \in 1..p - 1 : t[i].section # s
  <2> HIDE DEF p
  <2> QED BY <1>4
<1> QED BY <1>3, <1>5

(* Entry n is the first section below p, or stands below all.              *)
Ends(t, p, n) ==
  /\ n \in p + 1..Len(t) + 1
  /\ \A i \in p + 1..n - 1 : t[i].section = NULL
  /\ n <= Len(t) => t[n].section # NULL

(* Remarks only, from a up to the entry above b.                           *)
Remarks(t, a, b) == \A j \in a..b - 1 : IsBlock(t[j])

LEMMA NextSectionFinds ==
  ASSUME NEW t \in Seq(Entry), NEW p \in 0..Len(t)
  PROVE  LET n == NextSection(t, p)
         IN  /\ n \in p + 1..Len(t) + 1
             /\ \A i \in p + 1..n - 1 : t[i].section = NULL
             /\ n <= Len(t) => t[n].section # NULL
<1> DEFINE I == {i \in p + 1..Len(t) : t[i].section # NULL} \cup {Len(t) + 1}
<1>1. NextSection(t, p) = Min(I)
  BY DEF NextSection
<1>2. Min(I) \in I /\ \A i \in I : Min(I) <= i
  <2>1. I \in SUBSET Nat /\ I # {}
    OBVIOUS
  <2> HIDE DEF I
  <2> QED BY <2>1, MinIsLeast
<1> DEFINE n == NextSection(t, p)
<1>3. n \in I /\ \A i \in I : n <= i
  BY <1>1, <1>2
<1>4. n \in p + 1..Len(t) + 1
  <2> HIDE DEF n
  <2> QED BY <1>3
<1>5. \A i \in p + 1..n - 1 : i \in p + 1..Len(t) /\ i \notin I
  <2> HIDE DEF n, I
  <2> QED BY <1>3, <1>4
<1>6. \A i \in p + 1..n - 1 : t[i].section = NULL
  <2> HIDE DEF n
  <2> QED BY <1>5
<1>7. n <= Len(t) => t[n].section # NULL
  <2> HIDE DEF n
  <2> QED BY <1>3, <1>4
<1> QED BY <1>4, <1>6, <1>7

LEMMA FirstInFinds ==
  ASSUME NEW D \in SUBSET (Nat \ {0})
  PROVE  \/ D = {} /\ FirstIn(D) = 0
         \/ FirstIn(D) \in D /\ \A i \in D : FirstIn(D) <= i
BY MinIsLeast DEF FirstIn

LEMMA BodyIsBelow ==
  ASSUME NEW t \in Seq(Entry), NEW p \in 0..Len(t)
  PROVE  /\ Body(t, p) \in SUBSET (p + 1..Len(t))
         /\ \A i \in Body(t, p) : t[i].section = NULL
BY NextSectionFinds DEF Body

LEMMA KeyAtFinds ==
  ASSUME NEW t \in Seq(Entry), NEW p \in 0..Len(t), NEW k
  PROVE  LET i == KeyAt(t, p, k)
         IN  \/ i = 0 /\ \A j \in Body(t, p) : t[j].id # Plain(k)
             \/ i \in Body(t, p) /\ i \in 1..Len(t) /\ t[i].id = Plain(k)
<1> DEFINE D == {j \in Body(t, p) : t[j].id = Plain(k)}
<1>1. D \in SUBSET (Nat \ {0})
  BY BodyIsBelow
<1>2. KeyAt(t, p, k) = FirstIn(D)
  BY DEF KeyAt
<1>3. (D = {} /\ FirstIn(D) = 0) \/ FirstIn(D) \in D
  <2> HIDE DEF D
  <2> QED BY <1>1, FirstInFinds
<1> QED BY <1>2, <1>3, BodyIsBelow

LEMMA NotesAboveFinds ==
  ASSUME NEW t \in Seq(Entry), NEW p \in Nat \ {0}
  PROVE  NotesAbove(t, p) \in 1..p /\ \A j \in NotesAbove(t, p)..p - 1 : IsBlock(t[j])
<1> DEFINE I == {i \in 1..p : \A j \in i..p - 1 : IsBlock(t[j])}
<1>1. I \in SUBSET Nat /\ p \in I
  OBVIOUS
<1>2. NotesAbove(t, p) = Min(I)
  BY DEF NotesAbove
<1>3. Min(I) \in I
  <2> HIDE DEF I
  <2> QED BY <1>1, MinIsLeast
<1> QED BY <1>2, <1>3

(* A remark is neither a section nor a key.                                *)
LEMMA BlockIsNoSection ==
  ASSUME NEW e, IsBlock(e)
  PROVE  e.section = NULL /\ e.id = NULL
BY DEF IsBlock, NoEntry

(* What RemoveSection deletes ends below the section.                      *)
LEMMA NotesBelowSection ==
  ASSUME NEW t \in Seq(Entry), NEW p \in 1..Len(t), t[p].section # NULL
  PROVE  /\ NotesAbove(t, p) <= p
         /\ NotesAbove(t, NextSection(t, p)) \in p + 1..Len(t) + 1
         /\ NotesAbove(t, NextSection(t, p)) <= NextSection(t, p)
<1> DEFINE n == NextSection(t, p)
           b == NotesAbove(t, n)
<1>1. n \in p + 1..Len(t) + 1
  BY NextSectionFinds
<1>2. b \in 1..n /\ \A j \in b..n - 1 : IsBlock(t[j])
  <2> HIDE DEF n
  <2> QED BY <1>1, NotesAboveFinds
<1>3. ~(b <= p)
  <2> HIDE DEF n, b
  <2> QED BY <1>1, <1>2, BlockIsNoSection
<1>4. b \in p + 1..Len(t) + 1 /\ b <= n
  <2> HIDE DEF n, b
  <2> QED BY <1>1, <1>2, <1>3
<1>5. NotesAbove(t, p) <= p
  BY NotesAboveFinds
<1> QED BY <1>4, <1>5
-----------------------------------------------------------------------------
(* Type correctness.                                                       *)

LEMMA Entries ==
  /\ \A s \in Section : SectionOf(s) \in Entry
  /\ \A k \in Key, v \in Value : Pair(k, v) \in Entry
BY DEF Entry, SectionOf, Pair, NoEntry, Plain, Id, Mark

(* The table with another value at i, and without the entries a..b-1.      *)
Valued(t, i, v) == [t EXCEPT ![i].value = v]
Cut(t, a, b)    == SubSeq(t, 1, a - 1) \o SubSeq(t, b, Len(t))

LEMMA Updated ==
  ASSUME NEW t \in Seq(Entry), NEW i \in 1..Len(t), NEW v \in Value
  PROVE  LET u == [t EXCEPT ![i].value = v]
         IN  /\ u \in Seq(Entry) /\ Len(u) = Len(t)
             /\ u = [t EXCEPT ![i] = [t[i] EXCEPT !.value = v]]
<1>1. t[i] \in Entry
  OBVIOUS
<1>2. [t[i] EXCEPT !.value = v] \in Entry
  BY <1>1 DEF Entry
<1> QED BY <1>2

LEMMA Deleted ==
  ASSUME NEW t \in Seq(Entry), NEW a \in 1..Len(t) + 1, NEW b \in a..Len(t) + 1
  PROVE  LET u == SubSeq(t, 1, a - 1) \o SubSeq(t, b, Len(t))
         IN  /\ u \in Seq(Entry)
             /\ Len(u) = Len(t) - (b - a)
             /\ \A i \in 1..Len(u) : u[i] = t[IF i < a THEN i ELSE i + (b - a)]
<1>1. /\ SubSeq(t, 1, a - 1) \in Seq(Entry) /\ Len(SubSeq(t, 1, a - 1)) = a - 1
      /\ \A i \in 1..a - 1 : SubSeq(t, 1, a - 1)[i] = t[i]
  BY SubSeqProperties
<1>2. /\ SubSeq(t, b, Len(t)) \in Seq(Entry) /\ Len(SubSeq(t, b, Len(t))) = Len(t) - b + 1
      /\ \A i \in 1..Len(t) - b + 1 : SubSeq(t, b, Len(t))[i] = t[b + i - 1]
  BY SubSeqProperties
<1> DEFINE h == SubSeq(t, 1, a - 1)
           r == SubSeq(t, b, Len(t))
<1>3. h \o r \in Seq(Entry) /\ Len(h \o r) = a - 1 + Len(t) - b + 1
  <2>1. h \in Seq(Entry) /\ r \in Seq(Entry) /\ Len(h) = a - 1 /\ Len(r) = Len(t) - b + 1
    BY <1>1, <1>2
  <2> HIDE DEF h, r
  <2>2. h \o r \in Seq(Entry) /\ Len(h \o r) = Len(h) + Len(r)
    BY <2>1, ConcatProperties
  <2> QED BY <2>1, <2>2
<1>4. ASSUME NEW i \in 1..a - 1 + Len(t) - b + 1
      PROVE  (h \o r)[i] = t[IF i < a THEN i ELSE i + (b - a)]
  <2>1. (h \o r)[i] = IF i <= a - 1 THEN h[i] ELSE r[i - (a - 1)]
    <3>1. h \in Seq(Entry) /\ r \in Seq(Entry) /\ Len(h) = a - 1 /\ Len(r) = Len(t) - b + 1
      BY <1>1, <1>2
    <3> HIDE DEF h, r
    <3> QED BY <3>1, ConcatProperties, SMTT(30)
  <2>2. i < a => h[i] = t[i]
    BY <1>1
  <2>3. ~(i < a) => r[i - (a - 1)] = t[b + (i - (a - 1)) - 1] /\ b + (i - (a - 1)) - 1 = i + (b - a)
    BY <1>2
  <2> HIDE DEF h, r
  <2> QED BY <2>1, <2>2, <2>3
<1> HIDE DEF h, r
<1>5. Len(h \o r) = Len(t) - (b - a)
  BY <1>3
<1>6. \A i \in 1..Len(h \o r) : (h \o r)[i] = t[IF i < a THEN i ELSE i + (b - a)]
  BY <1>3, <1>4
<1> QED BY <1>3, <1>5, <1>6 DEF h, r

LEMMA Inserted ==
  ASSUME NEW t \in Seq(Entry), NEW n \in 1..Len(t), NEW e \in Entry
  PROVE  /\ InsertAt(t, n, e) \in Seq(Entry)
         /\ Len(InsertAt(t, n, e)) = Len(t) + 1
         /\ \A i \in 1..Len(t) + 1 :
              InsertAt(t, n, e)[i] = IF i < n THEN t[i] ELSE IF i = n THEN e ELSE t[i - 1]
<1>1. /\ SubSeq(t, 1, n - 1) \in Seq(Entry) /\ Len(SubSeq(t, 1, n - 1)) = n - 1
      /\ \A i \in 1..n - 1 : SubSeq(t, 1, n - 1)[i] = t[i]
  BY SubSeqProperties
<1>2. /\ SubSeq(t, n, Len(t)) \in Seq(Entry) /\ Len(SubSeq(t, n, Len(t))) = Len(t) - n + 1
      /\ \A i \in 1..Len(t) - n + 1 : SubSeq(t, n, Len(t))[i] = t[n + i - 1]
  BY SubSeqProperties
<1>3. <<e>> \in Seq(Entry) /\ Len(<<e>>) = 1 /\ <<e>>[1] = e
  OBVIOUS
<1> QED BY <1>1, <1>2, <1>3 DEF InsertAt

LEMMA Appended ==
  ASSUME NEW t \in Seq(Entry), NEW d \in Entry, NEW e \in Entry
  PROVE  /\ t \o <<d, e>> \in Seq(Entry) /\ Len(t \o <<d, e>>) = Len(t) + 2
         /\ \A i \in 1..Len(t) : (t \o <<d, e>>)[i] = t[i]
         /\ (t \o <<d, e>>)[Len(t) + 1] = d /\ (t \o <<d, e>>)[Len(t) + 2] = e
OBVIOUS
LEMMA InitTypes == Init => TypeOK
<1> SUFFICES ASSUME Init PROVE TypeOK
  OBVIOUS
<1>1. file \in Seq(Line)
  BY FilesAssumption DEF Init
<1>2. table = NULL /\ max \in Nat /\ dirty \in BOOLEAN /\ fault \in Faults \cup {NULL}
  BY DEF Init
<1> QED BY <1>1, <1>2 DEF TypeOK

LEMMA OutputTypes ==
  ASSUME NEW t \in Seq(Entry)
  PROVE  /\ Output(t) \in Seq(Line) /\ Len(Output(t)) = Len(t)
         /\ \A i \in 1..Len(t) : Output(t)[i] = OutputEntry(t[i])
<1>1. ASSUME NEW e \in Entry
      PROVE  OutputEntry(e) \in Line
  BY DEF OutputEntry, Line, Entry, Joint, Id
<1>2. \A i \in 1..Len(t) : OutputEntry(t[i]) \in Line
  BY <1>1
<1>3. Output(t) = [i \in 1..Len(t) |-> OutputEntry(t[i])]
  BY DEF Output
<1>4. Output(t) \in [1..Len(t) -> Line]
  BY <1>2, <1>3
<1>5. Output(t) \in Seq(Line)
  BY <1>4, SeqDef
<1> QED BY <1>3, <1>4, <1>5

(* What a call makes of the table is a table, with room for its entries.   *)
LEMMA AddSectionTypes ==
  ASSUME TypeOK, table # NULL, NEW s \in Section, NEW k \in Key, NEW v \in Value,
         AddSection(s, k, v)
  PROVE  TypeOK'
<1>0. table \in Seq(Entry) /\ max \in Nat /\ Len(table) <= max
  BY DEF TypeOK
<1>1. /\ table' \in Seq(Entry) /\ Len(table') = Len(table) + 2
  BY <1>0, Entries, Appended DEF AddSection, Changed
<1>2. max' = Room(Len(table) + 2, Room(Len(table) + 1, max))
  BY DEF AddSection
<1>3. /\ Room(Len(table) + 1, max) \in Nat
      /\ Len(table) + 1 <= Room(Len(table) + 1, max)
  <2> DEFINE n == Len(table) + 1
  <2>1. n \in Nat /\ n <= max + 1 /\ max \in Nat
    BY <1>0
  <2> HIDE DEF n
  <2>2. Room(n, max) \in Nat /\ n <= Room(n, max)
    BY <2>1, RoomGrows
  <2> QED BY <2>2 DEF n
<1>4. max' \in Nat /\ Len(table') <= max'
  BY <1>0, <1>1, <1>2, <1>3, RoomGrows
<1> QED BY <1>1, <1>4 DEF TypeOK, AddSection, Changed

LEMMA UpdateTypes ==
  ASSUME TypeOK, table # NULL, NEW i \in 1..Len(table), NEW v \in Value,
         Changed([table EXCEPT ![i].value = v]), UNCHANGED max
  PROVE  TypeOK'
<1>1. table' \in Seq(Entry) /\ Len(table') = Len(table)
  BY Updated DEF Changed, TypeOK
<1> QED BY <1>1 DEF TypeOK, Changed

LEMMA CrashTypes ==
  ASSUME TypeOK, NEW f \in Faults \cup {NULL}, Drop(f)
  PROVE  TypeOK'
BY DEF TypeOK, Drop

(* cfg_write keeps the types, and inserts only where there is room.        *)
LEMMA SetTypes ==
  ASSUME TypeOK, NEW s \in Section, NEW k \in Key, NEW v \in Value, Set(s, k, v)
  PROVE  TypeOK'
<1> DEFINE p == SectionAt(table, s)
           i == KeyAt(table, p, k)
           n == NextSection(table, p)
<1>1. table # NULL /\ table \in Seq(Entry) /\ max \in Nat /\ Len(table) <= max
  BY DEF TypeOK, Set, AddSection, Update, Insert, AppendKey
<1>2. p = 0 \/ p \in 1..Len(table)
  BY <1>1, SectionAtFinds
<1>3. i = 0 \/ i \in 1..Len(table)
  <2> HIDE DEF p
  <2> QED BY <1>1, <1>2, KeyAtFinds
<1>4. n \in 1..Len(table) + 1
  <2>1. n \in p + 1..Len(table) + 1
    <3> HIDE DEF p
    <3> QED BY <1>1, <1>2, NextSectionFinds
  <2> HIDE DEF p, n
  <2> QED BY <1>1, <1>2, <2>1
<1>5. CASE AddSection(s, k, v)
  BY <1>1, <1>5, AddSectionTypes
<1>6. CASE Update(s, k, v)
  <2>1. i # 0 /\ Changed([table EXCEPT ![i].value = v]) /\ UNCHANGED max
    BY <1>6 DEF Update
  <2> HIDE DEF i
  <2> QED BY <1>1, <1>3, <2>1, UpdateTypes
<1>7. CASE Insert(s, k, v)
  <2>1. CASE /\ Changed(InsertAt(table, n, Pair(k, v))) /\ n <= Len(table)
             /\ Len(table) + 1 < max /\ UNCHANGED max
    <3>1. table' \in Seq(Entry) /\ Len(table') = Len(table) + 1
      <4> HIDE DEF n
      <4> QED BY <1>1, <1>4, <2>1, Entries, Inserted DEF Changed
    <3> QED BY <1>1, <2>1, <3>1 DEF TypeOK, Changed
  <2>2. CASE Crash("overrun")
    BY <2>2, CrashTypes DEF Crash, Faults
  <2> QED BY <1>7, <2>1, <2>2 DEF Insert
<1>8. CASE AppendKey(s, k, v)
  <2>1. table' = Append(table, Pair(k, v)) /\ max' = Room(Len(table) + 1, max)
    BY <1>8 DEF AppendKey, Changed
  <2>2. table' \in Seq(Entry) /\ Len(table') = Len(table) + 1
    BY <1>1, <2>1, Entries
  <2>3. max' \in Nat /\ Len(table') <= max'
    BY <1>1, <2>1, <2>2, RoomGrows
  <2> QED BY <1>8, <2>2, <2>3 DEF TypeOK, AppendKey, Changed
<1> QED BY <1>5, <1>6, <1>7, <1>8 DEF Set

LEMMA DeleteTypes ==
  ASSUME TypeOK, table # NULL, NEW a \in 1..Len(table) + 1, NEW b \in a..Len(table) + 1,
         Delete(a, b)
  PROVE  TypeOK'
<1>1. table' = SubSeq(table, 1, a - 1) \o SubSeq(table, b, Len(table)) /\ max' = max
  BY DEF Delete, Changed
<1>2. table \in Seq(Entry) /\ max \in Nat /\ Len(table) <= max
  BY DEF TypeOK
<1>3. table' \in Seq(Entry) /\ Len(table') = Len(table) - (b - a)
  BY <1>1, <1>2, Deleted
<1>4. Len(table') <= max'
  <2>1. Len(table) \in Nat /\ b - a \in Nat
    BY <1>2
  <2>2. Len(table') = Len(table) - (b - a) /\ max' = max
    BY <1>1, <1>3
  <2> DEFINE d == b - a
  <2> HIDE DEF d
  <2>3. Len(table') = Len(table) - d /\ d \in Nat
    BY <2>1, <2>2 DEF d
  <2> QED BY ONLY <1>2, <2>1, <2>2, <2>3
<1> QED BY <1>1, <1>2, <1>3, <1>4 DEF TypeOK, Delete, Changed

LEMMA RemoveTypes ==
  ASSUME TypeOK, NEW s \in Section,
         RemoveSection(s) \/ \E k \in Key : RemoveKey(s, k)
  PROVE  TypeOK'
<1> DEFINE p == SectionAt(table, s)
<1>1. table # NULL /\ table \in Seq(Entry)
  BY DEF TypeOK, RemoveKey, RemoveSection
<1>2. p = 0 \/ (p \in 1..Len(table) /\ table[p].section # NULL)
  BY <1>1, SectionAtFinds, NullAssumption
<1>3. CASE RemoveSection(s)
  <2> DEFINE a == NotesAbove(table, p)
             b == NotesAbove(table, NextSection(table, p))
  <2>1. CASE Delete(a, b) /\ p # 0
    <3>1. a \in 1..p /\ b \in p + 1..Len(table) + 1 /\ p \in 1..Len(table)
      <4> HIDE DEF p
      <4> QED BY <1>1, <1>2, <2>1, NotesAboveFinds, NotesBelowSection
    <3> HIDE DEF p, a, b
    <3>2. a \in 1..Len(table) + 1 /\ b \in a..Len(table) + 1
      BY <3>1
    <3> QED BY <1>1, <2>1, <3>2, DeleteTypes
  <2>2. CASE Crash("underrun")
    BY <2>2, CrashTypes DEF Crash, Faults
  <2> QED BY <1>3, <2>1, <2>2 DEF RemoveSection
<1>4. ASSUME NEW k \in Key, RemoveKey(s, k)
      PROVE  TypeOK'
  <2> DEFINE i == KeyAt(table, p, k)
             a == NotesAbove(table, i)
  <2>1. p # 0 /\ i # 0 /\ Delete(a, i + 1)
    BY <1>4 DEF RemoveKey
  <2>2. i \in 1..Len(table)
    <3> HIDE DEF p
    <3> QED BY <1>1, <1>2, <2>1, KeyAtFinds
  <2>3. a \in 1..i
    <3> HIDE DEF i
    <3> QED BY <1>1, <2>2, NotesAboveFinds
  <2> HIDE DEF p, i, a
  <2>4. a \in 1..Len(table) + 1 /\ i + 1 \in a..Len(table) + 1
    BY <2>2, <2>3
  <2> QED BY <1>1, <2>1, <2>4, DeleteTypes
<1> QED BY <1>3, <1>4
LEMMA OpenTypes == TypeOK /\ Open => TypeOK'
<1> SUFFICES ASSUME TypeOK, Open PROVE TypeOK'
  OBVIOUS
<1>1. Parse(file) \in Seq(Entry)
  BY Parsed DEF TypeOK
<1>2. Len(Parse(file)) \in Nat
  BY <1>1
<1>3. Capacity[Len(Parse(file))] \in Nat /\ Len(Parse(file)) <= Capacity[Len(Parse(file))]
  BY <1>2, CapacityIsEnough
<1> QED BY <1>1, <1>3 DEF TypeOK, Open

LEMMA CommitTypes == TypeOK /\ Commit => TypeOK'
<1> SUFFICES ASSUME TypeOK, Commit PROVE TypeOK'
  OBVIOUS
<1>1. Output(table) \in Seq(Line)
  BY OutputTypes DEF TypeOK, Commit
<1> QED BY <1>1 DEF TypeOK, Commit

(* So does every step.                                                     *)
LEMMA StepTypes == TypeOK /\ [Next]_vars => TypeOK'
<1> SUFFICES ASSUME TypeOK, [Next]_vars PROVE TypeOK'
  OBVIOUS
<1>1. CASE Open
  BY <1>1, OpenTypes
<1>2. CASE Done
  BY <1>2, CrashTypes DEF Done
<1>3. CASE Commit
  BY <1>3, CommitTypes
<1>4. CASE \E s \in Section, k \in Key, v \in Value : Set(s, k, v)
  BY <1>4, SetTypes
<1>5. CASE \E s \in Section, k \in Key : RemoveKey(s, k)
  BY <1>5, RemoveTypes
<1>6. CASE \E s \in Section : RemoveSection(s)
  BY <1>6, RemoveTypes
<1>7. ASSUME NEW k \in Key, NEW v \in Value, IniSet(k, v)
      PROVE  TypeOK'
  <2> DEFINE I == {i \in 1..Len(table) : table[i].id = Plain(k)}
             i == SelectInSeq(table, LAMBDA e : e.id = Plain(k))
  <2>1. table # NULL /\ table \in Seq(Entry)
    BY <1>7 DEF IniSet, TypeOK
  <2>2. i = IF I # {} THEN Min(I) ELSE 0
    BY DEF SelectInSeq
  <2>3. I # {} => Min(I) \in I
    <3>1. I \in SUBSET Nat
      BY <2>1
    <3> HIDE DEF I
    <3> QED BY <3>1, MinIsLeast
  <2>4. i = 0 \/ i \in 1..Len(table)
    BY <2>2, <2>3
  <2>5. CASE i # 0 /\ Changed([table EXCEPT ![i].value = v]) /\ UNCHANGED max
    <3> HIDE DEF i
    <3> QED BY <2>1, <2>4, <2>5, UpdateTypes
  <2>6. CASE Crash("walk")
    BY <2>6, CrashTypes DEF Crash, Faults
  <2> QED BY <1>7, <2>5, <2>6 DEF IniSet
<1>8. CASE IniGetFails \/ GetKeysFails
  <2>1. Crash("null")
    BY <1>8 DEF IniGetFails, GetKeysFails
  <2> QED BY <2>1, CrashTypes DEF Crash, Faults
<1>9. CASE UNCHANGED vars
  BY <1>9 DEF vars, TypeOK
<1> QED BY <1>1, <1>2, <1>3, <1>4, <1>5, <1>6, <1>7, <1>8, <1>9 DEF Next

(* Whatever the file and the calls, the table holds entries whose keys     *)
(* have values, and never more of them than were allocated                 *)
(* (_cfg_poolalloc, cfgfile.cpp:711-737).                                  *)
THEOREM TypeCorrect == Spec => []TypeOK
<1>1. Init => TypeOK
  BY InitTypes
<1>2. TypeOK /\ [Next]_vars => TypeOK'
  BY StepTypes
<1> QED BY <1>1, <1>2, PTL DEF Spec
-----------------------------------------------------------------------------
(* Tables in which no name is ambiguous, and what cfg_find sees in them.   *)

(* What an unindented file holds: no continuation and no bare text.        *)
Shown(t) ==
  \A i \in 1..Len(t) : /\ t[i].value \notin Joint
                       /\ t[i].id = NULL => t[i].value = NULL

(* No name is ambiguous: a section starts once, a key stands once in its   *)
(* section, and no key is written with quotes.                             *)
Tidy(t) ==
  /\ \A i \in 1..Len(t) : /\ t[i].section # NULL => t[i].id = NULL
                          /\ t[i].id # NULL => t[i].id.mark # "quoted"
  /\ \A i, j \in 1..Len(t) : i < j => t[i].section = NULL \/ t[i].section # t[j].section
  /\ \A i, j \in 1..Len(t), k \in Key :
       i < j /\ t[i].id = Plain(k) /\ t[j].id = Plain(k)
         => \E l \in i + 1..j : t[l].section # NULL

(* Entry j is key k of the section that entry p starts.                    *)
Under(t, p, j) ==
  p \in 1..Len(t) /\ j \in p + 1..Len(t) /\ \A l \in p + 1..j : t[l].section = NULL

At(t, p, j, s, k) == Under(t, p, j) /\ t[p].section = s /\ t[j].id = Plain(k)

(* The table holds the value v for key k of section s.                     *)
Has(t, s, k, v) == \E p, j \in 1..Len(t) : At(t, p, j, s, k) /\ t[j].value = v

(* A plain key is known by its name.                                       *)
LEMMA PlainKeys ==
  /\ \A k \in Key : /\ Plain(k) # NULL /\ Plain(k) \in Id
                     /\ Plain(k).key = k /\ Plain(k).mark = "plain"
  /\ \A k, m \in Key : Plain(k) = Plain(m) => k = m
  /\ \A i \in Id, k \in Key : i.key = k /\ i.mark = "plain" => i = Plain(k)
BY NullAssumption DEF Plain, Id, Mark

LEMMA OneSection ==
  ASSUME NEW t \in Seq(Entry), Tidy(t), NEW s \in Section, NEW p \in 1..Len(t),
         t[p].section = s
  PROVE  SectionAt(t, s) = p
<1> DEFINE q == SectionAt(t, s)
<1>1. s # NULL
  BY NullAssumption
<1>2. q \in 1..Len(t) /\ t[q].section = s
  BY SectionAtFinds
<1>3. ~(q < p) /\ ~(p < q)
  <2> HIDE DEF q
  <2> QED BY <1>1, <1>2 DEF Tidy
<1>4. q = p
  <2> HIDE DEF q
  <2> QED BY <1>2, <1>3
<1> QED BY <1>4

LEMMA BodyIsUnder ==
  ASSUME NEW t \in Seq(Entry), NEW p \in 1..Len(t), NEW j \in 1..Len(t)
  PROVE  j \in Body(t, p) <=> Under(t, p, j)
<1> DEFINE n == NextSection(t, p)
<1>1. /\ n \in p + 1..Len(t) + 1 /\ \A i \in p + 1..n - 1 : t[i].section = NULL
      /\ n <= Len(t) => t[n].section # NULL
  BY NextSectionFinds
<1>2. j \in Body(t, p) <=> j \in p + 1..n - 1
  BY DEF Body
<1> HIDE DEF n
<1>3. j \in p + 1..n - 1 => Under(t, p, j)
  BY <1>1 DEF Under
<1>4. Under(t, p, j) => j \in p + 1..n - 1
  BY <1>1 DEF Under
<1> QED BY <1>2, <1>3, <1>4

(* The keys that cfg_find looks at below p.                                *)
Candidates(t, p, k) ==
  {j \in Body(t, p) : t[j].id # NULL /\ t[j].id.key = k /\ t[j].id.mark # "hash"}

(* The entry that cfg_find answers from is the first candidate.            *)
LEMMA FindDef ==
  ASSUME NEW t, NEW s, NEW k
  PROVE  Find(t, s, k) =
           IF SectionAt(t, s) = 0 \/ FirstIn(Candidates(t, SectionAt(t, s), k)) = 0
           THEN NULL
           ELSE t[FirstIn(Candidates(t, SectionAt(t, s), k))].value
BY DEF Find, Candidates

LEMMA CandidatesAreAt ==
  ASSUME NEW t \in Seq(Entry), Tidy(t), NEW s \in Section, NEW k \in Key,
         NEW p \in 1..Len(t), t[p].section = s
  PROVE  /\ Candidates(t, p, k) \in SUBSET (1..Len(t))
         /\ \A j \in 1..Len(t) : j \in Candidates(t, p, k) <=> At(t, p, j, s, k)
<1>1. Candidates(t, p, k) \in SUBSET (1..Len(t))
  BY BodyIsBelow DEF Candidates
<1>2. ASSUME NEW j \in 1..Len(t)
      PROVE  (t[j].id # NULL /\ t[j].id.key = k /\ t[j].id.mark # "hash") <=> t[j].id = Plain(k)
  <2>1. t[j].id \in Id \cup {NULL} /\ (t[j].id # NULL => t[j].id.mark # "quoted")
    BY DEF Tidy, Entry
  <2>2. t[j].id # NULL => t[j].id.mark \in {"plain", "hash"}
    BY <2>1 DEF Id, Mark
  <2> QED BY <2>1, <2>2, PlainKeys
<1> QED BY <1>1, <1>2, BodyIsUnder DEF Candidates, At

LEMMA FoundAt ==
  ASSUME NEW t \in Seq(Entry), Tidy(t), NEW s \in Section, NEW k \in Key,
         NEW p \in 1..Len(t), NEW j \in 1..Len(t), At(t, p, j, s, k)
  PROVE  Find(t, s, k) = t[j].value
<1> DEFINE C == Candidates(t, p, k)
           i == FirstIn(C)
<1>1. SectionAt(t, s) = p
  BY OneSection DEF At
<1>2. j \in C /\ C \in SUBSET (1..Len(t)) /\ \A h \in C : At(t, p, h, s, k)
  BY CandidatesAreAt DEF At
<1>3. i \in C
  <2>1. C \in SUBSET (Nat \ {0}) /\ C # {}
    BY <1>2
  <2> HIDE DEF C
  <2> QED BY <2>1, FirstInFinds
<1>4. i \in 1..Len(t) /\ At(t, p, i, s, k)
  <2> HIDE DEF i, C
  <2> QED BY <1>2, <1>3
<1>5. i = j
  <2> HIDE DEF i, C
  <2>1. \A h \in p + 1..i : t[h].section = NULL
    BY <1>4 DEF At, Under
  <2>2. \A h \in p + 1..j : t[h].section = NULL
    BY DEF At, Under
  <2>3. p \in Nat /\ i > p /\ j > p
    BY <1>4 DEF At, Under
  <2>4. t[i].id = Plain(k) /\ t[j].id = Plain(k)
    BY <1>4 DEF At
  <2>5. ~(i < j) /\ ~(j < i)
    BY <1>4, <2>1, <2>2, <2>3, <2>4 DEF Tidy
  <2> QED BY <1>4, <2>5
<1> HIDE DEF i
<1>6. Find(t, s, k) = IF p = 0 \/ i = 0 THEN NULL ELSE t[i].value
  BY <1>1, FindDef DEF i
<1> QED BY <1>4, <1>5, <1>6

LEMMA FoundNowhere ==
  ASSUME NEW t \in Seq(Entry), Tidy(t), NEW s \in Section, NEW k \in Key,
         \A p, j \in 1..Len(t) : ~At(t, p, j, s, k)
  PROVE  Find(t, s, k) = NULL
<1> DEFINE p == SectionAt(t, s)
           C == Candidates(t, p, k)
<1>1. p = 0 \/ (p \in 1..Len(t) /\ t[p].section = s)
  BY SectionAtFinds
<1>2. p # 0 => C = {}
  <2> HIDE DEF p
  <2> QED BY <1>1, CandidatesAreAt
<1>3. C = {} => FirstIn(C) = 0
  BY DEF FirstIn
<1> QED BY <1>2, <1>3, FindDef

(* Find says what the table has, and NULL says that it has nothing.        *)
LEMMA FindSeesWhatIsThere ==
  ASSUME NEW t \in Seq(Entry), Tidy(t), NEW s \in Section, NEW k \in Key
  PROVE  /\ Find(t, s, k) \in Value \cup {NULL}
         /\ \A v \in Value : Find(t, s, k) = v <=> Has(t, s, k, v)
<1>1. CASE \E p, j \in 1..Len(t) : At(t, p, j, s, k)
  <2>1. PICK p, j \in 1..Len(t) : At(t, p, j, s, k)
    BY <1>1
  <2>2. t[j].value \in Value
    BY <2>1, PlainKeys DEF At, Entry
  <2>3. \A q, h \in 1..Len(t) : At(t, q, h, s, k) => Find(t, s, k) = t[h].value
    BY FoundAt
  <2> QED BY <2>1, <2>2, <2>3 DEF Has
<1>2. CASE ~\E p, j \in 1..Len(t) : At(t, p, j, s, k)
  <2>1. Find(t, s, k) = NULL
    BY <1>2, FoundNowhere
  <2>2. \A v \in Value : v # NULL /\ ~Has(t, s, k, v)
    BY <1>2, NullAssumption DEF Has
  <2> QED BY <2>1, <2>2
<1> QED BY <1>1, <1>2

LEMMA SameItem ==
  ASSUME NEW t \in Seq(Entry), Tidy(t), NEW u \in Seq(Entry), Tidy(u),
         NEW s \in Section, NEW k \in Key,
         \A v \in Value : Has(u, s, k, v) <=> Has(t, s, k, v)
  PROVE  Find(u, s, k) = Find(t, s, k)
<1>1. Find(t, s, k) \in Value \cup {NULL} /\ Find(u, s, k) \in Value \cup {NULL}
  BY FindSeesWhatIsThere
<1>2. \A v \in Value : Find(u, s, k) = v <=> Find(t, s, k) = v
  BY FindSeesWhatIsThere
<1> QED BY <1>1, <1>2
-----------------------------------------------------------------------------
(* How an edit moves entries: x is y without the d entries from a on.      *)

(* The position in y of entry i of x.                                      *)
Shift(i, a, d) == IF i < a THEN i ELSE i + d

Without(x, y, a, d) ==
  /\ d \in Nat /\ a \in 1..Len(x) + 1
  /\ Len(y) = Len(x) + d
  /\ \A i \in 1..Len(x) : x[i] = y[Shift(i, a, d)]

(* The entries that x lacks start no section, or only remarks follow them. *)
Apart(x, y, a, d) ==
  \/ \A l \in a..a + d - 1 : y[l].section = NULL
  \/ /\ \E l \in a..a + d - 1 : y[l].section # NULL
     /\ \A j \in a..Len(x) : (\A h \in a..j : x[h].section = NULL) => x[j].id = NULL

LEMMA Shifted ==
  ASSUME NEW x \in Seq(Entry), NEW y \in Seq(Entry), NEW a, NEW d, Without(x, y, a, d)
  PROVE  /\ \A i \in 1..Len(x) : /\ Shift(i, a, d) \in 1..Len(y) \ a..a + d - 1
                                 /\ x[i] = y[Shift(i, a, d)]
         /\ \A i, j \in 1..Len(x) : i < j <=> Shift(i, a, d) < Shift(j, a, d)
         /\ \A l \in 1..Len(y) \ a..a + d - 1 : \E i \in 1..Len(x) : l = Shift(i, a, d)
<1>0. d \in Nat /\ a \in Nat /\ a >= 1 /\ Len(x) \in Nat /\ Len(y) = Len(x) + d
  BY DEF Without
<1>1. ASSUME NEW l \in 1..Len(y) \ a..a + d - 1
      PROVE  \E i \in 1..Len(x) : l = Shift(i, a, d)
  <2>1. CASE l < a
    <3>1. l \in 1..Len(x) /\ l = Shift(l, a, d)
      BY <2>1 DEF Shift, Without
    <3> QED BY <3>1
  <2>2. CASE l >= a + d
    <3>1. l - d \in 1..Len(x) /\ l = Shift(l - d, a, d)
      BY <1>0, <2>2 DEF Shift
    <3> QED BY <3>1
  <2> QED BY <1>0, <2>1, <2>2
<1> QED BY <1>0, <1>1 DEF Without, Shift

LEMMA UnderShifted ==
  ASSUME NEW x \in Seq(Entry), NEW y \in Seq(Entry), NEW a, NEW d, Without(x, y, a, d),
         NEW p \in 1..Len(x), NEW j \in 1..Len(x)
  PROVE  Under(y, Shift(p, a, d), Shift(j, a, d))
           <=> /\ Under(x, p, j)
               /\ p < a /\ a <= j => \A l \in a..a + d - 1 : y[l].section = NULL
<1> DEFINE P == Shift(p, a, d)
           J == Shift(j, a, d)
<1>0. d \in Nat /\ a \in Nat /\ Len(y) = Len(x) + d /\ Len(x) \in Nat
  BY DEF Without
<1>1. P \in 1..Len(y) /\ J \in 1..Len(y) /\ (p < j <=> P < J)
  BY Shifted
<1>2. ASSUME Under(y, P, J)
      PROVE  /\ Under(x, p, j)
             /\ p < a /\ a <= j => \A l \in a..a + d - 1 : y[l].section = NULL
  <2>1. p < j /\ \A l \in P + 1..J : y[l].section = NULL
    BY <1>1, <1>2 DEF Under
  <2>2. ASSUME NEW l \in p + 1..j
        PROVE  x[l].section = NULL
    <3>1. l \in 1..Len(x) /\ p < l /\ l <= j
      OBVIOUS
    <3>2. Shift(l, a, d) \in P + 1..J
      BY <1>0, <3>1 DEF Shift
    <3> QED BY <2>1, <3>1, <3>2, Shifted
  <2>3. p < a /\ a <= j => \A l \in a..a + d - 1 : l \in P + 1..J
    BY <1>0 DEF Shift
  <2> QED BY <2>1, <2>2, <2>3 DEF Under
<1>3. ASSUME Under(x, p, j), p < a /\ a <= j => \A l \in a..a + d - 1 : y[l].section = NULL
      PROVE  Under(y, P, J)
  <2>1. p < j /\ \A l \in p + 1..j : x[l].section = NULL
    BY <1>3 DEF Under
  <2>2. ASSUME NEW l \in P + 1..J
        PROVE  y[l].section = NULL
    <3>1. l \in 1..Len(y)
      BY <1>1
    <3>2. CASE l \in a..a + d - 1
      <4>1. p < a /\ a <= j
        BY <1>0, <2>1, <3>2 DEF Shift
      <4> QED BY <1>3, <3>2, <4>1
    <3>3. CASE l \notin a..a + d - 1
      <4>1. PICK i \in 1..Len(x) : l = Shift(i, a, d)
        BY <3>1, <3>3, Shifted
      <4>2. i \in p + 1..j
        BY <1>0, <4>1 DEF Shift
      <4> QED BY <2>1, <4>1, <4>2, Shifted
    <3> QED BY <3>2, <3>3
  <2>3. P \in 1..Len(y) /\ J \in P + 1..Len(y)
    BY <1>1, <2>1
  <2> QED BY <2>2, <2>3 DEF Under
<1> QED BY <1>2, <1>3

LEMMA AtShifted ==
  ASSUME NEW x \in Seq(Entry), NEW y \in Seq(Entry), NEW a, NEW d, Without(x, y, a, d),
         Apart(x, y, a, d),
         NEW p \in 1..Len(x), NEW j \in 1..Len(x), NEW s \in Section, NEW k \in Key
  PROVE  At(y, Shift(p, a, d), Shift(j, a, d), s, k) <=> At(x, p, j, s, k)
<1>1. x[p] = y[Shift(p, a, d)] /\ x[j] = y[Shift(j, a, d)]
  BY Shifted
<1>2. ASSUME At(x, p, j, s, k), p < a, a <= j
      PROVE  \A l \in a..a + d - 1 : y[l].section = NULL
  <2>1. \A h \in a..j : x[h].section = NULL
    BY <1>2 DEF At, Under, Without
  <2>2. x[j].id # NULL /\ j \in a..Len(x)
    BY <1>2, PlainKeys DEF At, Without
  <2> QED BY <2>1, <2>2 DEF Apart
<1> QED BY <1>1, <1>2, UnderShifted DEF At

(* What is taken away from a tidy table leaves a tidy one.                 *)
LEMMA TidyWithout ==
  ASSUME NEW x \in Seq(Entry), NEW y \in Seq(Entry), NEW a, NEW d, Without(x, y, a, d),
         Apart(x, y, a, d), Tidy(y)
  PROVE  Tidy(x)
<1>1. /\ \A i \in 1..Len(x) : Shift(i, a, d) \in 1..Len(y) /\ x[i] = y[Shift(i, a, d)]
      /\ \A i, j \in 1..Len(x) : i < j => Shift(i, a, d) < Shift(j, a, d)
  BY Shifted
<1>2. \A i \in 1..Len(x) : /\ x[i].section # NULL => x[i].id = NULL
                           /\ x[i].id # NULL => x[i].id.mark # "quoted"
  BY <1>1 DEF Tidy
<1>3. \A i, j \in 1..Len(x) : i < j => x[i].section = NULL \/ x[i].section # x[j].section
  BY <1>1 DEF Tidy
<1>4. ASSUME NEW i \in 1..Len(x), NEW j \in 1..Len(x), NEW k \in Key,
             i < j, x[i].id = Plain(k), x[j].id = Plain(k)
      PROVE  \E l \in i + 1..j : x[l].section # NULL
  <2>0. d \in Nat /\ a \in Nat
    BY DEF Without
  <2>1. PICK l \in Shift(i, a, d) + 1..Shift(j, a, d) : y[l].section # NULL
    BY <1>1, <1>4, ZenonT(60) DEF Tidy
  <2>2. l \in 1..Len(y)
    BY <1>1, <2>1
  <2>3. CASE l \in a..a + d - 1
    <3>1. i < a /\ a <= j
      BY <2>0, <2>1, <2>3 DEF Shift
    <3>2. x[j].id # NULL
      BY <1>4, PlainKeys
    <3>3. PICK h \in a..j : x[h].section # NULL
      BY <2>1, <2>3, <3>1, <3>2 DEF Apart
    <3>4. h \in i + 1..j
      BY <2>0, <3>1, <3>3
    <3> QED BY <3>3, <3>4
  <2>4. CASE l \notin a..a + d - 1
    <3>1. PICK h \in 1..Len(x) : l = Shift(h, a, d)
      BY <2>2, <2>4, Shifted
    <3>2. h \in i + 1..j
      BY <2>0, <2>1, <3>1 DEF Shift
    <3> QED BY <1>1, <2>1, <3>1, <3>2
  <2> QED BY <2>3, <2>4
<1> QED BY <1>2, <1>3, <1>4 DEF Tidy
(* An entry is under one section, and a section has a key once.            *)
LEMMA OneHome ==
  ASSUME NEW t \in Seq(Entry), NEW p \in 1..Len(t), NEW q \in 1..Len(t), NEW j \in 1..Len(t),
         NEW s \in Section, NEW r \in Section, NEW k \in Key, NEW m \in Key,
         At(t, p, j, s, k), At(t, q, j, r, m)
  PROVE  p = q /\ s = r /\ k = m
<1>1. t[p].section # NULL /\ t[q].section # NULL
  BY NullAssumption DEF At
<1>2. ~(p < q) /\ ~(q < p)
  BY <1>1 DEF At, Under
<1>3. p = q
  BY <1>2
<1> QED BY <1>3, PlainKeys DEF At

LEMMA OneItem ==
  ASSUME NEW t \in Seq(Entry), Tidy(t), NEW s \in Section, NEW k \in Key,
         NEW p \in 1..Len(t), NEW q \in 1..Len(t), NEW j \in 1..Len(t), NEW h \in 1..Len(t),
         At(t, p, j, s, k), At(t, q, h, s, k)
  PROVE  p = q /\ j = h
<1>1. p = q
  BY OneSection DEF At
<1>2. /\ \A l \in p + 1..j : t[l].section = NULL
      /\ \A l \in p + 1..h : t[l].section = NULL
      /\ j > p /\ h > p /\ t[j].id = Plain(k) /\ t[h].id = Plain(k)
  BY <1>1 DEF At, Under
<1>3. ~(j < h) /\ ~(h < j)
  BY <1>2 DEF Tidy
<1> QED BY <1>1, <1>3

(* An item none of whose entries is taken away stays as it is.             *)
LEMMA FindWithout ==
  ASSUME NEW x \in Seq(Entry), NEW y \in Seq(Entry), NEW a, NEW d, Without(x, y, a, d),
         Apart(x, y, a, d), Tidy(x), Tidy(y), NEW s \in Section, NEW k \in Key,
         \A p, j \in 1..Len(y) :
           At(y, p, j, s, k) => p \notin a..a + d - 1 /\ j \notin a..a + d - 1
  PROVE  Find(x, s, k) = Find(y, s, k)
<1>1. ASSUME NEW v \in Value, Has(x, s, k, v)
      PROVE  Has(y, s, k, v)
  <2>1. PICK p, j \in 1..Len(x) : At(x, p, j, s, k) /\ x[j].value = v
    BY <1>1 DEF Has
  <2>2. At(y, Shift(p, a, d), Shift(j, a, d), s, k)
    BY <2>1, AtShifted
  <2> QED BY <2>1, <2>2, Shifted DEF Has
<1>2. ASSUME NEW v \in Value, Has(y, s, k, v)
      PROVE  Has(x, s, k, v)
  <2>1. PICK p, j \in 1..Len(y) : At(y, p, j, s, k) /\ y[j].value = v
    BY <1>2 DEF Has
  <2>2. PICK P \in 1..Len(x), J \in 1..Len(x) : p = Shift(P, a, d) /\ j = Shift(J, a, d)
    BY <2>1, Shifted
  <2>3. At(x, P, J, s, k)
    BY <2>1, <2>2, AtShifted
  <2> QED BY <2>1, <2>2, <2>3, Shifted DEF Has
<1> QED BY <1>1, <1>2, SameItem

(* An item that is taken away is gone.                                     *)
LEMMA FindGone ==
  ASSUME NEW x \in Seq(Entry), NEW y \in Seq(Entry), NEW a, NEW d, Without(x, y, a, d),
         Apart(x, y, a, d), Tidy(x), Tidy(y), NEW s \in Section, NEW k \in Key,
         \A p, j \in 1..Len(y) :
           At(y, p, j, s, k) => p \in a..a + d - 1 \/ j \in a..a + d - 1
  PROVE  Find(x, s, k) = NULL
<1>1. ASSUME NEW p \in 1..Len(x), NEW j \in 1..Len(x), At(x, p, j, s, k)
      PROVE  FALSE
  <2>1. At(y, Shift(p, a, d), Shift(j, a, d), s, k)
    BY <1>1, AtShifted
  <2>2. /\ Shift(p, a, d) \in 1..Len(y) \ a..a + d - 1
        /\ Shift(j, a, d) \in 1..Len(y) \ a..a + d - 1
    BY Shifted
  <2> QED BY <2>1, <2>2
<1> QED BY <1>1, FoundNowhere
-----------------------------------------------------------------------------
(* What each edit makes of a tidy table.                                   *)

LEMMA UpdatedItem ==
  ASSUME NEW t \in Seq(Entry), Tidy(t), NEW i \in 1..Len(t), NEW h \in Key, NEW v \in Value,
         t[i].id = Plain(h)
  PROVE  /\ Tidy(Valued(t, i, v))
         /\ \A s \in Section, k \in Key :
              Find(Valued(t, i, v), s, k) =
                IF \E p \in 1..Len(t) : At(t, p, i, s, k) THEN v ELSE Find(t, s, k)
<1> DEFINE u == Valued(t, i, v)
<1>1. u \in Seq(Entry) /\ Len(u) = Len(t) /\ u = [t EXCEPT ![i] = [t[i] EXCEPT !.value = v]]
  BY Updated DEF Valued
<1>2. t[i] \in Entry /\ [t[i] EXCEPT !.value = v].value = v
         /\ [t[i] EXCEPT !.value = v].section = t[i].section
         /\ [t[i] EXCEPT !.value = v].id = t[i].id
  BY DEF Entry
<1>3. \A j \in 1..Len(t) : /\ u[j].section = t[j].section /\ u[j].id = t[j].id
                           /\ u[j].value = IF j = i THEN v ELSE t[j].value
  BY <1>1, <1>2
<1> HIDE DEF u
<1>4. Tidy(u)
  <2>1. /\ \A j \in 1..Len(u) : /\ u[j].section # NULL => u[j].id = NULL
                                /\ u[j].id # NULL => u[j].id.mark # "quoted"
        /\ \A g, j \in 1..Len(u) : g < j => u[g].section = NULL \/ u[g].section # u[j].section
    BY <1>1, <1>3 DEF Tidy
  <2>2. ASSUME NEW g \in 1..Len(u), NEW j \in 1..Len(u), NEW k \in Key,
               g < j, u[g].id = Plain(k), u[j].id = Plain(k)
        PROVE  \E l \in g + 1..j : u[l].section # NULL
    <3>1. PICK l \in g + 1..j : t[l].section # NULL
      BY <1>1, <1>3, <2>2 DEF Tidy
    <3> QED BY <1>1, <1>3, <3>1
  <2> QED BY <2>1, <2>2 DEF Tidy
<1>5. \A p, j \in 1..Len(t), s \in Section, k \in Key : At(u, p, j, s, k) <=> At(t, p, j, s, k)
  BY <1>1, <1>3 DEF At, Under
<1>6. ASSUME NEW s \in Section, NEW k \in Key
      PROVE  Find(u, s, k) = IF \E p \in 1..Len(t) : At(t, p, i, s, k) THEN v ELSE Find(t, s, k)
  <2>1. ASSUME NEW p \in 1..Len(t), At(t, p, i, s, k)
        PROVE  Find(u, s, k) = v
    <3>1. At(u, p, i, s, k)
      BY <1>5, <2>1
    <3>2. u[i].value = v /\ i \in 1..Len(u) /\ p \in 1..Len(u) /\ u \in Seq(Entry)
      BY <1>1, <1>3
    <3> QED BY <1>4, <3>1, <3>2, FoundAt
  <2>2. ASSUME ~\E p \in 1..Len(t) : At(t, p, i, s, k)
        PROVE  Find(u, s, k) = Find(t, s, k)
    <3>1. \A p, j \in 1..Len(t) : At(t, p, j, s, k) => u[j].value = t[j].value
      BY <1>3, <2>2
    <3>2. \A w \in Value : Has(u, s, k, w) <=> Has(t, s, k, w)
      BY <1>1, <1>5, <3>1 DEF Has
    <3> QED BY <1>1, <1>4, <3>2, SameItem
  <2> QED BY <2>1, <2>2
<1> QED BY <1>4, <1>6 DEF u

LEMMA PairIs ==
  ASSUME NEW k \in Key, NEW v \in Value
  PROVE  /\ Pair(k, v) \in Entry /\ Pair(k, v).section = NULL
         /\ Pair(k, v).id = Plain(k) /\ Pair(k, v).value = v
BY Entries DEF Pair, NoEntry

LEMMA SectionIs ==
  ASSUME NEW s \in Section
  PROVE  /\ SectionOf(s) \in Entry /\ SectionOf(s).section = s
         /\ SectionOf(s).id = NULL /\ SectionOf(s).value = NULL
BY Entries DEF SectionOf, NoEntry
(* A new key goes to the end of its section.                               *)
LEMMA InsertedItem ==
  ASSUME NEW t \in Seq(Entry), Tidy(t), NEW s \in Section, NEW k \in Key, NEW v \in Value,
         NEW p \in 1..Len(t), t[p].section = s,
         NEW n \in p + 1..Len(t) + 1,
         \A i \in p + 1..n - 1 : t[i].section = NULL /\ t[i].id # Plain(k),
         n <= Len(t) => t[n].section # NULL,
         NEW u \in Seq(Entry), Without(t, u, n, 1), u[n] = Pair(k, v)
  PROVE  /\ Tidy(u)
         /\ \A r \in Section, m \in Key :
              Find(u, r, m) = IF r = s /\ m = k THEN v ELSE Find(t, r, m)
<1>1. /\ n \in 1..Len(u) /\ Len(u) = Len(t) + 1 /\ n..n + 1 - 1 = {n}
      /\ u[n].section = NULL /\ u[n].id = Plain(k) /\ u[n].value = v
      /\ s # NULL /\ t[p].id = NULL
  BY PairIs, NullAssumption DEF Without, Tidy
<1>2. /\ \A i \in 1..Len(t) : Shift(i, n, 1) \in 1..Len(u) \ {n} /\ t[i] = u[Shift(i, n, 1)]
      /\ \A l \in 1..Len(u) \ {n} : \E i \in 1..Len(t) : l = Shift(i, n, 1)
  BY <1>1, Shifted
<1>3. Apart(t, u, n, 1)
  BY <1>1 DEF Apart
<1>4. Tidy(u)
  <2>1. \A j \in 1..Len(u) : /\ u[j].section # NULL => u[j].id = NULL
                             /\ u[j].id # NULL => u[j].id.mark # "quoted"
    <3> TAKE j \in 1..Len(u)
    <3>1. CASE j = n
      BY <1>1, <3>1, PlainKeys
    <3>2. CASE j # n
      <4>1. PICK g \in 1..Len(t) : u[j] = t[g]
        BY <1>2, <3>2
      <4> QED BY <4>1 DEF Tidy
    <3> QED BY <3>1, <3>2
  <2>2. ASSUME NEW i \in 1..Len(u), NEW j \in 1..Len(u), i < j,
               u[i].section # NULL, u[i].section = u[j].section
        PROVE  FALSE
    <3>1. i # n /\ j # n
      BY <1>1, <2>2
    <3>2. PICK g, h \in 1..Len(t) : i = Shift(g, n, 1) /\ j = Shift(h, n, 1)
      BY <1>2, <3>1
    <3>3. g < h
      BY <2>2, <3>2 DEF Shift
    <3>4. t[g].section # NULL /\ t[g].section = t[h].section
      BY <1>2, <2>2, <3>2
    <3> QED BY <3>3, <3>4 DEF Tidy
  <2>3. ASSUME NEW i \in 1..Len(u), NEW j \in 1..Len(u), NEW m \in Key,
               i < j, u[i].id = Plain(m), u[j].id = Plain(m)
        PROVE  \E l \in i + 1..j : u[l].section # NULL
    <3>1. CASE i # n /\ j # n
      <4>1. PICK g, h \in 1..Len(t) : i = Shift(g, n, 1) /\ j = Shift(h, n, 1)
        BY <1>2, <3>1
      <4>2. g < h
        BY <2>3, <4>1 DEF Shift
      <4>3. t[g].id = Plain(m) /\ t[h].id = Plain(m)
        BY <1>2, <2>3, <4>1
      <4>4. PICK l \in g + 1..h : t[l].section # NULL
        BY <4>2, <4>3 DEF Tidy
      <4>5. Shift(l, n, 1) \in i + 1..j /\ l \in 1..Len(t)
        BY <4>1, <4>4 DEF Shift
      <4> QED BY <1>2, <4>4, <4>5
    <3>2. CASE j = n
      <4>1. m = k /\ Shift(i, n, 1) = i /\ i \in 1..Len(t) /\ t[i].id = Plain(k)
        BY <1>1, <1>2, <2>3, <3>2, PlainKeys DEF Shift
      <4>2. i < p
        BY <1>1, <3>2, <2>3, <4>1, PlainKeys
      <4>3. Shift(p, n, 1) = p /\ p \in i + 1..j
        BY <3>2, <4>2 DEF Shift
      <4> QED BY <1>1, <1>2, <4>3
    <3>3. CASE i = n
      <4>1. n \in 1..Len(t) /\ Shift(n, n, 1) = n + 1 /\ n + 1 \in i + 1..j
        BY <1>1, <2>3, <3>3 DEF Shift
      <4>2. t[n] = u[Shift(n, n, 1)]
        BY <1>2, <4>1
      <4>3. t[n] = u[n + 1] /\ n <= Len(t)
        BY <4>1, <4>2
      <4> QED BY <4>1, <4>3
    <3> QED BY <2>3, <3>1, <3>2, <3>3
  <2> QED BY <2>1, <2>2, <2>3 DEF Tidy
<1>5. At(u, p, n, s, k)
  <2>1. \A l \in p + 1..n - 1 : Shift(l, n, 1) = l /\ l \in 1..Len(t)
    BY DEF Shift
  <2>2. Shift(p, n, 1) = p
    BY DEF Shift
  <2>3. \A l \in p + 1..n : u[l].section = NULL
    <3> TAKE l \in p + 1..n
    <3>1. CASE l = n
      BY <1>1, <3>1
    <3>2. CASE l # n
      <4>1. l \in p + 1..n - 1
        BY <3>2
      <4>2. u[l] = t[l] /\ t[l].section = NULL
        BY <1>2, <2>1, <4>1
      <4> QED BY <4>2
    <3> QED BY <3>1, <3>2
  <2> QED BY <1>1, <1>2, <2>2, <2>3 DEF At, Under
<1>6. Find(u, s, k) = v
  BY <1>1, <1>4, <1>5, FoundAt
<1>7. ASSUME NEW r \in Section, NEW m \in Key, ~(r = s /\ m = k)
      PROVE  Find(t, r, m) = Find(u, r, m)
  <2>1. ASSUME NEW q \in 1..Len(u), NEW j \in 1..Len(u), At(u, q, j, r, m)
        PROVE  q \notin n..n + 1 - 1 /\ j \notin n..n + 1 - 1
    <3>1. q # n
      BY <1>1, <2>1, NullAssumption DEF At
    <3>2. j # n
      BY <1>1, <1>5, <1>7, <2>1, OneHome
    <3> QED BY <1>1, <3>1, <3>2
  <2> QED BY <1>3, <1>4, <2>1, FindWithout
<1> QED BY <1>4, <1>6, <1>7

(* A new section goes to the end of the file, with its first key.          *)
LEMMA AppendedSection ==
  ASSUME NEW t \in Seq(Entry), Tidy(t), NEW s \in Section, NEW k \in Key, NEW v \in Value,
         \A i \in 1..Len(t) : t[i].section # s
  PROVE  LET u == t \o <<SectionOf(s), Pair(k, v)>>
         IN  /\ Tidy(u)
             /\ \A r \in Section, m \in Key :
                  Find(u, r, m) = IF r = s /\ m = k THEN v ELSE Find(t, r, m)
<1> DEFINE u == t \o <<SectionOf(s), Pair(k, v)>>
           n == Len(t)
<1>1. /\ u \in Seq(Entry) /\ Len(u) = n + 2 /\ n \in Nat
      /\ \A i \in 1..n : u[i] = t[i]
      /\ u[n + 1] = SectionOf(s) /\ u[n + 2] = Pair(k, v)
  BY Appended, PairIs, SectionIs
<1>2. /\ u[n + 1].section = s /\ u[n + 1].id = NULL
      /\ u[n + 2].section = NULL /\ u[n + 2].id = Plain(k) /\ u[n + 2].value = v
      /\ s # NULL
  BY <1>1, PairIs, SectionIs, NullAssumption
<1> HIDE DEF u
<1>3. \A i \in 1..Len(u) : i \in 1..n \/ i = n + 1 \/ i = n + 2
  BY <1>1
<1>4. Tidy(u)
  <2>1. \A j \in 1..Len(u) : /\ u[j].section # NULL => u[j].id = NULL
                             /\ u[j].id # NULL => u[j].id.mark # "quoted"
    BY <1>1, <1>2, <1>3, PlainKeys DEF Tidy
  <2>2. ASSUME NEW i \in 1..Len(u), NEW j \in 1..Len(u), i < j
        PROVE  u[i].section = NULL \/ u[i].section # u[j].section
    <3>1. CASE j \in 1..n
      BY <1>1, <2>2, <3>1 DEF Tidy
    <3>2. CASE j = n + 1
      BY <1>1, <1>2, <2>2, <3>2
    <3>3. CASE j = n + 2
      BY <1>2, <3>3
    <3> QED BY <1>3, <3>1, <3>2, <3>3
  <2>3. ASSUME NEW i \in 1..Len(u), NEW j \in 1..Len(u), NEW m \in Key,
               i < j, u[i].id = Plain(m), u[j].id = Plain(m)
        PROVE  \E l \in i + 1..j : u[l].section # NULL
    <3>1. CASE j \in 1..n
      <4>1. PICK l \in i + 1..j : t[l].section # NULL
        BY <1>1, <2>3, <3>1, SMTT(30) DEF Tidy
      <4> QED BY <1>1, <3>1, <4>1
    <3>2. j # n + 1 /\ i # n + 1
      BY <1>2, <2>3, PlainKeys
    <3>3. CASE j = n + 2
      <4>1. n + 1 \in i + 1..j
        BY <1>1, <1>3, <2>3, <3>2, <3>3
      <4> QED BY <1>2, <4>1
    <3> QED BY <1>3, <3>1, <3>2, <3>3
  <2> QED BY <2>1, <2>2, <2>3 DEF Tidy
<1>5. At(u, n + 1, n + 2, s, k)
  BY <1>1, <1>2 DEF At, Under
<1>6. Find(u, s, k) = v
  BY <1>1, <1>2, <1>4, <1>5, FoundAt
<1>7. ASSUME NEW r \in Section, NEW m \in Key, ~(r = s /\ m = k)
      PROVE  Find(t, r, m) = Find(u, r, m)
  <2>1. ASSUME NEW q \in 1..Len(u), NEW j \in 1..Len(u), At(u, q, j, r, m)
        PROVE  q \notin n + 1..n + 1 + 2 - 1 /\ j \notin n + 1..n + 1 + 2 - 1
    <3>1. j # n + 1
      BY <1>2, <2>1, PlainKeys DEF At
    <3>2. j # n + 2
      BY <1>1, <1>5, <1>7, <2>1, OneHome
    <3>3. j \in 1..n /\ q < j
      BY <1>1, <1>3, <2>1, <3>1, <3>2 DEF At, Under
    <3> QED BY <1>1, <3>3
  <2>2. Without(t, u, n + 1, 2)
    BY <1>1 DEF Without, Shift
  <2>3. Apart(t, u, n + 1, 2)
    BY <1>1, <1>2 DEF Apart
  <2> QED BY <1>1, <1>4, <2>1, <2>2, <2>3, FindWithout
<1> QED BY <1>4, <1>6, <1>7 DEF u

(* A key goes with the remarks right above it, which are no items.         *)
LEMMA RemovedKey ==
  ASSUME NEW t \in Seq(Entry), Tidy(t), NEW s \in Section, NEW k \in Key,
         NEW p \in 1..Len(t), NEW i \in 1..Len(t), At(t, p, i, s, k),
         NEW a \in 1..i, Remarks(t, a, i),
         NEW b, b = i + 1, NEW u \in Seq(Entry), Without(u, t, a, b - a)
  PROVE  /\ Tidy(u)
         /\ \A r \in Section, m \in Key :
              Find(u, r, m) = IF r = s /\ m = k THEN NULL ELSE Find(t, r, m)
<1> DEFINE d == b - a
<1>1. a + d - 1 = i /\ i \in a..a + d - 1
  OBVIOUS
<1>2. t[i].section = NULL
  BY DEF At, Under
<1>3. \A j \in a..i : t[j].section = NULL /\ (j = i \/ t[j].id = NULL)
  BY <1>2, BlockIsNoSection DEF Remarks
<1>4. Apart(u, t, a, d)
  BY <1>1, <1>3 DEF Apart
<1>5. Without(u, t, a, d)
  OBVIOUS
<1> HIDE DEF d
<1>6. Tidy(u)
  BY <1>4, <1>5, TidyWithout
<1>7. ASSUME NEW r \in Section, NEW m \in Key, ~(r = s /\ m = k)
      PROVE  Find(u, r, m) = Find(t, r, m)
  <2>1. ASSUME NEW q \in 1..Len(t), NEW j \in 1..Len(t), At(t, q, j, r, m)
        PROVE  q \notin a..a + d - 1 /\ j \notin a..a + d - 1
    <3>1. t[q].section # NULL /\ t[j].id # NULL
      BY <2>1, NullAssumption, PlainKeys DEF At
    <3>2. j # i
      BY <1>7, <2>1, OneHome
    <3> QED BY <1>1, <1>3, <3>1, <3>2
  <2> QED BY <1>4, <1>5, <1>6, <2>1, FindWithout
<1>8. Find(u, s, k) = NULL
  <2>1. \A q, j \in 1..Len(t) : At(t, q, j, s, k) => j = i
    BY OneItem
  <2>2. \A q, j \in 1..Len(t) :
          At(t, q, j, s, k) => q \in a..a + d - 1 \/ j \in a..a + d - 1
    BY <1>1, <2>1
  <2> QED BY <1>4, <1>5, <1>6, <2>2, FindGone
<1> QED BY <1>6, <1>7, <1>8

(* A section goes with the remarks above it; those above the next one stay,*)
(* and are no items of the section before.                                 *)
LEMMA RemovedSection ==
  ASSUME NEW t \in Seq(Entry), Tidy(t), NEW s \in Section,
         NEW p \in 1..Len(t), t[p].section = s,
         NEW n, Ends(t, p, n),
         NEW a \in 1..p, Remarks(t, a, p),
         NEW b \in p + 1..n, Remarks(t, b, n),
         NEW u \in Seq(Entry), Without(u, t, a, b - a)
  PROVE  /\ Tidy(u)
         /\ \A r \in Section, m \in Key :
              Find(u, r, m) = IF r = s THEN NULL ELSE Find(t, r, m)
<1> USE DEF Remarks
<1>0. /\ n \in p + 1..Len(t) + 1
      /\ n <= Len(t) => t[n].section # NULL
      /\ \A i \in p + 1..n - 1 : t[i].section = NULL
  BY DEF Ends
<1> DEFINE d == b - a
<1>1. a + d - 1 = b - 1 /\ d \in Nat /\ p \in a..a + d - 1 /\ Len(t) = Len(u) + d
         /\ a \in Nat /\ b \in Nat /\ p \in Nat /\ n \in Nat /\ b = a + d /\ Len(t) \in Nat
  BY <1>0 DEF Without
<1>2. s # NULL
  BY NullAssumption
<1>3. Without(u, t, a, d)
  OBVIOUS
<1> HIDE DEF d
<1>4. Apart(u, t, a, d)
  <2>1. ASSUME NEW j \in a..Len(u), \A h \in a..j : u[h].section = NULL
        PROVE  u[j].id = NULL
    <3>1. \A h \in a..j : h \in 1..Len(u) /\ Shift(h, a, d) = h + d /\ u[h] = t[h + d]
      <4>1. \A h \in 1..Len(u) : u[h] = t[Shift(h, a, d)]
        BY <1>3 DEF Without
      <4>2. \A h \in a..j : h \in 1..Len(u) /\ Shift(h, a, d) = h + d
        BY <1>1 DEF Shift
      <4> QED BY <4>1, <4>2
    <3>2. j + d < n
      <4>1. CASE n > Len(t)
        BY <1>1, <4>1
      <4>2. CASE n <= Len(t) /\ n <= j + d
        <5>1. n - d \in a..j /\ (n - d) + d = n
          BY <1>0, <1>1, <4>2
        <5>2. u[n - d] = t[n] /\ u[n - d].section = NULL
          BY <2>1, <3>1, <5>1
        <5> QED BY <1>0, <4>2, <5>2
      <4> QED BY <1>0, <1>1, <4>1, <4>2
    <3>3. j + d \in b..n - 1 /\ j \in a..j
      BY <1>1, <3>2
    <3> QED BY <3>1, <3>3, BlockIsNoSection
  <2> QED BY <1>1, <1>2, <2>1 DEF Apart
<1>5. Tidy(u)
  BY <1>3, <1>4, TidyWithout
<1>6. ASSUME NEW q \in 1..Len(t), NEW j \in 1..Len(t), NEW r \in Section, NEW m \in Key,
             At(t, q, j, r, m)
      PROVE  /\ q \in a..a + d - 1 => r = s
             /\ j \in a..a + d - 1 => r = s
             /\ r = s => q \in a..a + d - 1
  <2>1. t[q].section = r /\ r # NULL /\ t[j].id # NULL /\ q < j
           /\ \A l \in q + 1..j : t[l].section = NULL
    BY <1>6, NullAssumption, PlainKeys DEF At, Under
  <2>2. q \in a..a + d - 1 => q = p
    <3>1. q \in a..p - 1 => FALSE
      BY <2>1, BlockIsNoSection
    <3>2. q \in p + 1..n - 1 => FALSE
      BY <1>0, <2>1
    <3> QED BY <1>1, <3>1, <3>2
  <2>3. j \in a..a + d - 1 => q = p
    <3>1. j \in a..p - 1 => FALSE
      BY <2>1, BlockIsNoSection
    <3>2. j # p
      BY <1>2, <2>1
    <3>3. ASSUME j \in p + 1..b - 1
          PROVE  q = p
      <4>1. ~(q < p)
        BY <1>2, <2>1, <3>3
      <4>2. ~(q > p)
        <5>1. q > p => q \in p + 1..n - 1
          BY <1>0, <2>1, <3>3
        <5> QED BY <1>0, <2>1, <5>1
      <4> QED BY <4>1, <4>2
    <3> QED BY <1>1, <3>1, <3>2, <3>3
  <2>4. r = s => q = p
    <3>1. r = s => SectionAt(t, s) = q
      BY <2>1, OneSection
    <3>2. SectionAt(t, s) = p
      BY OneSection
    <3> QED BY <3>1, <3>2
  <2> QED BY <1>1, <2>1, <2>2, <2>3, <2>4
<1>7. ASSUME NEW r \in Section, NEW m \in Key, r # s
      PROVE  Find(u, r, m) = Find(t, r, m)
  <2>1. \A q, j \in 1..Len(t) :
          At(t, q, j, r, m) => q \notin a..a + d - 1 /\ j \notin a..a + d - 1
    BY <1>6, <1>7
  <2> QED BY <1>3, <1>4, <1>5, <2>1, FindWithout
<1>8. ASSUME NEW m \in Key
      PROVE  Find(u, s, m) = NULL
  <2>1. \A q, j \in 1..Len(t) :
          At(t, q, j, s, m) => q \in a..a + d - 1 \/ j \in a..a + d - 1
    BY <1>6
  <2> QED BY <1>3, <1>4, <1>5, <2>1, FindGone
<1> QED BY <1>5, <1>7, <1>8
-----------------------------------------------------------------------------
(* The calls, on a tidy table: what cfg_find sees afterwards.              *)

(* Update: the value of one entry.                                         *)
LEMMA ItemUpdated ==
  ASSUME NEW t \in Seq(Entry), Tidy(t), NEW s \in Section, NEW k \in Key, NEW v \in Value,
         SectionAt(t, s) # 0, KeyAt(t, SectionAt(t, s), k) # 0,
         NEW u, u = Valued(t, KeyAt(t, SectionAt(t, s), k), v)
  PROVE  /\ Tidy(u)
         /\ \A r \in Section, m \in Key :
              Find(u, r, m) = IF r = s /\ m = k THEN v ELSE Find(t, r, m)
<1> DEFINE p == SectionAt(t, s)
           i == KeyAt(t, p, k)
<1>1. p \in 1..Len(t) /\ t[p].section = s
  BY SectionAtFinds
<1>2. i \in Body(t, p) /\ i \in 1..Len(t) /\ t[i].id = Plain(k)
  <2>1. i # 0
    OBVIOUS
  <2> HIDE DEF p
  <2> QED BY <1>1, <2>1, KeyAtFinds
<1>3. u = Valued(t, i, v)
  OBVIOUS
<1> HIDE DEF p, i
<1>4. At(t, p, i, s, k)
  BY <1>1, <1>2, BodyIsUnder DEF At
<1>5. \A r \in Section, m \in Key :
        (\E q \in 1..Len(t) : At(t, q, i, r, m)) <=> r = s /\ m = k
  BY <1>1, <1>2, <1>4, OneHome
<1>6. /\ Tidy(u)
      /\ \A r \in Section, m \in Key :
           Find(u, r, m) = IF \E q \in 1..Len(t) : At(t, q, i, r, m) THEN v ELSE Find(t, r, m)
  BY <1>2, <1>3, UpdatedItem
<1> QED BY <1>5, <1>6

(* cfg_write(section, id, value), in each of its four ways.                *)
LEMMA SetReaches ==
  ASSUME TypeOK, Tidy(table), NEW s \in Section, NEW k \in Key, NEW v \in Value,
         Set(s, k, v), table' # NULL
  PROVE  /\ Tidy(table')
         /\ \A r \in Section, m \in Key :
              Find(table', r, m) = IF r = s /\ m = k THEN v ELSE Find(table, r, m)
<1> DEFINE p == SectionAt(table, s)
           i == KeyAt(table, p, k)
           n == NextSection(table, p)
<1>1. table # NULL /\ table \in Seq(Entry)
  BY DEF TypeOK, Set, AddSection, Update, Insert, AppendKey
<1>2. table' \in Seq(Entry)
  BY SetTypes DEF TypeOK
<1>3. \/ p = 0 /\ \A j \in 1..Len(table) : table[j].section # s
      \/ p \in 1..Len(table) /\ table[p].section = s
  BY <1>1, SectionAtFinds
<1>4. CASE AddSection(s, k, v)
  <2>1. p = 0 /\ table' = table \o <<SectionOf(s), Pair(k, v)>>
    BY <1>4 DEF AddSection, Changed
  <2>2. \A j \in 1..Len(table) : table[j].section # s
    BY <1>3, <2>1
  <2> QED BY <1>1, <2>1, <2>2, AppendedSection
<1>5. CASE Update(s, k, v)
  <2>1. p # 0 /\ i # 0 /\ table' = Valued(table, i, v)
    BY <1>5 DEF Update, Changed, Valued
  <2> QED BY <1>1, <2>1, ItemUpdated
<1>6. CASE Insert(s, k, v) \/ AppendKey(s, k, v)
  <2>1. /\ p # 0 /\ i = 0
        /\ \/ table' = InsertAt(table, n, Pair(k, v)) /\ n <= Len(table)
           \/ table' = Append(table, Pair(k, v)) /\ n = Len(table) + 1
    BY <1>6 DEF Insert, AppendKey, Changed, Crash, Drop
  <2>2. p \in 1..Len(table) /\ table[p].section = s
    BY <1>3, <2>1
  <2>3. /\ n \in p + 1..Len(table) + 1
        /\ \A j \in p + 1..n - 1 : table[j].section = NULL
        /\ n <= Len(table) => table[n].section # NULL
    <3> HIDE DEF p
    <3> QED BY <1>1, <2>2, NextSectionFinds
  <2>4. \A j \in p + 1..n - 1 : table[j].id # Plain(k)
    <3>1. Body(table, p) = p + 1..n - 1
      BY DEF Body
    <3>2. i = 0 => \A j \in Body(table, p) : table[j].id # Plain(k)
      <4> HIDE DEF p
      <4>1. \A j \in Body(table, p) : j # 0
        BY <1>1, <2>2, BodyIsBelow
      <4> QED BY <1>1, <2>2, <4>1, KeyAtFinds
    <3> QED BY <2>1, <3>1, <3>2
  <2> HIDE DEF p, i, n
  <2>5. Pair(k, v) \in Entry
    BY PairIs
  <2>6. Without(table, table', n, 1) /\ table'[n] = Pair(k, v)
    <3>1. CASE table' = InsertAt(table, n, Pair(k, v)) /\ n <= Len(table)
      <4>1. n \in 1..Len(table)
        BY <1>1, <2>2, <2>3, <3>1
      <4>2. /\ Len(table') = Len(table) + 1
            /\ \A j \in 1..Len(table) + 1 :
                 table'[j] = IF j < n THEN table[j] ELSE IF j = n THEN Pair(k, v) ELSE table[j - 1]
        BY <1>1, <2>5, <3>1, <4>1, Inserted
      <4>3. \A j \in 1..Len(table) : table[j] = table'[Shift(j, n, 1)]
        BY <1>1, <4>1, <4>2 DEF Shift
      <4> QED BY <1>1, <4>1, <4>2, <4>3 DEF Without
    <3>2. CASE table' = Append(table, Pair(k, v)) /\ n = Len(table) + 1
      BY <1>1, <2>5, <3>2 DEF Without, Shift
    <3> QED BY <2>1, <3>1, <3>2
  <2> QED BY <1>1, <1>2, <2>2, <2>3, <2>4, <2>6, InsertedItem
<1> QED BY <1>4, <1>5, <1>6 DEF Set

LEMMA DeletedIsWithout ==
  ASSUME NEW t \in Seq(Entry), NEW a \in 1..Len(t) + 1, NEW b \in a..Len(t) + 1
  PROVE  Cut(t, a, b) \in Seq(Entry) /\ Without(Cut(t, a, b), t, a, b - a)
<1> DEFINE u == Cut(t, a, b)
<1>1. /\ u \in Seq(Entry)
      /\ Len(u) = Len(t) - (b - a)
      /\ \A i \in 1..Len(u) : u[i] = t[IF i < a THEN i ELSE i + (b - a)]
  BY Deleted DEF Cut
<1> HIDE DEF u
<1>2. b - a \in Nat /\ a \in 1..Len(u) + 1 /\ Len(t) = Len(u) + (b - a)
  BY <1>1
<1>3. u \in Seq(Entry) /\ Without(u, t, a, b - a)
  BY <1>1, <1>2 DEF Without, Shift
<1> QED BY <1>3 DEF u

LEMMA KeyRemoved ==
  ASSUME NEW t \in Seq(Entry), Tidy(t), NEW s \in Section, NEW k \in Key,
         SectionAt(t, s) # 0, KeyAt(t, SectionAt(t, s), k) # 0,
         NEW i, i = KeyAt(t, SectionAt(t, s), k),
         NEW u, u = Cut(t, NotesAbove(t, i), i + 1)
  PROVE  /\ Tidy(u)
         /\ \A r \in Section, m \in Key :
              Find(u, r, m) = IF r = s /\ m = k THEN NULL ELSE Find(t, r, m)
<1> DEFINE p == SectionAt(t, s)
           a == NotesAbove(t, i)
<1>1. p # 0 /\ i = KeyAt(t, p, k) /\ i # 0 /\ u = Cut(t, a, i + 1)
  OBVIOUS
<1>2. p \in 1..Len(t) /\ t[p].section = s
  BY <1>1, SectionAtFinds
<1>3. i \in Body(t, p) /\ i \in 1..Len(t) /\ t[i].id = Plain(k)
  <2> HIDE DEF p
  <2> QED BY <1>1, <1>2, KeyAtFinds
<1>4. a \in 1..i /\ Remarks(t, a, i)
  BY <1>3, NotesAboveFinds DEF Remarks
<1> DEFINE b == i + 1
<1> HIDE DEF p, a
<1>5. At(t, p, i, s, k)
  BY <1>2, <1>3, BodyIsUnder DEF At
<1>6. a \in 1..Len(t) + 1 /\ b \in a..Len(t) + 1 /\ u = Cut(t, a, b) /\ b = i + 1
  BY <1>1, <1>3, <1>4
<1> HIDE DEF b
<1>7. u \in Seq(Entry) /\ Without(u, t, a, b - a)
  BY <1>6, DeletedIsWithout
<1>8. a \in 1..i /\ i \in 1..Len(t) /\ p \in 1..Len(t)
  BY <1>2, <1>3, <1>4
<1> QED BY ONLY t \in Seq(Entry), Tidy(t), s \in Section, k \in Key,
                <1>4, <1>5, <1>6, <1>7, <1>8, RemovedKey

(* cfg_write(section, id, NULL).                                           *)
LEMMA RemoveKeyReaches ==
  ASSUME TypeOK, Tidy(table), NEW s \in Section, NEW k \in Key, RemoveKey(s, k)
  PROVE  /\ Tidy(table')
         /\ \A r \in Section, m \in Key :
              Find(table', r, m) = IF r = s /\ m = k THEN NULL ELSE Find(table, r, m)
<1>1. table # NULL /\ table \in Seq(Entry)
  BY DEF TypeOK, RemoveKey
<1> DEFINE p == SectionAt(table, s)
           i == KeyAt(table, p, k)
<1>2. p # 0 /\ i # 0 /\ table' = Cut(table, NotesAbove(table, i), i + 1)
  BY DEF RemoveKey, Delete, Changed, Cut
<1> QED BY <1>1, <1>2, KeyRemoved

LEMMA SectionRemoved ==
  ASSUME NEW t \in Seq(Entry), Tidy(t), NEW s \in Section, SectionAt(t, s) # 0,
         NEW p, p = SectionAt(t, s),
         NEW u, u = Cut(t, NotesAbove(t, p), NotesAbove(t, NextSection(t, p)))
  PROVE  /\ Tidy(u)
         /\ \A r \in Section, m \in Key :
              Find(u, r, m) = IF r = s THEN NULL ELSE Find(t, r, m)
<1> DEFINE n == NextSection(t, p)
           a == NotesAbove(t, p)
           b == NotesAbove(t, n)
<1>1. p = SectionAt(t, s) /\ p # 0 /\ u = Cut(t, a, b)
  OBVIOUS
<1>2. p \in 1..Len(t) /\ t[p].section = s /\ t[p].section # NULL
  BY <1>1, SectionAtFinds, NullAssumption
<1>3. n \in p + 1..Len(t) + 1 /\ Ends(t, p, n)
  BY <1>2, NextSectionFinds DEF Ends
<1>4. a \in 1..p /\ Remarks(t, a, p)
  BY <1>2, NotesAboveFinds DEF Remarks
<1>5. b \in p + 1..n /\ Remarks(t, b, n)
  <2>1. b \in p + 1..Len(t) + 1 /\ b <= n
    BY <1>2, NotesBelowSection
  <2>2. n \in Nat \ {0}
    <3> HIDE DEF n
    <3> QED BY <1>2, <1>3
  <2>3. Remarks(t, b, n)
    <3> HIDE DEF n
    <3> QED BY <2>2, NotesAboveFinds DEF Remarks
  <2> HIDE DEF n, b
  <2> QED BY <1>3, <2>1, <2>2, <2>3
<1> HIDE DEF n, a, b
<1>6. u \in Seq(Entry) /\ Without(u, t, a, b - a)
  <2>1. a \in 1..Len(t) + 1 /\ b \in a..Len(t) + 1
    BY <1>2, <1>3, <1>4, <1>5
  <2> QED BY <1>1, <2>1, DeletedIsWithout
<1> QED BY ONLY t \in Seq(Entry), Tidy(t), s \in Section,
                <1>2, <1>3, <1>4, <1>5, <1>6, RemovedSection

(* cfg_write(section, NULL, NULL).                                         *)
LEMMA RemoveSectionReaches ==
  ASSUME TypeOK, Tidy(table), NEW s \in Section, RemoveSection(s), table' # NULL
  PROVE  /\ Tidy(table')
         /\ \A r \in Section, m \in Key :
              Find(table', r, m) = IF r = s THEN NULL ELSE Find(table, r, m)
<1>1. table # NULL /\ table \in Seq(Entry)
  BY DEF TypeOK, RemoveSection
<1> DEFINE p == SectionAt(table, s)
<1>2. p # 0 /\ table' = Cut(table, NotesAbove(table, p), NotesAbove(table, NextSection(table, p)))
  BY DEF RemoveSection, Delete, Changed, Crash, Drop, Cut
<1> QED BY <1>1, <1>2, SectionRemoved

(* ini_setstr gives the value to one item, or to a key that stands above   *)
(* all sections, which cfg_find does not see.                              *)
LEMMA IniSetReaches ==
  ASSUME TypeOK, Tidy(table), NEW k \in Key, NEW v \in Value, IniSet(k, v), table' # NULL
  PROVE  /\ Tidy(table')
         /\ \/ \A r \in Section, m \in Key : Find(table', r, m) = Find(table, r, m)
            \/ \E s \in Section : \A r \in Section, m \in Key :
                 Find(table', r, m) = IF r = s /\ m = k THEN v ELSE Find(table, r, m)
<1> DEFINE i == SelectInSeq(table, LAMBDA e : e.id = Plain(k))
           I == {j \in 1..Len(table) : table[j].id = Plain(k)}
<1>1. table # NULL /\ table \in Seq(Entry) /\ i # 0 /\ table' = Valued(table, i, v)
  BY DEF IniSet, TypeOK, Crash, Drop, Changed, Valued
<1>2. i = IF I # {} THEN Min(I) ELSE 0
  BY DEF SelectInSeq
<1>3. I # {} => Min(I) \in I
  <2>1. I \in SUBSET Nat
    BY <1>1
  <2> HIDE DEF I
  <2> QED BY <2>1, MinIsLeast
<1>4. i \in 1..Len(table) /\ table[i].id = Plain(k)
  BY <1>1, <1>2, <1>3
<1> HIDE DEF i
<1>5. /\ Tidy(table')
      /\ \A r \in Section, m \in Key :
           Find(table', r, m) = IF \E p \in 1..Len(table) : At(table, p, i, r, m) THEN v
                                ELSE Find(table, r, m)
  BY <1>1, <1>4, UpdatedItem
<1>6. \A p \in 1..Len(table), r \in Section, m \in Key : At(table, p, i, r, m) => m = k
  BY <1>4, PlainKeys DEF At
<1>7. CASE \E p \in 1..Len(table), s \in Section : At(table, p, i, s, k)
  <2>1. PICK p \in 1..Len(table), s \in Section : At(table, p, i, s, k)
    BY <1>7
  <2>2. \A r \in Section, m \in Key :
          (\E q \in 1..Len(table) : At(table, q, i, r, m)) <=> r = s /\ m = k
    BY <1>1, <1>4, <2>1, OneHome
  <2> QED BY <1>5, <2>2
<1>8. CASE ~\E p \in 1..Len(table), s \in Section : At(table, p, i, s, k)
  <2>1. \A r \in Section, m \in Key : ~\E p \in 1..Len(table) : At(table, p, i, r, m)
    BY <1>6, <1>8
  <2> QED BY <1>5, <2>1
<1> QED BY <1>7, <1>8
-----------------------------------------------------------------------------
(* Writing the file and reading it again.                                  *)

(* The entry is no continuation and no bare text.                          *)
Plainly(e) == e.value \notin Joint /\ (e.id = NULL => e.value = NULL)

(* An entry that is written plainly is read back as it was.                *)
LEMMA ReadsAsWritten ==
  ASSUME NEW e \in Entry, Plainly(e)
  PROVE  Read(OutputEntry(e)) /\ ParseLine(OutputEntry(e)) = e
<1>1. /\ OutputEntry(e).indent = FALSE /\ OutputEntry(e).hash = FALSE
      /\ OutputEntry(e).entry = e
  BY DEF OutputEntry, Plainly
<1> QED BY <1>1 DEF Read, ParseLine, Plainly

(* A shown table is read back as it was.                                   *)
LEMMA OutputReadsBack ==
  ASSUME NEW t \in Seq(Entry), Shown(t)
  PROVE  Parse(Output(t)) = t
<1> DEFINE f == Output(t)
           D == 0..Len(t)
           L == Loaded(f)
           Same == {n \in D : /\ L[n] \in Seq(Entry) /\ Len(L[n]) = n
                              /\ \A i \in 1..n : L[n][i] = t[i]}
<1>1. f \in Seq(Line) /\ Len(f) = Len(t) /\ \A i \in 1..Len(t) : f[i] = OutputEntry(t[i])
  BY OutputTypes
<1> HIDE DEF f
<1>2. \A n \in D : /\ L[n] = IF n = 0 THEN <<>> ELSE Longer(f, n, L[n - 1])
                   /\ L[n] \in Seq(Entry)
  BY <1>1, LoadedDef
<1> HIDE DEF L
<1>3. 0 \in Same
  BY <1>2
<1>4. ASSUME NEW n \in D, n + 1 \in D, n \in Same
      PROVE  n + 1 \in Same
  <2>1. n + 1 \in 1..Len(t) /\ (n + 1) - 1 = n /\ n + 1 # 0
    BY <1>4
  <2>2. t[n + 1] \in Entry /\ Plainly(t[n + 1]) /\ f[n + 1] = OutputEntry(t[n + 1])
    BY <1>1, <2>1 DEF Shown, Plainly
  <2>3. Read(f[n + 1]) /\ ParseLine(f[n + 1]) = t[n + 1]
    BY <2>2, ReadsAsWritten
  <2>4. L[n + 1] = Append(L[n], t[n + 1])
    BY <1>2, <1>4, <2>1, <2>3 DEF Longer
  <2>5. L[n] \in Seq(Entry) /\ Len(L[n]) = n /\ \A i \in 1..n : L[n][i] = t[i]
    BY <1>4
  <2>6. /\ L[n + 1] \in Seq(Entry) /\ Len(L[n + 1]) = n + 1
        /\ \A i \in 1..n : L[n + 1][i] = L[n][i]
        /\ L[n + 1][n + 1] = t[n + 1]
    BY <2>2, <2>4, <2>5, AppendProperties
  <2>7. \A i \in 1..n + 1 : L[n + 1][i] = t[i]
    BY <2>1, <2>5, <2>6
  <2> QED BY <1>4, <2>6, <2>7
<1>5. Segment(D)
  BY DEF Segment
<1>6. D \subseteq Same
  <2> HIDE DEF D, Same
  <2> QED BY <1>3, <1>4, <1>5, Induction
<1>7. Len(t) \in Same
  BY <1>6
<1>8. L[Len(t)] = t
  BY <1>7, SeqEqual
<1> QED BY <1>1, <1>8 DEF Parse, L, f

LEMMA StaysShown ==
  ASSUME NEW t \in Seq(Entry), Shown(t), NEW u \in Seq(Entry),
         \A i \in 1..Len(u) : Plainly(u[i]) \/ \E j \in 1..Len(t) : u[i] = t[j]
  PROVE  Shown(u)
BY DEF Shown, Plainly

LEMMA ValuedIsShown ==
  ASSUME NEW t \in Seq(Entry), Shown(t), NEW i \in 1..Len(t), NEW k \in Key, NEW v \in Value,
         t[i].id = Plain(k)
  PROVE  Shown(Valued(t, i, v))
<1> DEFINE u == Valued(t, i, v)
<1>1. u \in Seq(Entry) /\ Len(u) = Len(t) /\ u = [t EXCEPT ![i] = [t[i] EXCEPT !.value = v]]
  BY Updated DEF Valued
<1>2. t[i] \in Entry /\ [t[i] EXCEPT !.value = v].value = v
         /\ [t[i] EXCEPT !.value = v].id = t[i].id
  BY DEF Entry
<1>3. u[i].value = v /\ u[i].id = Plain(k) /\ \A j \in 1..Len(t) : j # i => u[j] = t[j]
  BY <1>1, <1>2
<1> HIDE DEF u
<1>4. Plainly(u[i])
  BY <1>3, JointAssumption, PlainKeys DEF Plainly
<1>5. \A j \in 1..Len(u) : Plainly(u[j]) \/ \E h \in 1..Len(t) : u[j] = t[h]
  BY <1>1, <1>3, <1>4
<1>6. Shown(u)
  BY <1>1, <1>5, StaysShown
<1> QED BY <1>6 DEF u

LEMMA CutIsShown ==
  ASSUME NEW t \in Seq(Entry), Shown(t), NEW a \in 1..Len(t) + 1, NEW b \in a..Len(t) + 1
  PROVE  Shown(Cut(t, a, b))
<1>1. Cut(t, a, b) \in Seq(Entry) /\ Without(Cut(t, a, b), t, a, b - a)
  BY DeletedIsWithout
<1>2. \A i \in 1..Len(Cut(t, a, b)) : \E j \in 1..Len(t) : Cut(t, a, b)[i] = t[j]
  BY <1>1, Shifted
<1> QED BY <1>1, <1>2, StaysShown

LEMMA NewIsPlain ==
  ASSUME NEW s \in Section, NEW k \in Key, NEW v \in Value
  PROVE  Plainly(SectionOf(s)) /\ Plainly(Pair(k, v))
BY NullAssumption, JointAssumption, PairIs, SectionIs, PlainKeys DEF Plainly

(* No edit makes a continuation or a bare text.                            *)
LEMMA SetStaysShown ==
  ASSUME TypeOK, Shown(table), NEW s \in Section, NEW k \in Key, NEW v \in Value,
         Set(s, k, v), table' # NULL
  PROVE  Shown(table')
<1> DEFINE p == SectionAt(table, s)
           i == KeyAt(table, p, k)
           n == NextSection(table, p)
<1>1. table # NULL /\ table \in Seq(Entry)
  BY DEF TypeOK, Set, AddSection, Update, Insert, AppendKey
<1>2. table' \in Seq(Entry)
  BY SetTypes DEF TypeOK
<1>3. p = 0 \/ p \in 1..Len(table)
  BY <1>1, SectionAtFinds
<1>4. CASE AddSection(s, k, v)
  <2>1. table' = table \o <<SectionOf(s), Pair(k, v)>>
    BY <1>4 DEF AddSection, Changed
  <2>2. /\ Len(table') = Len(table) + 2 /\ \A j \in 1..Len(table) : table'[j] = table[j]
        /\ table'[Len(table) + 1] = SectionOf(s) /\ table'[Len(table) + 2] = Pair(k, v)
    BY <1>1, <2>1, Appended, PairIs, SectionIs
  <2>3. \A j \in 1..Len(table') :
          j \in 1..Len(table) \/ j = Len(table) + 1 \/ j = Len(table) + 2
    BY <1>1, <2>2
  <2> QED BY <1>1, <1>2, <2>2, <2>3, NewIsPlain, StaysShown
<1>5. CASE Update(s, k, v)
  <2>1. p # 0 /\ i # 0 /\ table' = Valued(table, i, v)
    BY <1>5 DEF Update, Changed, Valued
  <2>2. i \in 1..Len(table) /\ table[i].id = Plain(k)
    <3> HIDE DEF p
    <3> QED BY <1>1, <1>3, <2>1, KeyAtFinds
  <2> HIDE DEF i
  <2> QED BY <1>1, <2>1, <2>2, ValuedIsShown
<1>6. CASE Insert(s, k, v) \/ AppendKey(s, k, v)
  <2>1. /\ p # 0
        /\ \/ table' = InsertAt(table, n, Pair(k, v)) /\ n <= Len(table)
           \/ table' = Append(table, Pair(k, v))
    BY <1>6 DEF Insert, AppendKey, Changed, Crash, Drop
  <2>2. n \in p + 1..Len(table) + 1
    <3> HIDE DEF p
    <3> QED BY <1>1, <1>3, NextSectionFinds
  <2> HIDE DEF p, i, n
  <2>3. Pair(k, v) \in Entry
    BY PairIs
  <2>4. CASE table' = InsertAt(table, n, Pair(k, v)) /\ n <= Len(table)
    <3>1. n \in 1..Len(table)
      BY <1>1, <1>3, <2>1, <2>2, <2>4
    <3>2. /\ Len(table') = Len(table) + 1
          /\ \A j \in 1..Len(table) + 1 :
               table'[j] = IF j < n THEN table[j] ELSE IF j = n THEN Pair(k, v) ELSE table[j - 1]
      BY <1>1, <2>3, <2>4, <3>1, Inserted
    <3>3. \A j \in 1..Len(table') :
            table'[j] = Pair(k, v) \/ \E h \in 1..Len(table) : table'[j] = table[h]
      <4> TAKE j \in 1..Len(table')
      <4>1. j < n => j \in 1..Len(table)
        BY <1>1, <3>1, <3>2
      <4>2. j > n => j - 1 \in 1..Len(table)
        BY <1>1, <3>1, <3>2
      <4> QED BY <1>1, <3>1, <3>2, <4>1, <4>2
    <3> QED BY <1>1, <1>2, <3>3, NewIsPlain, StaysShown
  <2>5. CASE table' = Append(table, Pair(k, v))
    <3>1. /\ Len(table') = Len(table) + 1 /\ \A j \in 1..Len(table) : table'[j] = table[j]
          /\ table'[Len(table) + 1] = Pair(k, v)
      BY <1>1, <2>3, <2>5, AppendProperties
    <3>2. \A j \in 1..Len(table') : j \in 1..Len(table) \/ j = Len(table) + 1
      BY <1>1, <3>1
    <3> QED BY <1>1, <1>2, <3>1, <3>2, NewIsPlain, StaysShown
  <2> QED BY <2>1, <2>4, <2>5
<1> QED BY <1>4, <1>5, <1>6 DEF Set

LEMMA RemoveStaysShown ==
  ASSUME TypeOK, Shown(table), NEW s \in Section, table' # NULL,
         RemoveSection(s) \/ \E k \in Key : RemoveKey(s, k)
  PROVE  Shown(table')
<1> DEFINE p == SectionAt(table, s)
<1>1. table # NULL /\ table \in Seq(Entry)
  BY DEF TypeOK, RemoveKey, RemoveSection
<1>2. p = 0 \/ (p \in 1..Len(table) /\ table[p].section # NULL)
  BY <1>1, SectionAtFinds, NullAssumption
<1>3. CASE RemoveSection(s)
  <2> DEFINE a == NotesAbove(table, p)
             b == NotesAbove(table, NextSection(table, p))
  <2>1. p # 0 /\ table' = Cut(table, a, b)
    BY <1>3 DEF RemoveSection, Delete, Changed, Crash, Drop, Cut
  <2>2. a \in 1..p /\ b \in p + 1..Len(table) + 1 /\ p \in 1..Len(table)
    <3> HIDE DEF p
    <3> QED BY <1>1, <1>2, <2>1, NotesAboveFinds, NotesBelowSection
  <2> HIDE DEF p, a, b
  <2>3. a \in 1..Len(table) + 1 /\ b \in a..Len(table) + 1
    BY <2>2
  <2> QED BY <1>1, <2>1, <2>3, CutIsShown
<1>4. ASSUME NEW k \in Key, RemoveKey(s, k)
      PROVE  Shown(table')
  <2> DEFINE i == KeyAt(table, p, k)
             a == NotesAbove(table, i)
             b == i + 1
  <2>1. p # 0 /\ i # 0 /\ table' = Cut(table, a, b)
    BY <1>4 DEF RemoveKey, Delete, Changed, Cut
  <2>2. i \in 1..Len(table)
    <3> HIDE DEF p
    <3> QED BY <1>1, <1>2, <2>1, KeyAtFinds
  <2>3. a \in 1..i
    <3> HIDE DEF i
    <3> QED BY <1>1, <2>2, NotesAboveFinds
  <2>4. a \in 1..Len(table) + 1 /\ b \in a..Len(table) + 1
    <3> HIDE DEF i, a
    <3> QED BY <2>2, <2>3
  <2> HIDE DEF p, i, a, b
  <2> QED BY <1>1, <2>1, <2>4, CutIsShown
<1> QED BY <1>3, <1>4

LEMMA IniSetStaysShown ==
  ASSUME TypeOK, Shown(table), NEW k \in Key, NEW v \in Value, IniSet(k, v), table' # NULL
  PROVE  Shown(table')
<1> DEFINE i == SelectInSeq(table, LAMBDA e : e.id = Plain(k))
           I == {j \in 1..Len(table) : table[j].id = Plain(k)}
<1>1. table # NULL /\ table \in Seq(Entry) /\ i # 0 /\ table' = Valued(table, i, v)
  BY DEF IniSet, TypeOK, Crash, Drop, Changed, Valued
<1>2. i = IF I # {} THEN Min(I) ELSE 0
  BY DEF SelectInSeq
<1>3. I # {} => Min(I) \in I
  <2>1. I \in SUBSET Nat
    BY <1>1
  <2> HIDE DEF I
  <2> QED BY <2>1, MinIsLeast
<1>4. i \in 1..Len(table) /\ table[i].id = Plain(k)
  BY <1>1, <1>2, <1>3
<1> HIDE DEF i
<1> QED BY <1>1, <1>4, ValuedIsShown
-----------------------------------------------------------------------------
(* A saved table reads back.                                               *)

(* What the theorems ask of the files that a run starts from: _cfg_parse   *)
(* makes plain pairs, sections and remarks of them; and no name in them is *)
(* ambiguous.                                                              *)
ShownFiles == \A f \in InitialFiles : Shown(Parse(f))
TidyFiles  == \A f \in InitialFiles : Tidy(Parse(f))

(* The calls that change the table.                                        *)
Edit ==
  \/ \E s \in Section, k \in Key, v \in Value : Set(s, k, v)
  \/ \E s \in Section, k \in Key : RemoveKey(s, k)
  \/ \E s \in Section : RemoveSection(s)
  \/ \E k \in Key, v \in Value : IniSet(k, v)

LEMMA StepKinds ==
  [Next]_vars =>
    \/ Open \/ Commit \/ Edit \/ UNCHANGED vars
    \/ table # NULL /\ table' = NULL /\ file' = file
BY DEF Next, Edit, Done, IniGetFails, GetKeysFails, Crash, Drop

LEMMA EditIsDirty ==
  ASSUME Edit
  PROVE  table # NULL /\ file' = file /\ (table' = NULL \/ dirty' = TRUE)
BY ZenonT(60) DEF Edit, Set, AddSection, Update, Insert, AppendKey, RemoveKey, RemoveSection,
       IniSet, Delete, Changed, Crash, Drop

(* The invariant behind SavedIsRead: what is on disk, and in the table,    *)
(* is plain.                                                               *)
SavedInv ==
  /\ TypeOK
  /\ Shown(Parse(file))
  /\ table # NULL => Shown(table)
  /\ SavedIsRead

LEMMA InitSaved == ShownFiles /\ Init => SavedInv
BY InitTypes DEF ShownFiles, Init, SavedInv, SavedIsRead

LEMMA StepSaved == SavedInv /\ [Next]_vars => SavedInv'
<1> SUFFICES ASSUME SavedInv, [Next]_vars PROVE SavedInv'
  OBVIOUS
<1>1. TypeOK /\ TypeOK'
  BY StepTypes DEF SavedInv
<1>2. CASE Open
  BY <1>1, <1>2 DEF Open, SavedInv, SavedIsRead
<1>3. CASE Commit
  <2>1. table # NULL /\ table \in Seq(Entry) /\ Shown(table)
          /\ file' = Output(table) /\ table' = table
    BY <1>3 DEF Commit, SavedInv, TypeOK
  <2>2. Parse(file') = table
    BY <2>1, OutputReadsBack
  <2> QED BY <1>1, <2>1, <2>2 DEF SavedInv, SavedIsRead
<1>4. CASE Edit
  <2>1. table # NULL /\ Shown(table) /\ file' = file /\ (table' = NULL \/ dirty' = TRUE)
    BY <1>4, EditIsDirty DEF SavedInv
  <2>2. table' # NULL => Shown(table')
    BY <1>1, <1>4, <2>1, SetStaysShown, RemoveStaysShown, IniSetStaysShown DEF Edit
  <2> QED BY <1>1, <2>1, <2>2 DEF SavedInv, SavedIsRead
<1>5. CASE UNCHANGED vars
  BY <1>1, <1>5 DEF vars, SavedInv, SavedIsRead
<1>6. CASE table' = NULL /\ file' = file
  BY <1>1, <1>6 DEF SavedInv, SavedIsRead
<1> QED BY <1>2, <1>3, <1>4, <1>5, <1>6, StepKinds

(* What cfg_commit has written, cfg_init reads back entry by entry, after  *)
(* whatever edits (_cfg_parse, l.564-668, undoes _cfg_output).             *)
THEOREM SavedReadsBack == ShownFiles /\ Spec => []SavedIsRead
<1>1. ShownFiles /\ Init => SavedInv
  BY InitSaved
<1>2. SavedInv /\ [Next]_vars => SavedInv'
  BY StepSaved
<1>3. SavedInv => SavedIsRead
  BY DEF SavedInv
<1> QED BY <1>1, <1>2, <1>3, PTL DEF Spec
-----------------------------------------------------------------------------
(* Seen through cfg_find, the table is a map.                              *)

(* And the one behind the map: both are tidy.                              *)
TidyInv ==
  /\ SavedInv
  /\ Tidy(Parse(file))
  /\ table # NULL => Tidy(table)

LEMMA InitTidy == ShownFiles /\ TidyFiles /\ Init => TidyInv
BY InitSaved DEF TidyFiles, Init, TidyInv

LEMMA StepTidy == TidyInv /\ [Next]_vars => TidyInv'
<1> SUFFICES ASSUME TidyInv, [Next]_vars PROVE TidyInv'
  OBVIOUS
<1>1. SavedInv' /\ SavedInv /\ TypeOK
  BY StepSaved DEF TidyInv, SavedInv
<1>2. CASE Open
  BY <1>1, <1>2 DEF Open, TidyInv
<1>3. CASE Commit
  <2>1. table # NULL /\ table \in Seq(Entry) /\ Shown(table) /\ Tidy(table)
          /\ file' = Output(table) /\ table' = table
    BY <1>3 DEF Commit, TidyInv, SavedInv, TypeOK
  <2>2. Parse(file') = table
    BY <2>1, OutputReadsBack
  <2> QED BY <1>1, <2>1, <2>2 DEF TidyInv
<1>4. CASE Edit
  <2>1. table # NULL /\ Tidy(table) /\ file' = file
    BY <1>4, EditIsDirty DEF TidyInv
  <2>2. table' # NULL => Tidy(table')
    BY <1>1, <1>4, <2>1, SetReaches, RemoveKeyReaches, RemoveSectionReaches, IniSetReaches
       DEF Edit
  <2> QED BY <1>1, <2>1, <2>2 DEF TidyInv
<1>5. CASE UNCHANGED vars
  BY <1>1, <1>5 DEF vars, TidyInv
<1>6. CASE table' = NULL /\ file' = file
  BY <1>1, <1>6 DEF TidyInv
<1> QED BY <1>2, <1>3, <1>4, <1>5, <1>6, StepKinds

(* The settings of a tidy table.                                           *)
LEMMA LookupSees ==
  ASSUME NEW t \in Seq(Entry), Tidy(t)
  PROVE  /\ Lookup[t] = [s \in Section |-> [k \in Key |-> Find(t, s, k)]]
         /\ Lookup[t] \in Views /\ Lookup[t] # NULL
<1>1. Lookup[t] = [s \in Section |-> [k \in Key |-> Find(t, s, k)]]
  BY DEF Lookup
<1>2. \A s \in Section, k \in Key : Find(t, s, k) \in Value \cup {NULL}
  BY FindSeesWhatIsThere
<1>3. Lookup[t] \in Views
  BY <1>1, <1>2 DEF Views
<1> QED BY <1>1, <1>3, NullAssumption

(* Lookup of the table that an edit makes, from what it makes of each item.*)
LEMMA LookupSet ==
  ASSUME NEW t \in Seq(Entry), Tidy(t), NEW u \in Seq(Entry), Tidy(u),
         NEW s \in Section, NEW k \in Key, NEW v,
         \A r \in Section, m \in Key :
           Find(u, r, m) = IF r = s /\ m = k THEN v ELSE Find(t, r, m)
  PROVE  Lookup[u] = Promise!Set(Lookup[t], s, k, v)
<1>1. Lookup[t] = [r \in Section |-> [m \in Key |-> Find(t, r, m)]]
  BY LookupSees
<1>2. Lookup[u] = [r \in Section |-> [m \in Key |-> Find(u, r, m)]]
  BY LookupSees
<1>3. Promise!Set(Lookup[t], s, k, v)
        = [r \in Section |-> [m \in Key |-> IF r = s /\ m = k THEN v ELSE Find(t, r, m)]]
  BY <1>1 DEF Promise!Set
<1> QED BY <1>2, <1>3

LEMMA LookupRemove ==
  ASSUME NEW t \in Seq(Entry), Tidy(t), NEW u \in Seq(Entry), Tidy(u), NEW s \in Section,
         \A r \in Section, m \in Key :
           Find(u, r, m) = IF r = s THEN NULL ELSE Find(t, r, m)
  PROVE  Lookup[u] = Promise!RemoveSection(Lookup[t], s)
<1>1. Lookup[t] = [r \in Section |-> [m \in Key |-> Find(t, r, m)]]
  BY LookupSees
<1>2. Lookup[u] = [r \in Section |-> [m \in Key |-> Find(u, r, m)]]
  BY LookupSees
<1>3. Promise!RemoveSection(Lookup[t], s)
        = [r \in Section |-> [m \in Key |-> IF r = s THEN NULL ELSE Find(t, r, m)]]
  BY <1>1 DEF Promise!RemoveSection
<1> QED BY <1>2, <1>3

(* Each edit of the table is the edit of the settings it stands for.       *)
LEMMA EditReaches ==
  ASSUME TidyInv, TidyInv', table # NULL, table' # NULL
  PROVE  /\ \A s \in Section, k \in Key, v \in Value :
              Set(s, k, v) => Lookup[table'] = Promise!Set(Lookup[table], s, k, v)
         /\ \A s \in Section, k \in Key :
              RemoveKey(s, k) => Lookup[table'] = Promise!Set(Lookup[table], s, k, NULL)
         /\ \A s \in Section :
              RemoveSection(s) => Lookup[table'] = Promise!RemoveSection(Lookup[table], s)
         /\ \A k \in Key, v \in Value :
              IniSet(k, v) => \/ Lookup[table'] = Lookup[table]
                              \/ \E s \in Section :
                                   Lookup[table'] = Promise!Set(Lookup[table], s, k, v)
<1>1. /\ TypeOK /\ table \in Seq(Entry) /\ Tidy(table)
      /\ table' \in Seq(Entry) /\ Tidy(table')
  BY DEF TidyInv, SavedInv, TypeOK
<1>2. ASSUME NEW s \in Section, NEW k \in Key, NEW v \in Value, Set(s, k, v)
      PROVE  Lookup[table'] = Promise!Set(Lookup[table], s, k, v)
  <2>1. \A r \in Section, m \in Key :
          Find(table', r, m) = IF r = s /\ m = k THEN v ELSE Find(table, r, m)
    BY <1>1, <1>2, SetReaches
  <2> QED BY <1>1, <2>1, LookupSet
<1>3. ASSUME NEW s \in Section, NEW k \in Key, RemoveKey(s, k)
      PROVE  Lookup[table'] = Promise!Set(Lookup[table], s, k, NULL)
  <2>1. \A r \in Section, m \in Key :
          Find(table', r, m) = IF r = s /\ m = k THEN NULL ELSE Find(table, r, m)
    BY <1>1, <1>3, RemoveKeyReaches
  <2> QED BY <1>1, <2>1, LookupSet
<1>4. ASSUME NEW s \in Section, RemoveSection(s)
      PROVE  Lookup[table'] = Promise!RemoveSection(Lookup[table], s)
  <2>1. \A r \in Section, m \in Key :
          Find(table', r, m) = IF r = s THEN NULL ELSE Find(table, r, m)
    BY <1>1, <1>4, RemoveSectionReaches
  <2> QED BY <1>1, <2>1, LookupRemove
<1>5. ASSUME NEW k \in Key, NEW v \in Value, IniSet(k, v)
      PROVE  \/ Lookup[table'] = Lookup[table]
             \/ \E s \in Section : Lookup[table'] = Promise!Set(Lookup[table], s, k, v)
  <2>1. \/ \A r \in Section, m \in Key : Find(table', r, m) = Find(table, r, m)
        \/ \E s \in Section : \A r \in Section, m \in Key :
             Find(table', r, m) = IF r = s /\ m = k THEN v ELSE Find(table, r, m)
    BY <1>1, <1>5, IniSetReaches
  <2>2. CASE \A r \in Section, m \in Key : Find(table', r, m) = Find(table, r, m)
    BY <1>1, <2>2, LookupSees, ZenonT(60)
  <2>3. ASSUME NEW s \in Section,
               \A r \in Section, m \in Key :
                 Find(table', r, m) = IF r = s /\ m = k THEN v ELSE Find(table, r, m)
        PROVE  Lookup[table'] = Promise!Set(Lookup[table], s, k, v)
    BY <1>1, <2>3, LookupSet
  <2> QED BY <2>1, <2>2, <2>3
<1> QED BY <1>2, <1>3, <1>4, <1>5

(* A call of cfg_write changes what cfg_find answers for the item it was   *)
(* given, and for no other, although it looks for the item in a way of its *)
(* own (cfgfile.cpp:864-1057).                                             *)
THEOREM EditsReach == ShownFiles /\ TidyFiles /\ Spec => EditsReachTheirItem
<1>1. ShownFiles /\ TidyFiles /\ Init => TidyInv
  BY InitTidy
<1>2. TidyInv /\ [Next]_vars => TidyInv'
  BY StepTidy
<1> DEFINE Reach ==
      \A s \in Section :
        /\ RemoveSection(s) => Makes(Promise!RemoveSection(Lookup[table], s))
        /\ \A k \in Key :
             /\ RemoveKey(s, k) => Makes(Promise!Set(Lookup[table], s, k, NULL))
             /\ \A v \in Value : Set(s, k, v) => Makes(Promise!Set(Lookup[table], s, k, v))
<1>3. TidyInv /\ TidyInv' /\ [Next]_vars => [Reach]_vars
  <2> SUFFICES ASSUME TidyInv, TidyInv', NEW s \in Section
               PROVE  /\ RemoveSection(s) => Makes(Promise!RemoveSection(Lookup[table], s))
                      /\ \A k \in Key :
                           /\ RemoveKey(s, k) => Makes(Promise!Set(Lookup[table], s, k, NULL))
                           /\ \A v \in Value :
                                Set(s, k, v) => Makes(Promise!Set(Lookup[table], s, k, v))
    OBVIOUS
  <2>1. /\ RemoveSection(s) => table # NULL
        /\ \A k \in Key : RemoveKey(s, k) => table # NULL
        /\ \A k \in Key, v \in Value : Set(s, k, v) => table # NULL
    BY DEF RemoveSection, RemoveKey, Set, AddSection, Update, Insert, AppendKey
  <2> QED BY <2>1, EditReaches DEF Makes
<1>4. ShownFiles /\ TidyFiles /\ Spec => [][Reach]_vars
  <2> HIDE DEF Reach
  <2> QED BY <1>1, <1>2, <1>3, PTL DEF Spec
<1> QED BY <1>4 DEF EditsReachTheirItem

(* A step of the file is a step of the map of settings, or none of it.     *)
LEMMA StepIsPromised ==
  ASSUME TidyInv, TidyInv', [Next]_vars
  PROVE  [Promise!Next]_(Promise!vars)
<1> DEFINE saved == Lookup[Parse(file)]
           draft == IF table = NULL THEN NULL ELSE Lookup[table]
<1>1. /\ table # NULL => table \in Seq(Entry) /\ Tidy(table)
      /\ table' # NULL => table' \in Seq(Entry) /\ Tidy(table')
      /\ file \in Seq(Line) /\ Parse(file) \in Seq(Entry) /\ Tidy(Parse(file))
  BY Parsed DEF TidyInv, SavedInv, TypeOK
<1>2. /\ table # NULL => Lookup[table] # NULL
      /\ table' # NULL => Lookup[table'] # NULL
  BY <1>1, LookupSees
<1>3. CASE Open
  <2>1. table = NULL /\ table' = Parse(file) /\ file' = file /\ table' # NULL
    BY <1>1, <1>3, NullAssumption DEF Open
  <2> QED BY <2>1 DEF Promise!Next, Promise!Open
<1>4. CASE Commit
  <2>1. table # NULL /\ table' = table /\ file' = Output(table) /\ Shown(table)
    BY <1>4 DEF Commit, TidyInv, SavedInv
  <2>2. Parse(file') = table
    BY <1>1, <2>1, OutputReadsBack
  <2> QED BY <1>2, <2>1, <2>2 DEF Promise!Next, Promise!Commit
<1>5. CASE table' = NULL /\ file' = file
  BY <1>5 DEF Promise!Next, Promise!Close
<1>6. CASE Edit /\ table' # NULL
  <2>1. table # NULL /\ file' = file
    BY <1>6, EditIsDirty
  <2>2. draft = Lookup[table] /\ draft' = Lookup[table'] /\ draft # NULL /\ saved' = saved
    BY <1>2, <1>6, <2>1
  <2>3. \/ Lookup[table'] = Lookup[table]
        \/ \E s \in Section, k \in Key, v \in Value \cup {NULL} :
             Lookup[table'] = Promise!Set(Lookup[table], s, k, v)
        \/ \E s \in Section : Lookup[table'] = Promise!RemoveSection(Lookup[table], s)
    BY <1>6, <2>1, EditReaches DEF Edit
  <2>4. Lookup[table'] = Lookup[table] \/ Lookup[table'] \in Promise!Edits(Lookup[table])
    BY <2>3 DEF Promise!Edits
  <2> HIDE DEF saved, draft
  <2>5. (draft' = draft /\ saved' = saved)
          \/ (draft # NULL /\ draft' \in Promise!Edits(draft) /\ saved' = saved)
    BY <2>2, <2>4
  <2> QED BY <2>5 DEF Promise!Next, Promise!Edit, Promise!vars, saved, draft
<1>7. CASE UNCHANGED vars
  BY <1>7 DEF vars, Promise!vars
<1> QED BY <1>3, <1>4, <1>5, <1>6, <1>7, StepKinds, EditIsDirty

(* Seen through cfg_find the configuration file is the map of Settings:    *)
(* each call edits one item or section of it, a commit saves it, and what  *)
(* the next cfg_init reads is what was committed last.                     *)
THEOREM CfgFileIsSettings == ShownFiles /\ TidyFiles /\ Spec => ImplementsSettings
<1>1. ShownFiles /\ TidyFiles /\ Init => TidyInv
  BY InitTidy
<1>2. TidyInv /\ [Next]_vars => TidyInv'
  BY StepTidy
<1>3. TidyInv /\ Init => Promise!Init
  <2> SUFFICES ASSUME TidyInv, Init PROVE Promise!Init
    OBVIOUS
  <2>1. Parse(file) \in Seq(Entry) /\ Tidy(Parse(file))
    BY Parsed DEF TidyInv, SavedInv, TypeOK
  <2>2. Lookup[Parse(file)] \in Views
    BY <2>1, LookupSees
  <2> QED BY <2>2 DEF Init, Promise!Init, Views
<1>4. TidyInv /\ TidyInv' /\ [Next]_vars => [Promise!Next]_(Promise!vars)
  BY StepIsPromised
<1> QED BY <1>1, <1>2, <1>3, <1>4, PTL DEF Spec, ImplementsSettings, Promise!Spec
-----------------------------------------------------------------------------
(* The file on disk, shared by programs (CfgStore).                        *)

Store == INSTANCE CfgStore

(* What the theorems ask of the constants.                                 *)
OneThreadEach == \A a, b \in Actor : ProgramOf[a] = ProgramOf[b] => a = b
FileExists    == InitialDisks \subseteq Store!Items /\ NULL \notin Store!Items

(* The inductive invariant: types, the locks that threads hold, and what   *)
(* the one writer has written.                                             *)
TypeInv ==
  /\ disk \in Store!Items
  /\ whole \in Store!Items
  /\ raced \in BOOLEAN
  /\ lock \in [Program -> {"none", "read", "write"}]
  /\ pc \in [Actor -> Store!Places \ {"creat"}]
  /\ job \in [Actor -> Store!Job \cup {NULL}]
  /\ items \in [Actor -> Store!Items]
  /\ put \in [Actor -> SUBSET Key]
  /\ crashes \in 0..MaxCrash
  /\ \A a \in Actor : pc[a] # "idle" => job[a] \in Store!Job

Reading(a)  == pc[a] \in {"fstat", "unlock"}
Updating(a) == pc[a] \in {"fopen", "write", "fclose"}

Held ==
  \A a \in Actor :
    /\ Reading(a) => lock[ProgramOf[a]] = "read"
    /\ Updating(a) => lock[ProgramOf[a]] = "write"

Exclusive ==
  \A p, q \in Program : p # q /\ lock[p] = "write" => lock[q] = "none"

(* How far the one writer has come.                                        *)
Progress ==
  \A a \in Actor : pc[a] = "fclose" => \A k \in put[a] : disk[k] = items[a][k]

IInv == TypeInv /\ Held /\ Exclusive /\ Progress /\ WritesDoNotMix

(* Two threads are not both updating, nor one updating while another reads.*)
LEMMA Alone ==
  ASSUME OneThreadEach, TypeInv, Held, Exclusive,
         NEW a \in Actor, NEW b \in Actor, a # b, Updating(a)
  PROVE  ~Updating(b) /\ ~Reading(b)
<1>1. ProgramOf[a] \in Program /\ ProgramOf[b] \in Program /\ ProgramOf[a] # ProgramOf[b]
  BY ActorAssumption DEF OneThreadEach
<1> QED  BY <1>1 DEF Held, Exclusive

LEMMA InitInv ==
  ASSUME FileExists, Store!Init
  PROVE  IInv
<1>1. disk \in Store!Items /\ whole = disk
  BY DEF FileExists, Store!Init
<1>2. Store!Empty \in Store!Items  BY DEF Store!Empty, Store!Items
<1>3. TypeInv
  <2>1. raced \in BOOLEAN  BY Zenon DEF Store!Init
  <2>2. /\ lock \in [Program -> {"none", "read", "write"}]
        /\ pc \in [Actor -> Store!Places \ {"creat"}]
        /\ job \in [Actor -> Store!Job \cup {NULL}]
        /\ items \in [Actor -> Store!Items]
        /\ put \in [Actor -> SUBSET Key]
        /\ \A a \in Actor : pc[a] = "idle"
    BY <1>2 DEF Store!Init, Store!Places
  <2>3. crashes \in 0..MaxCrash  BY CrashAssumption DEF Store!Init
  <2> QED  BY <1>1, <2>1, <2>2, <2>3 DEF TypeInv
<1>4. \A a \in Actor : pc[a] = "idle"  BY DEF Store!Init
<1>5. Held /\ Progress  BY <1>4 DEF Held, Progress, Reading, Updating
<1>6. Exclusive  BY DEF Store!Init, Exclusive
<1>7. WritesDoNotMix  BY <1>1 DEF WritesDoNotMix
<1> QED  BY <1>3, <1>5, <1>6, <1>7 DEF IInv

(* The commit of a thread that is alone leaves its own table on the disk.  *)
LEMMA CloseWrites ==
  ASSUME TypeInv, Progress, NEW a \in Actor, pc[a] = "fclose"
  PROVE  Store!Written(a, Key \ put[a]) = items[a]
<1>1. items[a] \in Store!Items /\ \A k \in put[a] : disk[k] = items[a][k]
  BY DEF TypeInv, Progress
<1> QED  BY <1>1 DEF Store!Written, Store!Items

LEMMA EndTypes ==
  ASSUME TypeInv, NEW A \in SUBSET Actor, Store!End(A)
  PROVE  /\ pc' \in [Actor -> Store!Places \ {"creat"}]
         /\ job' \in [Actor -> Store!Job \cup {NULL}]
         /\ items' \in [Actor -> Store!Items]
         /\ put' \in [Actor -> SUBSET Key]
         /\ \A a \in Actor : pc'[a] # "idle" => job'[a] \in Store!Job
         /\ \A a \in Actor \ A : pc'[a] = pc[a] /\ items'[a] = items[a] /\ put'[a] = put[a]
         /\ \A a \in A : pc'[a] = "idle"
  BY DEF TypeInv, Store!End, Store!Places, Store!Empty, Store!Items

LEMMA GotoMoves ==
  ASSUME TypeInv, NEW a \in Actor, NEW f, NEW t \in Store!Places \ {"creat"}, Store!Goto(a, f, t)
  PROVE  /\ pc' \in [Actor -> Store!Places \ {"creat"}]
         /\ pc[a] = f /\ pc'[a] = t
         /\ \A b \in Actor \ {a} : pc'[b] = pc[b]
  BY DEF TypeInv, Store!Goto

LEMMA CallInv ==
  ASSUME IInv, NEW a \in Actor, NEW j \in Store!Job, Store!Call(a, j)
  PROVE  IInv'
<1>1. "access" \in Store!Places \ {"creat"}  BY DEF Store!Places
<1>2. /\ pc' \in [Actor -> Store!Places \ {"creat"}]
      /\ pc[a] = "idle" /\ pc'[a] = "access"
      /\ \A b \in Actor \ {a} : pc'[b] = pc[b]
  BY <1>1, GotoMoves DEF IInv, Store!Call
<1>3. TypeInv'  BY <1>2 DEF IInv, TypeInv, Store!Call
<1>4. Held' /\ Exclusive' /\ Progress' /\ WritesDoNotMix'
  BY <1>2 DEF IInv, Held, Exclusive, Progress, WritesDoNotMix, Reading, Updating, Writing,
       Store!Call
<1> QED  BY <1>3, <1>4 DEF IInv

LEMMA AccessInv ==
  ASSUME FileExists, IInv, NEW a \in Actor, Store!Access(a)
  PROVE  IInv'
<1>1. disk # NULL  BY DEF FileExists, IInv, TypeInv
<1>2. /\ Store!Goto(a, "access", "open")
      /\ UNCHANGED <<disk, lock, job, items, put, crashes, whole, raced>>
  BY <1>1 DEF Store!Access
<1>3. "open" \in Store!Places \ {"creat"}  BY DEF Store!Places
<1>4. /\ pc' \in [Actor -> Store!Places \ {"creat"}]
      /\ pc[a] = "access" /\ pc'[a] = "open"
      /\ \A b \in Actor \ {a} : pc'[b] = pc[b]
  BY <1>2, <1>3, GotoMoves DEF IInv
<1>5. TypeInv'  BY <1>2, <1>4 DEF IInv, TypeInv
<1>6. Held' /\ Exclusive' /\ Progress' /\ WritesDoNotMix'
  BY <1>2, <1>4 DEF IInv, Held, Exclusive, Progress, WritesDoNotMix, Reading, Updating, Writing
<1> QED  BY <1>5, <1>6 DEF IInv

LEMMA LockSharedInv ==
  ASSUME OneThreadEach, IInv, NEW a \in Actor, Store!LockShared(a)
  PROVE  IInv'
<1>1. "fstat" \in Store!Places \ {"creat"} /\ ProgramOf[a] \in Program
  BY ActorAssumption DEF Store!Places
<1>2. /\ pc' \in [Actor -> Store!Places \ {"creat"}]
      /\ pc[a] = "open" /\ pc'[a] = "fstat"
      /\ \A b \in Actor \ {a} : pc'[b] = pc[b]
  BY <1>1, GotoMoves DEF IInv, Store!LockShared
<1>3. TypeInv'  BY <1>1, <1>2 DEF IInv, TypeInv, Store!LockShared, Store!Locks
<1>4. /\ \A p \in Program \ {ProgramOf[a]} : lock'[p] = lock[p] /\ lock[p] # "write"
      /\ lock'[ProgramOf[a]] = "read"
  BY <1>1 DEF Store!LockShared, Store!Locks, Store!Others, IInv, TypeInv
<1>5. \A b \in Actor \ {a} : ProgramOf[b] \in Program \ {ProgramOf[a]}
  BY ActorAssumption DEF OneThreadEach
<1>6. Held'  BY <1>2, <1>4, <1>5 DEF IInv, Held, Reading, Updating
<1>7. Exclusive'  BY <1>1, <1>4 DEF IInv, Exclusive
<1>8. Progress' /\ WritesDoNotMix'
  BY <1>2 DEF IInv, Progress, WritesDoNotMix, Writing, Store!LockShared
<1> QED  BY <1>3, <1>6, <1>7, <1>8 DEF IInv

LEMMA ReadInv ==
  ASSUME OneThreadEach, IInv, NEW a \in Actor, Store!Read(a)
  PROVE  IInv'
<1>1. "unlock" \in Store!Places \ {"creat"}  BY DEF Store!Places
<1>2. /\ pc' \in [Actor -> Store!Places \ {"creat"}]
      /\ pc[a] = "fstat" /\ pc'[a] = "unlock"
      /\ \A b \in Actor \ {a} : pc'[b] = pc[b]
  BY <1>1, GotoMoves DEF IInv, Store!Read
<1>3. TypeInv'  BY <1>2 DEF IInv, TypeInv, Store!Read
<1>4. Held' /\ Exclusive' /\ WritesDoNotMix'
  BY <1>2 DEF IInv, Held, Exclusive, WritesDoNotMix, Reading, Updating, Writing, Store!Read
<1>5. Progress'
  BY <1>2 DEF IInv, TypeInv, Progress, Store!Read
<1> QED  BY <1>3, <1>4, <1>5 DEF IInv

LEMMA UnlockInv ==
  ASSUME OneThreadEach, IInv, NEW a \in Actor, Store!Unlock(a)
  PROVE  IInv'
<1>1. "use" \in Store!Places \ {"creat"} /\ ProgramOf[a] \in Program
  BY ActorAssumption DEF Store!Places
<1>2. /\ pc' \in [Actor -> Store!Places \ {"creat"}]
      /\ pc[a] = "unlock" /\ pc'[a] = "use"
      /\ \A b \in Actor \ {a} : pc'[b] = pc[b]
  BY <1>1, GotoMoves DEF IInv, Store!Unlock
<1>3. TypeInv'  BY <1>1, <1>2 DEF IInv, TypeInv, Store!Unlock, Store!Locks
<1>4. /\ \A p \in Program \ {ProgramOf[a]} : lock'[p] = lock[p]
      /\ lock'[ProgramOf[a]] = "none"
  BY <1>1 DEF Store!Unlock, Store!Locks, IInv, TypeInv
<1>5. \A b \in Actor \ {a} : ProgramOf[b] \in Program \ {ProgramOf[a]}
  BY ActorAssumption DEF OneThreadEach
<1>6. Held'  BY <1>2, <1>4, <1>5 DEF IInv, Held, Reading, Updating
<1>7. Exclusive'  BY <1>1, <1>4 DEF IInv, Exclusive
<1>8. Progress' /\ WritesDoNotMix'
  BY <1>2 DEF IInv, Progress, WritesDoNotMix, Writing, Store!Unlock
<1> QED  BY <1>3, <1>6, <1>7, <1>8 DEF IInv

(* The call of a thread that holds no lock ends.                           *)
LEMMA EndInv ==
  ASSUME OneThreadEach, IInv, NEW a \in Actor, pc[a] \in {"use", "open", "reopen"},
         Store!End({a}), UNCHANGED <<disk, lock, crashes, whole, raced>>
  PROVE  IInv'
<1>1. /\ pc' \in [Actor -> Store!Places \ {"creat"}]
      /\ job' \in [Actor -> Store!Job \cup {NULL}]
      /\ items' \in [Actor -> Store!Items]
      /\ put' \in [Actor -> SUBSET Key]
      /\ \A b \in Actor : pc'[b] # "idle" => job'[b] \in Store!Job
      /\ \A b \in Actor \ {a} : pc'[b] = pc[b] /\ items'[b] = items[b] /\ put'[b] = put[b]
      /\ pc'[a] = "idle"
  BY EndTypes DEF IInv
<1>2. TypeInv'  BY <1>1 DEF IInv, TypeInv
<1>3. Held' /\ Exclusive' /\ Progress' /\ WritesDoNotMix'
  BY <1>1 DEF IInv, Held, Exclusive, Progress, WritesDoNotMix, Reading, Updating, Writing
<1> QED  BY <1>2, <1>3 DEF IInv

LEMMA UseInv ==
  ASSUME OneThreadEach, IInv, NEW a \in Actor, Store!Use(a)
  PROVE  IInv'
<1>1. CASE job[a].kind = "read" \/ Store!Removed(a)
  BY <1>1, EndInv DEF Store!Use
<1>2. CASE ~(job[a].kind = "read" \/ Store!Removed(a))
  <2>1. "reopen" \in Store!Places \ {"creat"}  BY DEF Store!Places
  <2>2. /\ pc' \in [Actor -> Store!Places \ {"creat"}]
        /\ pc[a] = "use" /\ pc'[a] = "reopen"
        /\ \A b \in Actor \ {a} : pc'[b] = pc[b]
    BY <1>2, <2>1, GotoMoves DEF IInv, Store!Use
  <2>3. job[a].key \in Key /\ job[a].value \in Value \cup {NULL}
    BY <1>2, <2>2 DEF IInv, TypeInv, Store!Job
  <2>4. /\ items' = [items EXCEPT ![a][job[a].key] = job[a].value]
        /\ UNCHANGED <<job, put, disk, lock, crashes, whole, raced>>
    BY <1>2 DEF Store!Use
  <2>5. items' \in [Actor -> Store!Items] /\ \A b \in Actor \ {a} : items'[b] = items[b]
    BY <2>3, <2>4 DEF IInv, TypeInv, Store!Items
  <2>6. TypeInv'  BY <2>2, <2>4, <2>5 DEF IInv, TypeInv
  <2>7. Held' /\ Exclusive' /\ Progress' /\ WritesDoNotMix'
    BY <2>2, <2>4, <2>5
    DEF IInv, Held, Exclusive, Progress, WritesDoNotMix, Reading, Updating, Writing
  <2> QED  BY <2>6, <2>7 DEF IInv
<1> QED  BY <1>1, <1>2

LEMMA LockExclusiveInv ==
  ASSUME OneThreadEach, IInv, NEW a \in Actor, Store!LockExclusive(a)
  PROVE  IInv'
<1>1. "fopen" \in Store!Places \ {"creat"} /\ ProgramOf[a] \in Program
  BY ActorAssumption DEF Store!Places
<1>2. /\ pc' \in [Actor -> Store!Places \ {"creat"}]
      /\ pc[a] = "reopen" /\ pc'[a] = "fopen"
      /\ \A b \in Actor \ {a} : pc'[b] = pc[b]
  BY <1>1, GotoMoves DEF IInv, Store!LockExclusive
<1>3. TypeInv'  BY <1>1, <1>2 DEF IInv, TypeInv, Store!LockExclusive, Store!Locks
<1>4. /\ \A p \in Program \ {ProgramOf[a]} : lock'[p] = lock[p] /\ lock[p] = "none"
      /\ lock'[ProgramOf[a]] = "write"
  BY <1>1 DEF Store!LockExclusive, Store!Locks, Store!Others, IInv, TypeInv
<1>5. \A b \in Actor \ {a} : ProgramOf[b] \in Program \ {ProgramOf[a]}
  BY ActorAssumption DEF OneThreadEach
<1>6. Held'  BY <1>2, <1>4, <1>5 DEF IInv, Held, Reading, Updating
<1>7. Exclusive'  BY <1>1, <1>4 DEF IInv, Exclusive
<1>8. Progress' /\ WritesDoNotMix'
  BY <1>2 DEF IInv, Progress, WritesDoNotMix, Writing, Store!LockExclusive
<1> QED  BY <1>3, <1>6, <1>7, <1>8 DEF IInv

LEMMA TruncateInv ==
  ASSUME OneThreadEach, IInv, NEW a \in Actor, Store!Truncate(a)
  PROVE  IInv'
<1>1. "write" \in Store!Places \ {"creat"} /\ Store!Empty \in Store!Items
  BY DEF Store!Places, Store!Empty, Store!Items
<1>2. /\ pc' \in [Actor -> Store!Places \ {"creat"}]
      /\ pc[a] = "fopen" /\ pc'[a] = "write"
      /\ \A b \in Actor \ {a} : pc'[b] = pc[b]
  BY <1>1, GotoMoves DEF IInv, Store!Truncate
<1>3. \A b \in Actor \ {a} : ~Updating(b)
  BY <1>2, Alone DEF IInv, Updating
<1>4. TypeInv'  BY <1>1, <1>2 DEF IInv, TypeInv, Store!Truncate
<1>5. Held' /\ Exclusive'
  BY <1>2 DEF IInv, Held, Exclusive, Reading, Updating, Store!Truncate
<1>6. Progress' /\ WritesDoNotMix'
  BY <1>2, <1>3 DEF Progress, WritesDoNotMix, Writing, Updating
<1> QED  BY <1>4, <1>5, <1>6 DEF IInv

LEMMA WriteInv ==
  ASSUME OneThreadEach, IInv, NEW a \in Actor, Store!Write(a)
  PROVE  IInv'
<1>1. "fclose" \in Store!Places \ {"creat"}  BY DEF Store!Places
<1>2. /\ pc' \in [Actor -> Store!Places \ {"creat"}]
      /\ pc[a] = "write" /\ pc'[a] = "fclose"
      /\ \A b \in Actor \ {a} : pc'[b] = pc[b]
  BY <1>1, GotoMoves DEF IInv, Store!Write
<1>3. \A b \in Actor \ {a} : ~Updating(b)
  BY <1>2, Alone DEF IInv, Updating
<1>4. PICK D \in SUBSET Key : put' = [put EXCEPT ![a] = D] /\ disk' = Store!Written(a, D)
  BY DEF Store!Write
<1>5. /\ disk' \in Store!Items
      /\ put' \in [Actor -> SUBSET Key]
      /\ put'[a] = D
      /\ \A k \in D : disk'[k] = items[a][k]
  BY <1>4 DEF IInv, TypeInv, Store!Written, Store!Items
<1>6. TypeInv'  BY <1>2, <1>5 DEF IInv, TypeInv, Store!Write
<1>7. Held' /\ Exclusive'
  BY <1>2 DEF IInv, Held, Exclusive, Reading, Updating, Store!Write
<1>8. Progress' /\ WritesDoNotMix'
  BY <1>2, <1>3, <1>5 DEF Progress, WritesDoNotMix, Writing, Updating, Store!Write
<1> QED  BY <1>6, <1>7, <1>8 DEF IInv

LEMMA CloseInv ==
  ASSUME OneThreadEach, IInv, NEW a \in Actor, Store!Close(a)
  PROVE  IInv'
<1>1. /\ pc' \in [Actor -> Store!Places \ {"creat"}]
      /\ job' \in [Actor -> Store!Job \cup {NULL}]
      /\ items' \in [Actor -> Store!Items]
      /\ put' \in [Actor -> SUBSET Key]
      /\ \A b \in Actor : pc'[b] # "idle" => job'[b] \in Store!Job
      /\ \A b \in Actor \ {a} : pc'[b] = pc[b] /\ items'[b] = items[b] /\ put'[b] = put[b]
      /\ pc'[a] = "idle"
  BY EndTypes DEF IInv, Store!Close
<1>2. pc[a] = "fclose" /\ disk' = items[a] /\ whole' = items[a]
  BY CloseWrites DEF IInv, Store!Close
<1>3. \A b \in Actor \ {a} : ~Updating(b) /\ ~Reading(b)
  BY <1>2, Alone DEF IInv, Updating
<1>4. ProgramOf[a] \in Program  BY ActorAssumption
<1>5. TypeInv'  BY <1>1, <1>2, <1>4 DEF IInv, TypeInv, Store!Close, Store!Locks
<1>6. /\ \A p \in Program \ {ProgramOf[a]} : lock'[p] = lock[p]
      /\ lock'[ProgramOf[a]] = "none"
  BY <1>4 DEF Store!Close, Store!Locks, IInv, TypeInv
<1>7. Held'  BY <1>1, <1>3 DEF Held, Reading, Updating
<1>8. Exclusive'  BY <1>4, <1>6 DEF IInv, Exclusive
<1>9. Progress' /\ WritesDoNotMix'
  BY <1>1, <1>2, <1>3 DEF Progress, WritesDoNotMix, Writing, Updating
<1> QED  BY <1>5, <1>7, <1>8, <1>9 DEF IInv

LEMMA OpenFailsInv ==
  ASSUME OneThreadEach, IInv, NEW a \in Actor, Store!OpenFails(a)
  PROVE  IInv'
<1>1. CASE pc[a] \in {"open", "reopen"}
  BY <1>1, EndInv DEF Store!OpenFails
<1>2. CASE pc[a] = "fopen"
  <2>1. /\ pc' \in [Actor -> Store!Places \ {"creat"}]
        /\ job' \in [Actor -> Store!Job \cup {NULL}]
        /\ items' \in [Actor -> Store!Items]
        /\ put' \in [Actor -> SUBSET Key]
        /\ \A b \in Actor : pc'[b] # "idle" => job'[b] \in Store!Job
        /\ \A b \in Actor \ {a} : pc'[b] = pc[b] /\ items'[b] = items[b] /\ put'[b] = put[b]
        /\ pc'[a] = "idle"
    BY EndTypes DEF IInv, Store!OpenFails
  <2>2. ProgramOf[a] \in Program  BY ActorAssumption
  <2>3. \A b \in Actor \ {a} : ~Updating(b) /\ ~Reading(b)
    BY <1>2, Alone DEF IInv, Updating
  <2>4. TypeInv'  BY <1>2, <2>1, <2>2 DEF IInv, TypeInv, Store!OpenFails
  <2>5. /\ \A p \in Program \ {ProgramOf[a]} : lock'[p] = lock[p]
        /\ lock'[ProgramOf[a]] = "none"
    BY <1>2, <2>2 DEF Store!OpenFails, IInv, TypeInv
  <2>6. Held'  BY <2>1, <2>3 DEF Held, Reading, Updating
  <2>7. Exclusive'  BY <2>2, <2>5 DEF IInv, Exclusive
  <2>8. Progress' /\ WritesDoNotMix'
    BY <1>2, <2>1, <2>3 DEF IInv, Progress, WritesDoNotMix, Writing, Updating, Store!OpenFails
  <2> QED  BY <2>4, <2>6, <2>7, <2>8 DEF IInv
<1> QED  BY <1>1, <1>2 DEF Store!OpenFails

(* A killed writer leaves what it has written; nobody else was writing.    *)
LEMMA CrashInv ==
  ASSUME OneThreadEach, IInv, NEW p \in Program, Store!Crash(p)
  PROVE  IInv'
<1> DEFINE mine == {a \in Actor : ProgramOf[a] = p}
<1>1. Store!End(mine)  BY DEF Store!Crash
<1>2. /\ pc' \in [Actor -> Store!Places \ {"creat"}]
      /\ job' \in [Actor -> Store!Job \cup {NULL}]
      /\ items' \in [Actor -> Store!Items]
      /\ put' \in [Actor -> SUBSET Key]
      /\ \A b \in Actor : pc'[b] # "idle" => job'[b] \in Store!Job
      /\ \A b \in Actor \ mine : pc'[b] = pc[b] /\ items'[b] = items[b] /\ put'[b] = put[b]
      /\ \A b \in mine : pc'[b] = "idle"
  BY <1>1, EndTypes DEF IInv
<1>3. /\ \A q \in Program \ {p} : lock'[q] = lock[q]
      /\ lock'[p] = "none"
      /\ lock' \in [Program -> {"none", "read", "write"}]
  BY DEF Store!Crash, IInv, TypeInv
<1>4. TypeInv'
  BY <1>2, <1>3, CrashAssumption DEF IInv, TypeInv, Store!Crash
<1>5. \A b \in Actor \ mine : ProgramOf[b] \in Program \ {p}
  BY ActorAssumption
<1>6. Held'  BY <1>2, <1>3, <1>5 DEF IInv, Held, Reading, Updating
<1>7. Exclusive'  BY <1>3 DEF IInv, Exclusive
<1>8. Progress'  BY <1>2 DEF IInv, Progress, Store!Crash
<1>9. WritesDoNotMix'
  <2>1. CASE \E a \in mine : Writing(a)
    BY <2>1 DEF Store!Crash, Store!Writing, Writing, WritesDoNotMix
  <2>2. CASE ~(\E a \in mine : Writing(a))
    <3>1. disk' = disk /\ whole' = whole /\ raced' = raced
      BY <2>2 DEF Store!Crash, Store!Writing, Writing
    <3>2. \A b \in Actor : Writing(b) => Writing(b)'
      BY <1>2, <2>2 DEF Writing
    <3> QED  BY <3>1, <3>2 DEF IInv, WritesDoNotMix
  <2> QED  BY <2>1, <2>2
<1> QED  BY <1>4, <1>6, <1>7, <1>8, <1>9 DEF IInv

(* It holds after every step.                                              *)
LEMMA NextInv ==
  ASSUME OneThreadEach, FileExists, IInv, [Store!Next]_(Store!vars)
  PROVE  IInv'
<1>1. ASSUME NEW a \in Actor, NEW j \in Store!Job, Store!Call(a, j) PROVE IInv'
  BY <1>1, CallInv
<1>2. ASSUME NEW a \in Actor, Store!Step(a) PROVE IInv'
  <2>1. pc[a] # "creat"  BY DEF IInv, TypeInv
  <2>2. ~Store!Creat(a)  BY <2>1 DEF Store!Creat, Store!Goto
  <2> QED
    BY <1>2, <2>2, AccessInv, LockSharedInv, ReadInv, UnlockInv, UseInv, LockExclusiveInv,
       TruncateInv, WriteInv, CloseInv DEF Store!Step
<1>3. ASSUME NEW a \in Actor, Store!OpenFails(a) PROVE IInv'
  BY <1>3, OpenFailsInv
<1>4. ASSUME NEW p \in Program, Store!Crash(p) PROVE IInv'
  BY <1>4, CrashInv
<1>5. CASE UNCHANGED Store!vars
  BY <1>5 DEF Store!vars, Store!store, IInv, TypeInv, Held, Exclusive, Progress,
       WritesDoNotMix, Reading, Updating, Writing
<1> QED  BY <1>1, <1>2, <1>3, <1>4, <1>5 DEF Store!Next

(* Two commits never mix: with single-threaded programs and a file that    *)
(* exists, disk is the last complete write whenever no call is writing.    *)
THEOREM CommitsDoNotMix ==
  ASSUME OneThreadEach, FileExists
  PROVE  Store!Spec => []WritesDoNotMix
<1>1. Store!Init => IInv  BY InitInv
<1>2. IInv /\ [Store!Next]_(Store!vars) => IInv'  BY NextInv
<1>3. IInv => WritesDoNotMix  BY DEF IInv
<1> QED  BY <1>1, <1>2, <1>3, PTL DEF Store!Spec

(* Type correctness under the same conditions.                             *)
THEOREM StoreTypes ==
  ASSUME OneThreadEach, FileExists
  PROVE  Store!Spec => []Store!TypeOK
<1>1. Store!Init => IInv  BY InitInv
<1>2. IInv /\ [Store!Next]_(Store!vars) => IInv'  BY NextInv
<1>3. IInv => Store!TypeOK  BY DEF IInv, TypeInv, Store!TypeOK
<1> QED  BY <1>1, <1>2, <1>3, PTL DEF Store!Spec

(* What cfg_refresh takes, it takes from the disk.                         *)
LEMMA ReadByRefresh ==
  ASSUME TypeInv, [Store!Next]_(Store!vars), NEW a \in Actor, Refreshes(a)
  PROVE  items'[a] = disk
<1>1. pc[a] = "fstat" /\ pc'[a] = "unlock" /\ pc \in [Actor -> Store!Places \ {"creat"}]
  BY DEF Refreshes, TypeInv
<1>2. \A A \in SUBSET Actor : ~Store!End(A)
  BY <1>1 DEF Store!End
<1>3. ASSUME NEW b \in Actor, Store!Read(b)
      PROVE  items'[a] = disk
  <2>1. a = b
    BY <1>1, <1>3 DEF Store!Read, Store!Goto
  <2> QED BY <1>3, <2>1 DEF Store!Read, TypeInv
<1>4. ASSUME NEW b \in Actor, NEW f, NEW t, Store!Goto(b, f, t), f # "fstat"
      PROVE  FALSE
  BY <1>1, <1>4 DEF Store!Goto
<1>5. ASSUME NEW b \in Actor,
             \/ Store!Step(b)
             \/ Store!OpenFails(b)
             \/ \E j \in Store!Job : Store!Call(b, j)
      PROVE  Store!Read(b)
  <2>1. ~(\E j \in Store!Job : Store!Call(b, j))
    BY <1>4 DEF Store!Call
  <2>2. ~Store!OpenFails(b)
    BY <1>2 DEF Store!OpenFails
  <2>3. ~Store!Access(b) /\ ~Store!Creat(b) /\ ~Store!LockShared(b) /\ ~Store!Unlock(b)
    BY <1>2, <1>4 DEF Store!Access, Store!Creat, Store!LockShared, Store!Unlock
  <2>4. ~Store!Use(b) /\ ~Store!LockExclusive(b) /\ ~Store!Truncate(b)
    BY <1>2, <1>4 DEF Store!Use, Store!LockExclusive, Store!Truncate
  <2>5. ~Store!Write(b) /\ ~Store!Close(b)
    BY <1>2, <1>4 DEF Store!Write, Store!Close
  <2> QED BY <1>5, <2>1, <2>2, <2>3, <2>4, <2>5 DEF Store!Step
<1>6. ASSUME NEW p \in Program
      PROVE  ~Store!Crash(p)
  BY <1>2 DEF Store!Crash
<1>7. ~UNCHANGED Store!vars
  BY <1>1 DEF Store!vars, Store!store
<1> QED BY <1>3, <1>5, <1>6, <1>7 DEF Store!Next

(* cfg_refresh never reads a configuration that is being written.          *)
THEOREM ReadersSeeWholeFiles ==
  ASSUME OneThreadEach, FileExists
  PROVE  Store!Spec => ReadsWhole
<1>1. Store!Init => IInv  BY InitInv
<1>2. IInv /\ [Store!Next]_(Store!vars) => IInv'  BY NextInv
<1>3. ASSUME IInv, [Store!Next]_(Store!vars), NEW a \in Actor, Refreshes(a), ~raced
      PROVE  items'[a] = whole
  <2>1. items'[a] = disk
    BY <1>3, ReadByRefresh DEF IInv
  <2>2. Reading(a)
    BY <1>3 DEF Refreshes, Reading
  <2>3. \A b \in Actor : ~Writing(b)
    BY <1>3, <2>2, Alone DEF IInv, Reading, Updating, Writing
  <2> QED  BY <1>3, <2>1, <2>3 DEF IInv, WritesDoNotMix
<1>4. IInv /\ [Store!Next]_(Store!vars)
        => [\A a \in Actor : Refreshes(a) /\ ~raced => items'[a] = whole]_store
  BY <1>3
<1> QED  BY <1>1, <1>2, <1>4, PTL DEF Store!Spec, ReadsWhole
=============================================================================
