-------------------------- MODULE CharClassProofs --------------------------
(***************************************************************************)
(* A CharClassBuilder is a set of runes: adding, cutting and complementing *)
(* do to its ranges what the set operations do to the set, the ranges stay *)
(* apart, and the counts and bitmaps on the side stay those of the set.    *)
(*                                                                         *)
(* The argument.  Ranges that are apart are determined by their runes, so  *)
(* the order in which they were added is lost.  The sum of their widths is *)
(* the number of their runes, since none is counted twice.  Sorting them   *)
(* loses nothing, so that a class can be negated before or after.          *)
(***************************************************************************)
EXTENDS CharClassBuilder, OrderLemmas

Rune == 0 .. Runemax
Ranges == Rune \X Rune

\* The runes of ranges.
Runes(ranges) == {c \in Rune : \E r \in ranges : r[1] <= c /\ c <= r[2]}

\* Ranges that neither overlap nor abut.
Apart(ranges) ==
    \A r, s \in ranges : r[1] <= r[2] /\ (r # s => r[2] + 1 < s[1] \/ s[2] + 1 < r[1])

IsClass(cc) ==
    /\ cc = [ranges |-> cc.ranges, upper |-> cc.upper, lower |-> cc.lower, nrunes |-> cc.nrunes]
    /\ cc.ranges \in SUBSET Ranges
    /\ IsExact(cc)

-----------------------------------------------------------------------------
(* Ranges and their runes *)

LEMMA RuneFacts ==
    /\ Runemax \in Nat /\ Rune \in SUBSET Nat /\ Rune \in SUBSET Int
    /\ Upper \in SUBSET Rune /\ LowerCase \in SUBSET Rune
<1>1. /\ MaxByte \in Nat /\ UpperA \in Nat /\ UpperZ \in Nat /\ LowerA \in Nat
      /\ UpperA <= UpperZ /\ UpperZ < LowerA /\ LowerA + (UpperZ - UpperA) <= MaxByte
  BY ByteAssumption
<1> QED
  BY <1>1, SMT DEF Rune, Runemax, Upper, LowerCase, LowerZ

\* A set of ranges is finite, and so are its runes.
LEMMA RangesFinite ==
    ASSUME NEW R \in SUBSET Ranges
    PROVE  IsFiniteSet(R) /\ IsFiniteSet(Runes(R)) /\ Cardinality(Runes(R)) \in Nat
<1>1. IsFiniteSet(Rune) /\ IsFiniteSet(Ranges)
  <2>1. 0 \in Int /\ Runemax \in Int
    BY RuneFacts, SMT
  <2>2. IsFiniteSet(Rune)
    BY <2>1, FS_Interval DEF Rune
  <2> QED
    BY <2>2, FS_Product DEF Ranges
<1>2. Runes(R) \in SUBSET Rune
  BY DEF Runes
<1> QED
  BY <1>1, <1>2, FS_Subset, FS_CardinalityType

LEMMA RangeFacts ==
    ASSUME NEW r \in Ranges
    PROVE  r[1] \in Rune /\ r[2] \in Rune /\ r[1] \in Nat /\ r[2] \in Nat /\ r = <<r[1], r[2]>>
<1>1. r[1] \in Rune /\ r[2] \in Rune /\ r = <<r[1], r[2]>>
  BY DEF Ranges
<1> QED
  BY <1>1, RuneFacts

\* The runes of one range.
LEMMA RunesOfRange ==
    ASSUME NEW r \in Ranges
    PROVE  Runes({r}) = r[1] .. r[2]
<1>1. r[1] \in Int /\ r[2] \in Int /\ r[1] \in Rune /\ r[2] \in Rune
  BY RangeFacts, RuneFacts
<1> QED
  BY <1>1, RuneFacts, SMT DEF Runes, Rune

\* A range has as many runes as it is wide.
LEMMA WidthOfRange ==
    ASSUME NEW r \in Ranges, r[1] <= r[2]
    PROVE  Cardinality(Runes({r})) = Width(r) /\ Width(r) \in Nat
<1>1. r[1] \in Int /\ r[2] \in Int /\ r[1] \in Rune /\ r[2] \in Rune
  BY RangeFacts, RuneFacts
<1>2. Runes({r}) = r[1] .. r[2]
  BY RunesOfRange
<1>3. Cardinality(r[1] .. r[2]) = IF r[1] > r[2] THEN 0 ELSE r[2] - r[1] + 1
  BY <1>1, FS_Interval
<1>4. ~(r[1] > r[2])
  BY <1>1, SMT
<1>5. Width(r) \in Nat
  BY <1>1, SMT DEF Width
<1> QED
  BY <1>2, <1>3, <1>4, <1>5 DEF Width

\* The runes of two sets of ranges are those of the one and of the other.
LEMMA RunesJoin ==
    ASSUME NEW R, NEW S
    PROVE  /\ Runes(R \union S) = Runes(R) \union Runes(S)
           /\ R \in SUBSET S => Runes(R) \in SUBSET Runes(S)
BY DEF Runes

\* The runes of a range are among those of the ranges it is one of.
LEMMA RunesWithin ==
    ASSUME NEW R \in SUBSET Ranges, NEW r \in R
    PROVE  r[1] .. r[2] \in SUBSET Runes(R)
<1>1. {r} \in SUBSET R /\ r \in Ranges
  OBVIOUS
<1>2. Runes({r}) \in SUBSET Runes(R)
  BY <1>1, RunesJoin
<1> QED
  BY <1>1, <1>2, RunesOfRange

\* Ranges apart from each other share no rune.
LEMMA ApartDisjoint ==
    ASSUME NEW R \in SUBSET Ranges, Apart(R), NEW S \in SUBSET R, NEW T \in SUBSET R,
           S \intersect T = {}
    PROVE  Runes(S) \intersect Runes(T) = {}
<1> SUFFICES ASSUME NEW c \in Rune, NEW r \in S, NEW s \in T,
                    r[1] <= c, c <= r[2], s[1] <= c, c <= s[2]
             PROVE  FALSE
  BY DEF Runes
<1>1. r # s /\ r \in R /\ s \in R
  OBVIOUS
<1>2. r[2] + 1 < s[1] \/ s[2] + 1 < r[1]
  BY <1>1 DEF Apart
<1>3. {r[1], r[2], s[1], s[2]} \subseteq Int /\ c \in Int
  BY <1>1, RangeFacts, RuneFacts
<1> QED
  BY <1>2, <1>3, SMT

\* Of ranges that are apart, the runes of two parts add up.
LEMMA RunesAdd ==
    ASSUME NEW R \in SUBSET Ranges, Apart(R), NEW S \in SUBSET R
    PROVE  /\ Cardinality(Runes(R)) = Cardinality(Runes(R \ S)) + Cardinality(Runes(S))
           /\ {Cardinality(Runes(R)), Cardinality(Runes(R \ S)), Cardinality(Runes(S))} \subseteq Nat
<1>1. R \ S \in SUBSET R /\ (R \ S) \intersect S = {} /\ R = (R \ S) \union S
      /\ R \ S \in SUBSET Ranges /\ S \in SUBSET Ranges
  OBVIOUS
<1>2. Runes(R) = Runes(R \ S) \union Runes(S) /\ Runes(R \ S) \intersect Runes(S) = {}
  BY <1>1, RunesJoin, ApartDisjoint
<1>3. /\ IsFiniteSet(Runes(R \ S)) /\ Cardinality(Runes(R \ S)) \in Nat
      /\ IsFiniteSet(Runes(S)) /\ Cardinality(Runes(S)) \in Nat
      /\ Cardinality(Runes(R)) \in Nat
  BY <1>1, RangesFinite
<1>4. Cardinality(Runes(R \ S) \union Runes(S)) =
        Cardinality(Runes(R \ S)) + Cardinality(Runes(S)) - Cardinality(Runes(R \ S) \intersect Runes(S))
  BY <1>3, FS_Union
<1>5. Cardinality(Runes(R \ S) \intersect Runes(S)) = 0
  BY <1>2, FS_EmptySet
<1> QED
  BY <1>2, <1>3, <1>4, <1>5, SMT

-----------------------------------------------------------------------------
(* Sums of widths *)

\* What a sum over R is for subsets of R, from what it is for smaller ones.
Sums(g, R) ==
    [s \in SUBSET R |->
        IF s = {} THEN 0
        ELSE Width(CHOOSE r \in s : TRUE) + g[s \ {CHOOSE r \in s : TRUE}]]

\* A set of subsets of a finite set has one that no other one is part of.
LEMMA LeastSubset ==
    ASSUME NEW R, IsFiniteSet(R), NEW U \in SUBSET SUBSET R, U # {}
    PROVE  \E s \in U : \A t \in SUBSET s : t # s => t \notin U
<1>1. IsWellFoundedOn(StrictSubsetOrdering(R), FiniteSubsetsOf(R))
  BY FS_StrictSubsetOrderingWellFounded
<1>2. U \subseteq FiniteSubsetsOf(R)
  BY FS_Subset DEF FiniteSubsetsOf
<1>3. PICK s \in U : \A t \in U : ~(<<t, s>> \in StrictSubsetOrdering(R))
  BY <1>1, <1>2, WFMin
<1>4. ASSUME NEW t \in SUBSET s, t # s PROVE t \notin U
  BY <1>3, <1>4 DEF StrictSubsetOrdering
<1> QED
  BY <1>4

\* The runes of ranges that are apart are as many as the ranges are wide together.
LEMMA SumOfWidths ==
    ASSUME NEW R \in SUBSET Ranges, Apart(R)
    PROVE  MapThenSumSet(Width, R) = Cardinality(Runes(R))
<1> DEFINE any(s) == CHOOSE r \in s : TRUE
           G == [s \in SUBSET R |-> Cardinality(Runes(s))]
<1>1. ASSUME NEW s \in SUBSET R, s # {}
      PROVE  /\ any(s) \in s /\ s \ {any(s)} \in SUBSET R
             /\ Cardinality(Runes(s)) = Width(any(s)) + Cardinality(Runes(s \ {any(s)}))
  <2>1. any(s) \in s
    BY <1>1
  <2> DEFINE r == any(s)
  <2>2. r \in s
    BY <2>1
  <2> HIDE DEF r
  <2>3. s \in SUBSET Ranges /\ Apart(s) /\ {r} \in SUBSET s /\ r \in Ranges /\ r[1] <= r[2]
    BY <2>2 DEF Apart
  <2>4. /\ Cardinality(Runes(s)) = Cardinality(Runes(s \ {r})) + Cardinality(Runes({r}))
        /\ Cardinality(Runes(s \ {r})) \in Nat
    BY <2>3, RunesAdd
  <2>5. Cardinality(Runes({r})) = Width(r) /\ Width(r) \in Nat
    BY <2>3, WidthOfRange
  <2>6. Cardinality(Runes(s)) = Width(r) + Cardinality(Runes(s \ {r}))
    BY <2>4, <2>5, SMT
  <2> QED
    BY <2>1, <2>6 DEF r
<1> HIDE DEF any
<1>2. G = Sums(G, R)
  <2>1. Cardinality(Runes({})) = 0
    BY FS_EmptySet DEF Runes
  <2>2. ASSUME NEW s \in SUBSET R
        PROVE  G[s] = IF s = {} THEN 0 ELSE Width(any(s)) + G[s \ {any(s)}]
    BY <1>1, <2>1, <2>2
  <2>3. Sums(G, R) = [s \in SUBSET R |-> IF s = {} THEN 0 ELSE Width(any(s)) + G[s \ {any(s)}]]
    BY DEF Sums, any
  <2> HIDE DEF G
  <2>4. G = [s \in SUBSET R |-> G[s]]
    BY DEF G
  <2> QED
    BY <2>2, <2>3, <2>4
<1>3. ASSUME NEW g, g = Sums(g, R) PROVE g = G
  <2> DEFINE U == {s \in SUBSET R : g[s] # G[s]}
  <2>1. ASSUME NEW h, h = Sums(h, R), NEW s \in SUBSET R
        PROVE  h[s] = IF s = {} THEN 0 ELSE Width(any(s)) + h[s \ {any(s)}]
    <3>1. h = [t \in SUBSET R |-> IF t = {} THEN 0 ELSE Width(any(t)) + h[t \ {any(t)}]]
      BY <2>1 DEF Sums, any
    <3> QED
      BY <3>1
  <2>2. U = {}
    <3> SUFFICES ASSUME U # {} PROVE FALSE
      OBVIOUS
    <3>1. PICK s \in U : \A t \in SUBSET s : t # s => t \notin U
      <4>1. U \in SUBSET SUBSET R /\ IsFiniteSet(R)
        BY RangesFinite
      <4> HIDE DEF U
      <4> QED
        BY <4>1, LeastSubset
    <3>2. s \in SUBSET R /\ g[s] # G[s]
      OBVIOUS
    <3>3. s # {}
      BY <1>2, <1>3, <2>1, <3>2
    <3>4. any(s) \in s /\ s \ {any(s)} \in SUBSET s /\ s \ {any(s)} # s
      BY <1>1, <3>2, <3>3
    <3>5. g[s \ {any(s)}] = G[s \ {any(s)}]
      BY <3>1, <3>2, <3>4
    <3> QED
      BY <1>2, <1>3, <2>1, <3>2, <3>3, <3>5
  <2>3. g = [s \in SUBSET R |-> g[s]] /\ G = [s \in SUBSET R |-> G[s]]
    BY <1>3 DEF Sums
  <2>4. \A s \in SUBSET R : g[s] = G[s]
    BY <2>2
  <2> HIDE DEF G
  <2> QED
    BY <2>3, <2>4
<1> HIDE DEF G
<1>4. G = CHOOSE g : g = Sums(g, R)
  BY <1>2, <1>3
<1>5. MapThenSumSet(Width, R) = (CHOOSE g : g = Sums(g, R))[R]
  BY DEF MapThenSumSet, MapThenFoldSet, Sums
<1> QED
  BY <1>4, <1>5 DEF G

\* What the ranges of a class are, and its counts and letters, in terms of its runes.
LEMMA ClassFacts ==
    ASSUME NEW R \in SUBSET Ranges, NEW cc,
           cc = [ranges |-> R, upper |-> cc.upper, lower |-> cc.lower, nrunes |-> cc.nrunes]
    PROVE  IsClass(cc) <=>
              /\ Apart(R)
              /\ cc.nrunes = Cardinality(Runes(R))
              /\ cc.upper = Upper \intersect Runes(R)
              /\ cc.lower = LowerCase \intersect Runes(R)
<1>1. cc.ranges = R
  OBVIOUS
<1>2. ASSUME NEW c \in Rune PROVE HasRune(cc, c) <=> c \in Runes(R)
  BY <1>1 DEF HasRune, Find, Runes
<1>3. {c \in Upper : HasRune(cc, c)} = Upper \intersect Runes(R)
  BY <1>2, RuneFacts
<1>4. {c \in LowerCase : HasRune(cc, c)} = LowerCase \intersect Runes(R)
  BY <1>2, RuneFacts
<1>5. IsExact(cc) <=> /\ Apart(R) /\ cc.nrunes = MapThenSumSet(Width, R)
                      /\ cc.upper = Upper \intersect Runes(R)
                      /\ cc.lower = LowerCase \intersect Runes(R)
  BY <1>1, <1>3, <1>4 DEF IsExact, Apart
<1>6. IsClass(cc) <=> IsExact(cc)
  BY <1>1 DEF IsClass
<1> QED
  BY <1>5, <1>6, SumOfWidths

-----------------------------------------------------------------------------
(* AddRange *)

\* The range that replaces those that lo-hi touches or overlaps.
LEMMA JoinedRange ==
    ASSUME NEW R \in SUBSET Ranges, Apart(R), NEW lo \in Rune, NEW hi \in Rune, lo <= hi
    PROVE  LET gone == Find(R, lo - 1, hi + 1)
               first == Min({lo} \union {r[1] : r \in gone})
               last == Max({hi} \union {r[2] : r \in gone})
           IN  /\ gone \in SUBSET R /\ <<first, last>> \in Ranges
               /\ first <= lo /\ hi <= last
               /\ \A r \in gone : first <= r[1] /\ r[2] <= last
               /\ first = lo \/ \E r \in gone : r[1] = first
               /\ last = hi \/ \E r \in gone : r[2] = last
<1> DEFINE gone == Find(R, lo - 1, hi + 1)
           begins == {lo} \union {r[1] : r \in gone}
           ends == {hi} \union {r[2] : r \in gone}
<1>1. gone \in SUBSET R
  BY DEF Find
<1>2. begins \in SUBSET Nat /\ ends \in SUBSET (0 .. Runemax) /\ begins \in SUBSET Rune
      /\ lo \in begins /\ hi \in ends
  <2>1. \A r \in gone : r[1] \in Rune /\ r[2] \in Rune
    BY <1>1, RangeFacts
  <2> HIDE DEF gone
  <2> QED
    BY <2>1, RuneFacts DEF Rune
<1>3. \A r \in gone : r[1] \in begins /\ r[2] \in ends
  OBVIOUS
<1>4. \A n \in begins : n = lo \/ \E r \in gone : r[1] = n
  OBVIOUS
<1>5. \A n \in ends : n = hi \/ \E r \in gone : r[2] = n
  OBVIOUS
<1> HIDE DEF gone, begins, ends
<1>6. Min(begins) \in begins /\ \A m \in begins : Min(begins) <= m
  BY <1>2, MinIsLeast
<1>7. Max(ends) \in ends /\ \A m \in ends : m <= Max(ends)
  BY <1>2, RuneFacts, MaxIsGreatest
<1>8. <<Min(begins), Max(ends)>> \in Ranges
  BY <1>2, <1>6, <1>7 DEF Ranges, Rune
<1> QED
  BY <1>1, <1>2, <1>3, <1>4, <1>5, <1>6, <1>7, <1>8 DEF gone, begins, ends

\* It is apart from those that stay.
LEMMA JoinedApart ==
    ASSUME NEW R \in SUBSET Ranges, Apart(R), NEW lo \in Rune, NEW hi \in Rune, lo <= hi,
           NEW j \in Ranges, NEW gone, gone = Find(R, lo - 1, hi + 1),
           j[1] <= lo, hi <= j[2],
           j[1] = lo \/ \E r \in gone : r[1] = j[1],
           j[2] = hi \/ \E r \in gone : r[2] = j[2]
    PROVE  Apart((R \ gone) \union {j}) /\ (R \ gone) \intersect {j} = {}
<1>1. lo \in Int /\ hi \in Int /\ j[1] \in Int /\ j[2] \in Int /\ j[1] <= j[2]
  <2>1. lo \in Int /\ hi \in Int /\ j[1] \in Int /\ j[2] \in Int
    BY RangeFacts, RuneFacts
  <2> QED
    BY <2>1, SMT
<1>2. ASSUME NEW r \in R \ gone
      PROVE  r[1] <= r[2] /\ (j[2] + 1 < r[1] \/ r[2] + 1 < j[1])
  <2>1. r \in R /\ r[1] \in Int /\ r[2] \in Int /\ r[1] <= r[2]
    BY RangeFacts, RuneFacts DEF Apart
  <2>2. ~(r[1] <= hi + 1 /\ lo - 1 <= r[2])
    BY <2>1 DEF Find
  <2>3. ASSUME NEW s \in gone
        PROVE  /\ s[1] \in Int /\ s[2] \in Int /\ s[1] <= s[2] /\ s[1] <= hi + 1 /\ lo - 1 <= s[2]
               /\ r[2] + 1 < s[1] \/ s[2] + 1 < r[1]
    <3>1. s \in R /\ s # r /\ s[1] <= hi + 1 /\ lo - 1 <= s[2]
      BY DEF Find
    <3>2. s[1] \in Int /\ s[2] \in Int
      BY <3>1, RangeFacts, RuneFacts
    <3> QED
      BY <2>1, <3>1, <3>2 DEF Apart
  <2>4. CASE r[1] > hi + 1
    <3>1. CASE j[2] = hi
      BY <1>1, <2>1, <2>4, <3>1, SMT
    <3>2. CASE j[2] # hi
      <4>1. PICK s \in gone : s[2] = j[2]
        BY <3>2
      <4>2. /\ s[1] \in Int /\ s[2] \in Int /\ s[1] <= s[2] /\ s[1] <= hi + 1
            /\ r[2] + 1 < s[1] \/ s[2] + 1 < r[1]
        BY <2>3
      <4> QED
        BY <1>1, <2>1, <2>4, <4>1, <4>2, SMT
    <3> QED
      BY <3>1, <3>2
  <2>5. CASE r[2] < lo - 1
    <3>1. CASE j[1] = lo
      BY <1>1, <2>1, <2>5, <3>1, SMT
    <3>2. CASE j[1] # lo
      <4>1. PICK s \in gone : s[1] = j[1]
        BY <3>2
      <4>2. /\ s[1] \in Int /\ s[2] \in Int /\ s[1] <= s[2] /\ lo - 1 <= s[2]
            /\ r[2] + 1 < s[1] \/ s[2] + 1 < r[1]
        BY <2>3
      <4> QED
        BY <1>1, <2>1, <2>5, <4>1, <4>2, SMT
    <3> QED
      BY <3>1, <3>2
  <2> QED
    BY <1>1, <2>1, <2>2, <2>4, <2>5, SMT
<1>3. Apart((R \ gone) \union {j})
  <2> SUFFICES ASSUME NEW r \in (R \ gone) \union {j}, NEW s \in (R \ gone) \union {j}
               PROVE  r[1] <= r[2] /\ (r # s => r[2] + 1 < s[1] \/ s[2] + 1 < r[1])
    BY DEF Apart
  <2>1. CASE r \in R \ gone /\ s \in R \ gone
    BY <2>1 DEF Apart
  <2>2. CASE r \in R \ gone /\ s = j
    BY <1>2, <2>2
  <2>3. CASE r = j /\ s \in R \ gone
    BY <1>1, <1>2, <2>3
  <2>4. CASE r = j /\ s = j
    BY <1>1, <2>4
  <2> QED
    BY <2>1, <2>2, <2>3, <2>4
<1>4. j \notin R \ gone
  <2> SUFFICES ASSUME j \in R \ gone PROVE FALSE
    OBVIOUS
  <2>1. j[2] + 1 < j[1] \/ j[2] + 1 < j[1]
    BY <1>2
  <2> QED
    BY <1>1, <2>1, SMT
<1> QED
  BY <1>3, <1>4

\* It has their runes and those of lo-hi.
LEMMA JoinedRunes ==
    ASSUME NEW R \in SUBSET Ranges, Apart(R), NEW lo \in Rune, NEW hi \in Rune, lo <= hi,
           NEW j \in Ranges, NEW gone, gone = Find(R, lo - 1, hi + 1),
           j[1] <= lo, hi <= j[2], \A r \in gone : j[1] <= r[1] /\ r[2] <= j[2],
           j[1] = lo \/ \E r \in gone : r[1] = j[1],
           j[2] = hi \/ \E r \in gone : r[2] = j[2]
    PROVE  Runes({j}) = Runes(gone) \union lo .. hi
<1>1. lo \in Int /\ hi \in Int /\ j[1] \in Int /\ j[2] \in Int /\ lo .. hi \in SUBSET Rune
  <2>1. lo \in Int /\ hi \in Int /\ j[1] \in Int /\ j[2] \in Int
    BY RangeFacts, RuneFacts
  <2> QED
    BY <2>1, RuneFacts, SMT DEF Rune
<1>2. ASSUME NEW s \in gone
      PROVE  s[1] \in Int /\ s[2] \in Int /\ s[1] <= hi + 1 /\ lo - 1 <= s[2]
  <2>1. s \in R /\ s[1] <= hi + 1 /\ lo - 1 <= s[2]
    BY DEF Find
  <2> QED
    BY <2>1, RangeFacts, RuneFacts
<1>3. ASSUME NEW c \in Rune, j[1] <= c, c <= j[2], c \notin lo .. hi
      PROVE  \E r \in gone : r[1] <= c /\ c <= r[2]
  <2>1. c \in Int /\ (c < lo \/ hi < c)
    <3>1. c \in Int
      BY RuneFacts
    <3> QED
      BY <1>1, <1>3, <3>1, SMT
  <2>2. CASE c < lo
    <3>1. j[1] # lo
      BY <1>1, <1>3, <2>1, <2>2, SMT
    <3>2. PICK s \in gone : s[1] = j[1]
      BY <3>1
    <3>3. s[1] <= c /\ c <= s[2]
      BY <1>1, <1>2, <1>3, <2>1, <2>2, <3>2, SMT
    <3> QED
      BY <3>3
  <2>3. CASE hi < c
    <3>1. j[2] # hi
      BY <1>1, <1>3, <2>1, <2>3, SMT
    <3>2. PICK s \in gone : s[2] = j[2]
      BY <3>1
    <3>3. s[1] <= c /\ c <= s[2]
      BY <1>1, <1>2, <1>3, <2>1, <2>3, <3>2, SMT
    <3> QED
      BY <3>3
  <2> QED
    BY <2>1, <2>2, <2>3
<1>4. ASSUME NEW c \in Rune, NEW r \in gone, r[1] <= c, c <= r[2]
      PROVE  j[1] <= c /\ c <= j[2]
  <2>1. c \in Int /\ r[1] \in Int /\ r[2] \in Int /\ j[1] <= r[1] /\ r[2] <= j[2]
    BY <1>2, RuneFacts
  <2> QED
    BY <1>1, <1>4, <2>1, SMT
<1>5. ASSUME NEW c \in lo .. hi PROVE j[1] <= c /\ c <= j[2] /\ c \in Rune
  <2>1. c \in Int /\ lo <= c /\ c <= hi /\ c \in Rune
    BY <1>1, SMT
  <2> QED
    BY <1>1, <2>1, SMT
<1>6. \A c \in Rune : c \in Runes({j}) <=> j[1] <= c /\ c <= j[2]
  BY DEF Runes
<1>7. \A c \in Rune : c \in Runes(gone) <=> \E r \in gone : r[1] <= c /\ c <= r[2]
  BY DEF Runes
<1>8. Runes({j}) \in SUBSET Rune /\ Runes(gone) \in SUBSET Rune
  BY DEF Runes
<1> QED
  BY <1>1, <1>3, <1>4, <1>5, <1>6, <1>7, <1>8

\* Adding a range to a class adds its runes.
THEOREM AddRangeIsUnion ==
    ASSUME NEW cc, IsClass(cc), NEW lo \in Rune, NEW hi \in Rune
    PROVE  /\ IsClass(AddRange(cc, lo, hi))
           /\ Runes(AddRange(cc, lo, hi).ranges) = Runes(cc.ranges) \union lo .. hi
<1> DEFINE R == cc.ranges
           gone == Find(R, lo - 1, hi + 1)
           first == Min({lo} \union {r[1] : r \in gone})
           last == Max({hi} \union {r[2] : r \in gone})
           j == <<first, last>>
           new == (R \ gone) \union {j}
<1>1. /\ R \in SUBSET Ranges /\ Apart(R) /\ cc.nrunes = Cardinality(Runes(R))
      /\ cc.upper = Upper \intersect Runes(R) /\ cc.lower = LowerCase \intersect Runes(R)
      /\ lo \in Int /\ hi \in Int
  <2>1. R \in SUBSET Ranges
        /\ cc = [ranges |-> R, upper |-> cc.upper, lower |-> cc.lower, nrunes |-> cc.nrunes]
    BY DEF IsClass
  <2> HIDE DEF R
  <2>2. lo \in Int /\ hi \in Int
    BY RuneFacts
  <2> QED
    BY <2>1, <2>2, ClassFacts
<1>2. CASE InClass(cc, lo, hi)
  <2>1. AddRange(cc, lo, hi) = cc
    BY <1>2 DEF AddRange
  <2>2. lo .. hi \in SUBSET Runes(R)
    <3>1. CASE hi < lo
      BY <1>1, <3>1, SMT
    <3>2. CASE \E r \in R : r[1] <= lo /\ hi <= r[2]
      <4>1. PICK r \in R : r[1] <= lo /\ hi <= r[2]
        BY <3>2
      <4>2. r \in Ranges /\ r[1] \in Int /\ r[2] \in Int
        BY <1>1, RangeFacts, RuneFacts
      <4>3. ASSUME NEW c \in lo .. hi PROVE c \in Rune /\ r[1] <= c /\ c <= r[2]
        <5>1. c \in Int /\ lo <= c /\ c <= hi /\ 0 <= lo /\ hi <= Runemax
          BY <1>1, SMT DEF Rune
        <5> QED
          BY <1>1, <4>1, <4>2, <5>1, RuneFacts, SMT DEF Rune
      <4> QED
        BY <4>3 DEF Runes
    <3> QED
      BY <1>2, <3>1, <3>2 DEF InClass
  <2> QED
    BY <2>1, <2>2
<1>3. CASE ~InClass(cc, lo, hi)
  <2>1. lo <= hi
    BY <1>1, <1>3, SMT DEF InClass
  <2>2. /\ gone \in SUBSET R /\ j \in Ranges /\ j[1] <= lo /\ hi <= j[2]
        /\ \A r \in gone : j[1] <= r[1] /\ r[2] <= j[2]
        /\ j[1] = lo \/ \E r \in gone : r[1] = j[1]
        /\ j[2] = hi \/ \E r \in gone : r[2] = j[2]
        /\ j[1] = first /\ j[2] = last
    <3> HIDE DEF R
    <3> QED
      BY <1>1, <2>1, JoinedRange
  <2>3. AddRange(cc, lo, hi) =
          [ranges |-> new, upper |-> cc.upper \union (Upper \intersect lo .. hi),
           lower |-> cc.lower \union (LowerCase \intersect lo .. hi),
           nrunes |-> cc.nrunes - MapThenSumSet(Width, gone) + (last - first + 1)]
    BY <1>3 DEF AddRange, Joined
  <2> DEFINE more == AddRange(cc, lo, hi)
  <2>4. /\ more = [ranges |-> new, upper |-> more.upper, lower |-> more.lower,
                   nrunes |-> more.nrunes]
        /\ more.ranges = new
        /\ more.upper = cc.upper \union (Upper \intersect lo .. hi)
        /\ more.lower = cc.lower \union (LowerCase \intersect lo .. hi)
        /\ more.nrunes = cc.nrunes - MapThenSumSet(Width, gone) + Width(j)
    <3>1. Width(j) = last - first + 1
      BY <2>2 DEF Width
    <3> DEFINE up == cc.upper \union (Upper \intersect lo .. hi)
               low == cc.lower \union (LowerCase \intersect lo .. hi)
               n == cc.nrunes - MapThenSumSet(Width, gone) + (last - first + 1)
    <3>2. more = [ranges |-> new, upper |-> up, lower |-> low, nrunes |-> n]
      BY <2>3
    <3>3. n = cc.nrunes - MapThenSumSet(Width, gone) + Width(j)
      BY <3>1
    <3> HIDE DEF more, new, n
    <3> QED
      BY <3>2, <3>3
  <2>5. gone = Find(R, lo - 1, hi + 1)
    OBVIOUS
  <2> HIDE DEF R, gone, first, last, j
  <2>6. Apart(new) /\ (R \ gone) \intersect {j} = {}
    BY <1>1, <2>1, <2>2, <2>5, JoinedApart
  <2>7. Runes({j}) = Runes(gone) \union lo .. hi
    BY <1>1, <2>1, <2>2, <2>5, JoinedRunes
  <2>8. R = (R \ gone) \union gone /\ gone \in SUBSET Ranges /\ new \in SUBSET Ranges
    BY <1>1, <2>2
  <2>9. Runes(new) = Runes(R) \union lo .. hi
    <3>1. Runes(new) = Runes(R \ gone) \union Runes({j})
      BY RunesJoin
    <3>2. Runes(R) = Runes(R \ gone) \union Runes(gone)
      BY <2>8, RunesJoin
    <3> QED
      BY <2>7, <3>1, <3>2
  <2>10. more.nrunes = Cardinality(Runes(new))
    <3>1. /\ Cardinality(Runes(R)) = Cardinality(Runes(R \ gone)) + Cardinality(Runes(gone))
          /\ Cardinality(Runes(R \ gone)) \in Nat /\ Cardinality(Runes(gone)) \in Nat
          /\ Cardinality(Runes(R)) \in Nat
      BY <1>1, <2>2, RunesAdd
    <3>2. MapThenSumSet(Width, gone) = Cardinality(Runes(gone))
      <4>1. Apart(gone)
        BY <1>1, <2>2 DEF Apart
      <4> QED
        BY <2>8, <4>1, SumOfWidths
    <3>3. new \ {j} = R \ gone /\ {j} \in SUBSET new
      BY <2>6
    <3>4. Cardinality(Runes(new)) = Cardinality(Runes(R \ gone)) + Cardinality(Runes({j}))
      BY <2>6, <2>8, <3>3, RunesAdd
    <3>5. j[1] <= j[2]
      BY <2>6 DEF Apart
    <3>6. Cardinality(Runes({j})) = Width(j) /\ Width(j) \in Nat
      BY <2>2, <3>5, WidthOfRange
    <3> HIDE DEF new, more
    <3> QED
      BY <1>1, <2>4, <3>1, <3>2, <3>4, <3>6, SMT
  <2>11. more.upper = Upper \intersect Runes(new) /\ more.lower = LowerCase \intersect Runes(new)
    BY <1>1, <2>4, <2>9
  <2> HIDE DEF new, more
  <2>12. IsClass(more)
    BY <2>4, <2>6, <2>8, <2>10, <2>11, ClassFacts DEF new
  <2> QED
    BY <2>4, <2>9, <2>12 DEF more, R
<1> QED
  BY <1>2, <1>3

-----------------------------------------------------------------------------
(* RemoveAbove *)

\* What RemoveAbove puts in the place of the ranges that go beyond r.
CutAt(above, r) == {<<x[1], r>> : x \in {x \in above : x[1] <= r}}

LEMMA TrimmedFacts ==
    ASSUME NEW R \in SUBSET Ranges, Apart(R), NEW r \in Rune, NEW above, NEW cut,
           above = Find(R, r + 1, Runemax),
           cut = CutAt(above, r)
    PROVE  /\ above \in SUBSET R /\ cut \in SUBSET Ranges
           /\ (R \ above) \intersect cut = {} /\ Apart((R \ above) \union cut)
           /\ Runes((R \ above) \union cut) = {c \in Runes(R) : c <= r}
<1>1. above = {x \in R : x[1] <= Runemax /\ r + 1 <= x[2]}
  BY DEF Find
<1>2. ASSUME NEW x \in R
      PROVE  /\ x \in Ranges /\ x[1] \in Int /\ x[2] \in Int /\ x[1] <= x[2] /\ r \in Int
             /\ x[1] \in Rune /\ x[2] \in Rune
             /\ x \in above <=> r < x[2]
  <2>1. x \in Ranges /\ x[1] \in Int /\ x[2] \in Int /\ x[1] <= x[2] /\ r \in Int
        /\ x[1] \in Rune /\ x[2] \in Rune
    BY RangeFacts, RuneFacts DEF Apart
  <2>2. x[1] <= Runemax /\ (r + 1 <= x[2] <=> r < x[2])
    BY <2>1, RuneFacts, SMT DEF Rune
  <2> QED
    BY <1>1, <2>1, <2>2
<1>3. ASSUME NEW y \in cut
      PROVE  /\ y \in Ranges /\ y[2] = r /\ y[1] \in Int /\ y[1] <= r
             /\ \E x \in R : x \in above /\ x[1] = y[1] /\ r < x[2]
  <2>1. PICK x \in above : x[1] <= r /\ y = <<x[1], r>>
    BY DEF CutAt
  <2>2. x \in R
    BY <1>1
  <2> QED
    BY <1>2, <2>1, <2>2 DEF Ranges
<1>4. ASSUME NEW x \in R, NEW y \in R, x # y PROVE x[2] + 1 < y[1] \/ y[2] + 1 < x[1]
  BY <1>4 DEF Apart
<1>5. ASSUME NEW x \in R \ above, NEW y \in cut PROVE x[2] + 1 < y[1]
  <2>1. PICK z \in R : z \in above /\ z[1] = y[1] /\ r < z[2]
    BY <1>3
  <2>2. x[2] + 1 < z[1] \/ z[2] + 1 < x[1]
    BY <1>4, <2>1
  <2>3. x[2] <= r /\ x[1] <= x[2] /\ {x[1], x[2], z[1], z[2], r} \subseteq Int
    <3>1. {x[1], x[2], z[1], z[2], r} \subseteq Int /\ ~(r < x[2]) /\ x[1] <= x[2]
      BY <1>2
    <3> QED
      BY <3>1, SMT
  <2> QED
    BY <2>1, <2>2, <2>3, SMT
<1>6. ASSUME NEW x \in cut, NEW y \in cut PROVE x = y
  <2>1. PICK w \in R : w \in above /\ w[1] = x[1] /\ r < w[2]
    BY <1>3
  <2>2. PICK z \in R : z \in above /\ z[1] = y[1] /\ r < z[2]
    BY <1>3
  <2>3. w = z
    <3> SUFFICES ASSUME w # z PROVE FALSE
      OBVIOUS
    <3>1. w[2] + 1 < z[1] \/ z[2] + 1 < w[1]
      BY <1>4
    <3>2. {w[1], w[2], z[1], z[2], r} \subseteq Int /\ w[1] <= r /\ z[1] <= r
      BY <1>2, <1>3, <2>1, <2>2
    <3> QED
      BY <2>1, <2>2, <3>1, <3>2, SMT
  <2>4. x \in Ranges /\ y \in Ranges /\ x[2] = r /\ y[2] = r
    BY <1>3
  <2> QED
    BY <2>1, <2>2, <2>3, <2>4, RangeFacts
<1>7. (R \ above) \intersect cut = {}
  <2> SUFFICES ASSUME NEW x \in R \ above, x \in cut PROVE FALSE
    OBVIOUS
  <2>1. x[2] + 1 < x[1] /\ x[1] <= x[2] /\ x[1] \in Int /\ x[2] \in Int
    BY <1>2, <1>5
  <2> QED
    BY <2>1, SMT
<1>8. Apart((R \ above) \union cut)
  <2> SUFFICES ASSUME NEW x \in (R \ above) \union cut, NEW y \in (R \ above) \union cut
               PROVE  x[1] <= x[2] /\ (x # y => x[2] + 1 < y[1] \/ y[2] + 1 < x[1])
    BY DEF Apart
  <2>1. x[1] <= x[2]
    BY <1>2, <1>3
  <2> QED
    BY <1>4, <1>5, <1>6, <2>1
<1>9. ASSUME NEW c \in Runes((R \ above) \union cut) PROVE c \in Runes(R) /\ c <= r
  <2>1. c \in Rune /\ c \in Int
    BY RuneFacts DEF Runes
  <2>2. CASE \E x \in R \ above : x[1] <= c /\ c <= x[2]
    <3>1. PICK x \in R \ above : x[1] <= c /\ c <= x[2]
      BY <2>2
    <3>2. x \in R /\ x[2] \in Int /\ r \in Int /\ ~(r < x[2])
      BY <1>2
    <3>3. c <= r
      BY <2>1, <3>1, <3>2, SMT
    <3> QED
      BY <2>1, <3>1, <3>2, <3>3 DEF Runes
  <2>3. CASE \E y \in cut : y[1] <= c /\ c <= y[2]
    <3>1. PICK y \in cut : y[1] <= c /\ c <= y[2]
      BY <2>3
    <3>2. PICK x \in R : x[1] = y[1] /\ r < x[2] /\ y[2] = r
      BY <1>3
    <3>3. r \in Int /\ x[2] \in Int
      BY <1>2
    <3>4. c <= r /\ x[1] <= c /\ c <= x[2]
      BY <2>1, <3>1, <3>2, <3>3, SMT
    <3> QED
      BY <2>1, <3>4 DEF Runes
  <2> QED
    BY <2>2, <2>3 DEF Runes
<1>10. ASSUME NEW c \in Runes(R), c <= r PROVE c \in Runes((R \ above) \union cut)
  <2>1. c \in Rune /\ c \in Int
    BY RuneFacts DEF Runes
  <2>2. PICK x \in R : x[1] <= c /\ c <= x[2]
    BY DEF Runes
  <2>3. CASE x \in above
    <3>1. x[1] <= r
      BY <1>2, <1>10, <2>1, <2>2, SMT
    <3>2. <<x[1], r>> \in cut
      BY <2>3, <3>1 DEF CutAt
    <3>3. <<x[1], r>>[1] <= c /\ c <= <<x[1], r>>[2]
      BY <1>10, <2>2
    <3> QED
      BY <2>1, <3>2, <3>3 DEF Runes
  <2>4. CASE x \notin above
    BY <2>1, <2>2, <2>4 DEF Runes
  <2> QED
    BY <2>3, <2>4
<1>11. Runes((R \ above) \union cut) = {c \in Runes(R) : c <= r}
  BY <1>9, <1>10
<1> QED
  BY <1>1, <1>3, <1>7, <1>8, <1>11

\* Removing the runes above r removes those, and no other.
THEOREM RemoveAboveIsCut ==
    ASSUME NEW cc, IsClass(cc), NEW r \in Nat
    PROVE  /\ IsClass(RemoveAbove(cc, r))
           /\ Runes(RemoveAbove(cc, r).ranges) = {c \in Runes(cc.ranges) : c <= r}
<1> DEFINE R == cc.ranges
           above == Find(R, r + 1, Runemax)
           cut == {<<x[1], r>> : x \in {x \in above : x[1] <= r}}
           new == (R \ above) \union cut
           less == RemoveAbove(cc, r)
<1>1. /\ R \in SUBSET Ranges /\ Apart(R) /\ cc.nrunes = Cardinality(Runes(R))
      /\ cc.upper = Upper \intersect Runes(R) /\ cc.lower = LowerCase \intersect Runes(R)
  <2>1. R \in SUBSET Ranges
        /\ cc = [ranges |-> R, upper |-> cc.upper, lower |-> cc.lower, nrunes |-> cc.nrunes]
    BY DEF IsClass
  <2> HIDE DEF R
  <2> QED
    BY <2>1, ClassFacts
<1>2. CASE r >= Runemax
  <2>1. less = cc
    BY <1>2 DEF RemoveAbove
  <2>2. \A c \in Rune : c <= r
    BY <1>2, RuneFacts, SMT DEF Rune
  <2>3. Runes(R) = {c \in Runes(R) : c <= r}
    BY <2>2 DEF Runes
  <2> QED
    BY <2>1, <2>3
<1>3. CASE ~(r >= Runemax)
  <2>1. r \in Rune
    BY <1>3, RuneFacts, SMT DEF Rune
  <2> DEFINE up == {c \in cc.upper : c <= r}
             low == {c \in cc.lower : c <= r}
             n == cc.nrunes - MapThenSumSet(Width, above) + MapThenSumSet(Width, cut)
  <2>2. less = [ranges |-> new, upper |-> up, lower |-> low, nrunes |-> n]
    BY <1>3 DEF RemoveAbove
  <2>3. above = Find(R, r + 1, Runemax) /\ cut = CutAt(above, r)
    BY DEF CutAt
  <2> HIDE DEF R, above, cut
  <2>4. /\ above \in SUBSET R /\ cut \in SUBSET Ranges
        /\ (R \ above) \intersect cut = {} /\ Apart(new)
        /\ Runes(new) = {c \in Runes(R) : c <= r}
    <3> HIDE DEF new, less, up, low, n
    <3>1. /\ above \in SUBSET R /\ cut \in SUBSET Ranges
          /\ (R \ above) \intersect cut = {} /\ Apart((R \ above) \union cut)
          /\ Runes((R \ above) \union cut) = {c \in Runes(R) : c <= r}
      BY <1>1, <2>1, <2>3, TrimmedFacts
    <3> QED
      BY <3>1 DEF new
  <2>5. n = Cardinality(Runes(new))
    <3>1. /\ Cardinality(Runes(R)) = Cardinality(Runes(R \ above)) + Cardinality(Runes(above))
          /\ Cardinality(Runes(R \ above)) \in Nat /\ Cardinality(Runes(above)) \in Nat
          /\ Cardinality(Runes(R)) \in Nat
      BY <1>1, <2>4, RunesAdd
    <3>2. Apart(above) /\ above \in SUBSET Ranges /\ Apart(cut)
      BY <1>1, <2>4 DEF Apart
    <3>3. MapThenSumSet(Width, above) = Cardinality(Runes(above))
      BY <3>2, SumOfWidths
    <3>4. MapThenSumSet(Width, cut) = Cardinality(Runes(cut))
      BY <2>4, <3>2, SumOfWidths
    <3>5. new \ cut = R \ above /\ cut \in SUBSET new /\ new \in SUBSET Ranges
      BY <1>1, <2>4
    <3>6. /\ Cardinality(Runes(new)) = Cardinality(Runes(R \ above)) + Cardinality(Runes(cut))
          /\ Cardinality(Runes(cut)) \in Nat
      BY <2>4, <3>5, RunesAdd
    <3>7. n = Cardinality(Runes(R)) - Cardinality(Runes(above)) + Cardinality(Runes(cut))
      BY <1>1, <3>3, <3>4
    <3> HIDE DEF new, n
    <3> QED
      BY <3>1, <3>6, <3>7, SMT
  <2>6. up = Upper \intersect Runes(new) /\ low = LowerCase \intersect Runes(new)
    BY <1>1, <2>4
  <2>7. new \in SUBSET Ranges
    BY <1>1, <2>4
  <2> HIDE DEF new, less, up, low, n
  <2>8. /\ less = [ranges |-> new, upper |-> less.upper, lower |-> less.lower,
                   nrunes |-> less.nrunes]
        /\ less.ranges = new /\ less.upper = up /\ less.lower = low /\ less.nrunes = n
    BY <2>2
  <2>9. IsClass(less)
    BY <2>4, <2>5, <2>6, <2>7, <2>8, ClassFacts
  <2> QED
    BY <2>4, <2>8, <2>9 DEF less, R
<1> QED
  BY <1>2, <1>3

-----------------------------------------------------------------------------
(* Negate *)

\* Where ranges, or the end of the runes, begin; and where ranges end, or nothing has begun.
Begins(R) == {r[1] : r \in R} \union {Runemax + 1}
Ends(R) == {-1} \union {r[2] : r \in R}

\* The first that begins after e.
BeginsAfter(R, e) == Min({b \in Begins(R) : e < b})

LEMMA BoundFacts ==
    ASSUME NEW R \in SUBSET Ranges, Apart(R)
    PROVE  /\ \A r \in R : /\ r[1] \in Begins(R) /\ r[2] \in Ends(R)
                           /\ r[1] \in Int /\ r[2] \in Int
                           /\ 0 <= r[1] /\ r[1] <= r[2] /\ r[2] <= Runemax
           /\ \A b \in Begins(R) : /\ b \in Nat /\ b <= Runemax + 1
                                   /\ b = Runemax + 1 \/ \E r \in R : r[1] = b
           /\ \A e \in Ends(R) : /\ e \in Int /\ -1 <= e /\ e <= Runemax
                                 /\ e = -1 \/ \E r \in R : r[2] = e
           /\ Runemax \in Nat /\ Runemax + 1 \in Begins(R) /\ -1 \in Ends(R)
<1>1. Runemax \in Nat /\ Runemax + 1 \in Begins(R) /\ -1 \in Ends(R)
  BY RuneFacts DEF Begins, Ends
<1>2. ASSUME NEW r \in R
      PROVE  /\ r[1] \in Begins(R) /\ r[2] \in Ends(R)
             /\ r[1] \in Int /\ r[2] \in Int
             /\ 0 <= r[1] /\ r[1] <= r[2] /\ r[2] <= Runemax
  <2>1. r[1] \in Begins(R) /\ r[2] \in Ends(R)
    BY DEF Begins, Ends
  <2>2. r[1] \in Rune /\ r[2] \in Rune /\ r[1] <= r[2]
    BY RangeFacts DEF Apart
  <2>3. r[1] \in Int /\ r[2] \in Int /\ 0 <= r[1] /\ r[2] <= Runemax
    BY <1>1, <2>2, SMT DEF Rune
  <2> QED
    BY <2>1, <2>2, <2>3
<1>3. ASSUME NEW b \in Begins(R)
      PROVE  b \in Nat /\ b <= Runemax + 1 /\ (b = Runemax + 1 \/ \E r \in R : r[1] = b)
  <2>1. b = Runemax + 1 \/ \E r \in R : r[1] = b
    BY DEF Begins
  <2>2. CASE b = Runemax + 1
    BY <1>1, <2>2, SMT
  <2>3. CASE \E r \in R : r[1] = b
    <3>1. PICK r \in R : r[1] = b
      BY <2>3
    <3>2. r[1] \in Int /\ r[2] \in Int /\ 0 <= r[1] /\ r[1] <= r[2] /\ r[2] <= Runemax
      BY <1>2
    <3> QED
      BY <1>1, <2>1, <3>1, <3>2, SMT
  <2> QED
    BY <2>1, <2>2, <2>3
<1>4. ASSUME NEW e \in Ends(R)
      PROVE  e \in Int /\ -1 <= e /\ e <= Runemax /\ (e = -1 \/ \E r \in R : r[2] = e)
  <2>1. e = -1 \/ \E r \in R : r[2] = e
    BY DEF Ends
  <2>2. CASE e = -1
    BY <1>1, <2>2, SMT
  <2>3. CASE \E r \in R : r[2] = e
    <3>1. PICK r \in R : r[2] = e
      BY <2>3
    <3>2. r[1] \in Int /\ r[2] \in Int /\ 0 <= r[1] /\ r[1] <= r[2] /\ r[2] <= Runemax
      BY <1>2
    <3> QED
      BY <1>1, <2>1, <3>1, <3>2, SMT
  <2> QED
    BY <2>1, <2>2, <2>3
<1> QED
  BY <1>1, <1>2, <1>3, <1>4

\* No range that begins by the end of another goes on beyond it.
LEMMA EndSeparates ==
    ASSUME NEW R \in SUBSET Ranges, Apart(R), NEW e \in Ends(R), NEW r \in R, r[1] <= e + 1
    PROVE  r[2] <= e \/ (r[1] = e + 1 /\ e = -1)
<1>1. /\ r[1] \in Int /\ r[2] \in Int /\ 0 <= r[1] /\ r[1] <= r[2]
      /\ e \in Int /\ -1 <= e /\ (e = -1 \/ \E s \in R : s[2] = e)
  BY BoundFacts
<1>2. CASE e = -1
  BY <1>1, <1>2, SMT
<1>3. CASE \E s \in R : s[2] = e
  <2>1. PICK s \in R : s[2] = e
    BY <1>3
  <2>2. s[1] \in Int /\ s[1] <= s[2]
    BY BoundFacts
  <2>3. r = s \/ r[2] + 1 < s[1] \/ s[2] + 1 < r[1]
    BY DEF Apart
  <2> QED
    BY <1>1, <2>1, <2>2, <2>3, SMT
<1> QED
  BY <1>1, <1>2, <1>3

LEMMA AfterFacts ==
    ASSUME NEW R \in SUBSET Ranges, Apart(R), NEW e \in Ends(R)
    PROVE  /\ BeginsAfter(R, e) \in Begins(R) /\ e < BeginsAfter(R, e)
           /\ \A b \in Begins(R) : e < b => BeginsAfter(R, e) <= b
<1> DEFINE later == {b \in Begins(R) : e < b}
<1>1. later \in SUBSET Nat
  BY BoundFacts
<1>2. Runemax + 1 \in later
  <2>1. e \in Int /\ e <= Runemax /\ Runemax \in Nat /\ Runemax + 1 \in Begins(R)
    BY BoundFacts
  <2>2. e < Runemax + 1
    BY <2>1, SMT
  <2> QED
    BY <2>1, <2>2
<1>3. \A b \in Begins(R) : b \in later <=> e < b
  OBVIOUS
<1>4. later \in SUBSET Begins(R)
  OBVIOUS
<1> HIDE DEF later
<1>5. Min(later) \in later /\ \A b \in later : Min(later) <= b
  BY <1>1, <1>2, MinIsLeast
<1> QED
  BY <1>3, <1>4, <1>5 DEF later, BeginsAfter

\* A gap, by the end before it.
GapAt(R, e) == <<e + 1, BeginsAfter(R, e) - 1>>

LEMMA GapFacts ==
    ASSUME NEW R \in SUBSET Ranges, Apart(R)
    PROVE  /\ Gaps(R) = {GapAt(R, e) : e \in {e \in Ends(R) : e + 1 \notin Begins(R)}}
           /\ \A e \in Ends(R) : e + 1 \notin Begins(R) =>
                 /\ GapAt(R, e) \in Ranges /\ e + 1 < BeginsAfter(R, e)
                 /\ e \in Int /\ BeginsAfter(R, e) \in Int
<1>1. Gaps(R) = {GapAt(R, e) : e \in {e \in Ends(R) : e + 1 \notin Begins(R)}}
  BY DEF Gaps, GapAt, Begins, Ends, BeginsAfter
<1>2. ASSUME NEW e \in Ends(R), e + 1 \notin Begins(R)
      PROVE  /\ GapAt(R, e) \in Ranges /\ e + 1 < BeginsAfter(R, e)
             /\ e \in Int /\ BeginsAfter(R, e) \in Int
  <2> DEFINE b == BeginsAfter(R, e)
  <2>1. b \in Begins(R) /\ e < b
    BY AfterFacts
  <2> HIDE DEF b
  <2>2. e \in Int /\ -1 <= e /\ e <= Runemax /\ b \in Int /\ b <= Runemax + 1 /\ Runemax \in Nat
    <3>1. e \in Int /\ -1 <= e /\ e <= Runemax /\ b \in Nat /\ b <= Runemax + 1 /\ Runemax \in Nat
      BY <2>1, BoundFacts
    <3> QED
      BY <3>1, SMT
  <2>3. b # e + 1
    BY <1>2, <2>1
  <2>4. e + 1 < b /\ e + 1 \in 0 .. Runemax /\ b - 1 \in 0 .. Runemax
    BY <2>1, <2>2, <2>3, SMT
  <2> QED
    BY <2>2, <2>4 DEF GapAt, Ranges, Rune, b
<1> QED
  BY <1>1, <1>2

\* Between two ends a range begins.
LEMMA GapsApart ==
    ASSUME NEW R \in SUBSET Ranges, Apart(R)
    PROVE  Apart(Gaps(R)) /\ Gaps(R) \in SUBSET Ranges
<1>1. Gaps(R) \in SUBSET Ranges
  BY GapFacts
<1>2. ASSUME NEW d \in Ends(R), NEW e \in Ends(R), d < e
      PROVE  BeginsAfter(R, d) <= e
  <2>1. d \in Int /\ -1 <= d /\ e \in Int /\ (e = -1 \/ \E r \in R : r[2] = e)
    BY BoundFacts
  <2>2. e # -1
    BY <1>2, <2>1, SMT
  <2>3. PICK r \in R : r[2] = e
    BY <2>1, <2>2
  <2>4. r[1] \in Begins(R) /\ r[1] \in Int /\ r[2] \in Int /\ r[1] <= r[2]
    BY BoundFacts
  <2>5. d < r[1]
    <3> SUFFICES ASSUME ~(d < r[1]) PROVE FALSE
      OBVIOUS
    <3>1. r[1] <= d + 1 /\ r[1] # d + 1
      BY <2>1, <2>4, SMT
    <3>2. r[2] <= d
      BY <3>1, EndSeparates
    <3> QED
      BY <1>2, <2>1, <2>3, <3>2, SMT
  <2>6. BeginsAfter(R, d) <= r[1] /\ BeginsAfter(R, d) \in Nat
    BY <2>4, <2>5, AfterFacts, BoundFacts
  <2> QED
    BY <2>1, <2>3, <2>4, <2>6, SMT
<1>3. ASSUME NEW r \in Gaps(R), NEW s \in Gaps(R)
      PROVE  r[1] <= r[2] /\ (r # s => r[2] + 1 < s[1] \/ s[2] + 1 < r[1])
  <2>1. PICK d \in Ends(R) : d + 1 \notin Begins(R) /\ r = GapAt(R, d)
    BY GapFacts
  <2>2. PICK e \in Ends(R) : e + 1 \notin Begins(R) /\ s = GapAt(R, e)
    BY GapFacts
  <2> DEFINE bd == BeginsAfter(R, d)
             be == BeginsAfter(R, e)
  <2>3. /\ r[1] = d + 1 /\ r[2] = bd - 1 /\ s[1] = e + 1 /\ s[2] = be - 1
    BY <2>1, <2>2 DEF GapAt
  <2>4. d \in Int /\ e \in Int /\ bd \in Int /\ be \in Int /\ d + 1 < bd
    BY <2>1, <2>2, GapFacts
  <2>5. (d < e => bd <= e) /\ (e < d => be <= d)
    BY <1>2
  <2>6. d = e => r = s
    BY <2>1, <2>2
  <2> HIDE DEF bd, be
  <2> QED
    BY <2>3, <2>4, <2>5, <2>6, SMT
<1> QED
  BY <1>1, <1>3 DEF Apart

\* The gaps have the runes that the ranges have not.
LEMMA GapRunes ==
    ASSUME NEW R \in SUBSET Ranges, Apart(R)
    PROVE  Runes(Gaps(R)) = Rune \ Runes(R)
<1>1. ASSUME NEW c \in Rune, c \notin Runes(R) PROVE c \in Runes(Gaps(R))
  <2> DEFINE before == {n \in 0 .. Runemax + 1 : n - 1 \in Ends(R) /\ n <= c}
  <2>1. c \in Int /\ 0 <= c /\ c <= Runemax /\ Runemax \in Nat
    BY RuneFacts, SMT DEF Rune
  <2>2. 0 \in before
    <3>1. 0 - 1 = -1 /\ 0 \in 0 .. Runemax + 1 /\ 0 <= c
      BY <2>1, SMT
    <3> QED
      BY <3>1, BoundFacts
  <2>3. before \in SUBSET (0 .. Runemax + 1) /\ Runemax + 1 \in Nat
    BY <2>1, SMT
  <2> HIDE DEF before
  <2>4. PICK n \in before : \A m \in before : m <= n
    BY <2>2, <2>3, MaxIsGreatest
  <2> DEFINE e == n - 1
  <2>5. n \in 0 .. Runemax + 1 /\ e \in Ends(R) /\ n <= c
    BY DEF before
  <2>6. e \in Int /\ e < c /\ n = e + 1
    BY <2>1, <2>5, SMT
  <2> HIDE DEF e
  <2>7. ASSUME NEW r \in R, r[1] <= c PROVE r[2] <= e
    <3>1. r[1] \in Int /\ r[2] \in Int /\ 0 <= r[1] /\ r[1] <= r[2] /\ r[2] <= Runemax
          /\ r[2] \in Ends(R)
      BY BoundFacts
    <3>2. ~(c <= r[2])
      BY <1>1, <2>7 DEF Runes
    <3> DEFINE m == r[2] + 1
    <3>3. m \in 0 .. Runemax + 1 /\ m - 1 = r[2] /\ m <= c
      BY <2>1, <3>1, <3>2, SMT
    <3>4. m <= n
      BY <2>4, <3>1, <3>3 DEF before
    <3> QED
      BY <2>6, <3>1, <3>4, SMT
  <2>8. ASSUME NEW b \in Begins(R), e < b PROVE c < b
    <3>1. b \in Int /\ (b = Runemax + 1 \/ \E r \in R : r[1] = b)
      <4>1. b \in Nat /\ (b = Runemax + 1 \/ \E r \in R : r[1] = b)
        BY BoundFacts
      <4> QED
        BY <4>1, SMT
    <3>2. CASE b = Runemax + 1
      BY <2>1, <3>2, SMT
    <3>3. CASE \E r \in R : r[1] = b
      <4>1. PICK r \in R : r[1] = b
        BY <3>3
      <4>2. r[1] \in Int /\ r[2] \in Int /\ r[1] <= r[2]
        BY BoundFacts
      <4>3. r[1] <= c => r[2] <= e
        BY <2>7
      <4> QED
        BY <2>1, <2>6, <2>8, <4>1, <4>2, <4>3, SMT
    <3> QED
      BY <3>1, <3>2, <3>3
  <2>9. e + 1 \notin Begins(R)
    <3>1. e < e + 1 /\ ~(c < e + 1)
      BY <2>1, <2>6, SMT
    <3> QED
      BY <2>8, <3>1
  <2>10. c < BeginsAfter(R, e)
    BY <2>5, <2>8, AfterFacts
  <2>11. GapAt(R, e) \in Gaps(R) /\ BeginsAfter(R, e) \in Int
    BY <2>5, <2>9, GapFacts
  <2>12. GapAt(R, e)[1] <= c /\ c <= GapAt(R, e)[2]
    <3>1. GapAt(R, e)[1] = e + 1 /\ GapAt(R, e)[2] = BeginsAfter(R, e) - 1
      BY DEF GapAt
    <3> QED
      BY <2>1, <2>6, <2>10, <2>11, <3>1, SMT
  <2> QED
    BY <2>11, <2>12 DEF Runes
<1>2. ASSUME NEW c \in Rune, c \in Runes(Gaps(R)), NEW r \in R, r[1] <= c, c <= r[2] PROVE FALSE
  <2>1. PICK g \in Gaps(R) : g[1] <= c /\ c <= g[2]
    BY <1>2 DEF Runes
  <2>2. PICK e \in Ends(R) : e + 1 \notin Begins(R) /\ g = GapAt(R, e)
    BY GapFacts
  <2> DEFINE b == BeginsAfter(R, e)
  <2>3. g[1] = e + 1 /\ g[2] = b - 1 /\ e \in Int /\ b \in Int
    BY <2>2, GapFacts DEF GapAt
  <2>4. r[1] \in Begins(R) /\ r[1] \in Int /\ r[2] \in Int /\ c \in Int
    BY BoundFacts, RuneFacts
  <2>5. e < r[1] => b <= r[1]
    BY <2>4, AfterFacts
  <2>6. r[1] # e + 1
    BY <2>2, <2>4
  <2>7. r[1] <= e + 1 => r[2] <= e
    BY <2>6, EndSeparates
  <2> HIDE DEF b
  <2> QED
    BY <1>2, <2>1, <2>3, <2>4, <2>5, <2>7, SMT
<1>3. \A c \in Rune : c \in Runes(R) <=> \E r \in R : r[1] <= c /\ c <= r[2]
  BY DEF Runes
<1>4. Runes(Gaps(R)) \in SUBSET Rune
  BY DEF Runes
<1> QED
  BY <1>1, <1>2, <1>3, <1>4

\* The negation of a class has the runes that the class has not.
THEOREM NegateIsComplement ==
    ASSUME NEW cc, IsClass(cc)
    PROVE  /\ IsClass(Negate(cc))
           /\ Runes(Negate(cc).ranges) = Rune \ Runes(cc.ranges)
<1> DEFINE R == cc.ranges
           new == Gaps(R)
           other == Negate(cc)
<1>1. /\ R \in SUBSET Ranges /\ Apart(R) /\ cc.nrunes = Cardinality(Runes(R))
      /\ cc.upper = Upper \intersect Runes(R) /\ cc.lower = LowerCase \intersect Runes(R)
  <2>1. R \in SUBSET Ranges
        /\ cc = [ranges |-> R, upper |-> cc.upper, lower |-> cc.lower, nrunes |-> cc.nrunes]
    BY DEF IsClass
  <2> HIDE DEF R
  <2> QED
    BY <2>1, ClassFacts
<1>2. other = [ranges |-> new, upper |-> Upper \ cc.upper, lower |-> LowerCase \ cc.lower,
               nrunes |-> Runemax + 1 - cc.nrunes]
  BY DEF Negate
<1> HIDE DEF R, other
<1>3. Apart(new) /\ new \in SUBSET Ranges /\ Runes(new) = Rune \ Runes(R)
  BY <1>1, GapsApart, GapRunes
<1> HIDE DEF new
<1>4. Runemax + 1 - cc.nrunes = Cardinality(Runes(new))
  <2>1. 0 \in Int /\ Runemax \in Int /\ ~(0 > Runemax) /\ Runemax - 0 + 1 = Runemax + 1
    BY RuneFacts, SMT
  <2>2. IsFiniteSet(Rune) /\ Cardinality(Rune) = Runemax + 1
    BY <2>1, FS_Interval DEF Rune
  <2>3. Rune \intersect Runes(R) = Runes(R)
    BY DEF Runes
  <2>4. Cardinality(Rune \ Runes(R)) = Cardinality(Rune) - Cardinality(Rune \intersect Runes(R))
    BY <2>2, FS_Difference
  <2>5. Cardinality(Rune \intersect Runes(R)) = cc.nrunes
    BY <1>1, <2>3
  <2>6. Cardinality(Runes(new)) = Cardinality(Rune \ Runes(R))
    BY <1>3
  <2>7. cc.nrunes \in Nat /\ Runemax \in Nat
    BY <1>1, RangesFinite, RuneFacts
  <2> QED
    BY <2>2, <2>4, <2>5, <2>6, <2>7, SMT
<1>5. Upper \ cc.upper = Upper \intersect Runes(new) /\ LowerCase \ cc.lower = LowerCase \intersect Runes(new)
  BY <1>1, <1>3, RuneFacts
<1>6. /\ other = [ranges |-> new, upper |-> other.upper, lower |-> other.lower,
                  nrunes |-> other.nrunes]
      /\ other.ranges = new /\ other.upper = Upper \ cc.upper
      /\ other.lower = LowerCase \ cc.lower /\ other.nrunes = Runemax + 1 - cc.nrunes
  BY <1>2
<1>7. IsClass(other)
  BY <1>3, <1>4, <1>5, <1>6, ClassFacts
<1> QED
  BY <1>3, <1>6, <1>7 DEF other, R

-----------------------------------------------------------------------------
(* Classes are the sets of their runes *)

\* The range of a rune has all runes next to it.
LEMMA WholeRange ==
    ASSUME NEW R \in SUBSET Ranges, Apart(R), NEW r \in R, NEW lo \in Rune, NEW hi \in Rune,
           lo <= hi, lo .. hi \in SUBSET Runes(R), NEW c \in lo .. hi, r[1] <= c, c <= r[2]
    PROVE  r[1] <= lo /\ hi <= r[2]
<1>1. /\ r[1] \in Int /\ r[2] \in Int /\ r[1] <= r[2] /\ r[1] \in Rune /\ r[2] \in Rune
      /\ lo \in Int /\ hi \in Int /\ c \in Int
  <2>1. r[1] \in Rune /\ r[2] \in Rune /\ r[1] \in Int /\ r[2] \in Int /\ r[1] <= r[2]
    BY RangeFacts, RuneFacts DEF Apart
  <2> QED
    BY <2>1, RuneFacts, SMT DEF Rune
<1>2. ASSUME NEW d \in lo .. hi, d = r[2] + 1 \/ d = r[1] - 1 PROVE FALSE
  <2>1. d \in Runes(R) /\ d \in Int
    BY <1>1, SMT
  <2>2. PICK s \in R : s[1] <= d /\ d <= s[2]
    BY <2>1 DEF Runes
  <2>3. s[1] \in Int /\ s[2] \in Int
    BY RangeFacts, RuneFacts
  <2>4. s # r
    BY <1>1, <1>2, <2>1, <2>2, SMT
  <2>5. s[2] + 1 < r[1] \/ r[2] + 1 < s[1]
    BY <2>4 DEF Apart
  <2> QED
    BY <1>1, <1>2, <2>1, <2>2, <2>3, <2>5, SMT
<1>3. r[1] <= lo
  <2> SUFFICES ASSUME ~(r[1] <= lo) PROVE FALSE
    OBVIOUS
  <2> DEFINE d == r[1] - 1
  <2>1. d \in lo .. hi /\ d = r[1] - 1
    BY <1>1, SMT
  <2> QED
    BY <1>2, <2>1
<1>4. hi <= r[2]
  <2> SUFFICES ASSUME ~(hi <= r[2]) PROVE FALSE
    OBVIOUS
  <2> DEFINE d == r[2] + 1
  <2>1. d \in lo .. hi /\ d = r[2] + 1
    BY <1>1, SMT
  <2> QED
    BY <1>2, <2>1
<1> QED
  BY <1>3, <1>4

\* Ranges that are apart are those that their runes have to form.
LEMMA ApartUnique ==
    ASSUME NEW R \in SUBSET Ranges, Apart(R), NEW S \in SUBSET Ranges, Apart(S),
           Runes(R) = Runes(S)
    PROVE  R \in SUBSET S
<1> SUFFICES ASSUME NEW r \in R PROVE r \in S
  OBVIOUS
<1>1. r \in Ranges /\ r[1] \in Rune /\ r[2] \in Rune /\ r[1] <= r[2] /\ r[1] \in Int /\ r[2] \in Int
  BY RangeFacts, RuneFacts DEF Apart
<1>2. r[1] .. r[2] \in SUBSET Runes(R)
  BY RunesWithin
<1>3. r[1] \in r[1] .. r[2]
  BY <1>1, SMT
<1>4. PICK s \in S : s[1] <= r[1] /\ r[1] <= s[2]
  BY <1>2, <1>3 DEF Runes
<1>5. s[1] <= r[1] /\ r[2] <= s[2]
  BY <1>1, <1>2, <1>3, <1>4, WholeRange
<1>6. s \in Ranges /\ s[1] \in Rune /\ s[2] \in Rune /\ s[1] <= s[2] /\ s[1] \in Int /\ s[2] \in Int
  BY RangeFacts, RuneFacts DEF Apart
<1>7. s[1] .. s[2] \in SUBSET Runes(S)
  BY RunesWithin
<1>8. r[1] \in s[1] .. s[2] /\ r[1] <= r[1]
  BY <1>1, <1>4, <1>6, SMT
<1>9. r[1] <= s[1] /\ s[2] <= r[2]
  BY <1>1, <1>6, <1>7, <1>8, WholeRange
<1>10. r[1] = s[1] /\ r[2] = s[2]
  BY <1>1, <1>5, <1>6, <1>9, SMT
<1> QED
  BY <1>1, <1>6, <1>10, RangeFacts

\* Two classes that have the same runes are the same, whatever was done to make them:
\* ranges, count and bitmaps.
THEOREM ClassUnique ==
    ASSUME NEW a, IsClass(a), NEW b, IsClass(b), Runes(a.ranges) = Runes(b.ranges)
    PROVE  a = b
<1> DEFINE R == a.ranges
           S == b.ranges
<1>1. /\ a = [ranges |-> R, upper |-> a.upper, lower |-> a.lower, nrunes |-> a.nrunes]
      /\ b = [ranges |-> S, upper |-> b.upper, lower |-> b.lower, nrunes |-> b.nrunes]
      /\ R \in SUBSET Ranges /\ S \in SUBSET Ranges /\ Runes(R) = Runes(S)
  BY DEF IsClass
<1> HIDE DEF R, S
<1>2. /\ Apart(R) /\ a.nrunes = Cardinality(Runes(R))
      /\ a.upper = Upper \intersect Runes(R) /\ a.lower = LowerCase \intersect Runes(R)
  BY <1>1, ClassFacts
<1>3. /\ Apart(S) /\ b.nrunes = Cardinality(Runes(S))
      /\ b.upper = Upper \intersect Runes(S) /\ b.lower = LowerCase \intersect Runes(S)
  BY <1>1, ClassFacts
<1>4. R = S
  BY <1>1, <1>2, <1>3, ApartUnique
<1> QED
  BY <1>1, <1>2, <1>3, <1>4

\* AddRange says that it has changed nothing exactly if it need not: it looks for one
\* range that holds all of lo-hi, and there is one as ranges that abut are joined.
THEOREM InClassIsSubset ==
    ASSUME NEW cc, IsClass(cc), NEW lo \in Rune, NEW hi \in Rune
    PROVE  InClass(cc, lo, hi) <=> lo .. hi \in SUBSET Runes(cc.ranges)
<1> DEFINE R == cc.ranges
<1>1. R \in SUBSET Ranges /\ Apart(R)
  BY DEF IsClass, IsExact, Apart
<1>2. lo \in Int /\ hi \in Int
  BY RuneFacts
<1>3. ASSUME hi < lo PROVE lo .. hi = {}
  BY <1>2, <1>3, SMT
<1>4. ASSUME NEW r \in R, r[1] <= lo, hi <= r[2] PROVE lo .. hi \in SUBSET Runes(R)
  <2>1. r \in Ranges /\ r[1] \in Int /\ r[2] \in Int
    BY <1>1, RangeFacts, RuneFacts
  <2>2. r[1] .. r[2] \in SUBSET Runes(R)
    BY <1>1, RunesWithin
  <2>3. lo .. hi \in SUBSET (r[1] .. r[2])
    BY <1>2, <1>4, <2>1, SMT
  <2> QED
    BY <2>2, <2>3
<1>5. ASSUME ~(hi < lo), lo .. hi \in SUBSET Runes(R)
      PROVE  \E r \in R : r[1] <= lo /\ hi <= r[2]
  <2>1. lo \in lo .. hi /\ lo <= hi
    BY <1>2, <1>5, SMT
  <2>2. PICK r \in R : r[1] <= lo /\ lo <= r[2]
    BY <1>5, <2>1 DEF Runes
  <2> HIDE DEF R
  <2> QED
    BY <1>1, <1>5, <2>1, <2>2, WholeRange
<1> QED
  BY <1>3, <1>4, <1>5 DEF InClass

-----------------------------------------------------------------------------
(* AddCharClass *)

AnyOf(s) == CHOOSE r \in s : TRUE

\* What adding the ranges S one by one has made of cc, for subsets of S, from what it has
\* made for smaller ones.
Adds(g, cc, S) ==
    [s \in SUBSET S |->
        IF s = {} THEN cc
        ELSE AddRange(g[s \ {AnyOf(s)}], AnyOf(s)[1], AnyOf(s)[2])]

\* b is a class with the runes of cc and those of s.
Both(b, cc, s) == IsClass(b) /\ Runes(b.ranges) = Runes(cc.ranges) \union Runes(s)

LEMMA AddsOne ==
    ASSUME NEW cc, NEW s \in SUBSET Ranges, s # {}, NEW b, Both(b, cc, s \ {AnyOf(s)})
    PROVE  Both(AddRange(b, AnyOf(s)[1], AnyOf(s)[2]), cc, s)
<1> DEFINE r == AnyOf(s)
           t == s \ {r}
<1>1. r \in s
  BY DEF AnyOf
<1> HIDE DEF r
<1>2. r \in Ranges /\ r[1] \in Rune /\ r[2] \in Rune /\ s = t \union {r}
  BY <1>1, RangeFacts
<1>3. Runes(s) = Runes(t) \union r[1] .. r[2]
  BY <1>2, RunesJoin, RunesOfRange
<1>4. IsClass(b) /\ Runes(b.ranges) = Runes(cc.ranges) \union Runes(t)
  BY DEF Both, r
<1> HIDE DEF t
<1> DEFINE more == AddRange(b, r[1], r[2])
<1>5. IsClass(more) /\ Runes(more.ranges) = Runes(b.ranges) \union r[1] .. r[2]
  BY <1>2, <1>4, AddRangeIsUnion
<1> HIDE DEF more
<1>6. Both(more, cc, s)
  BY <1>3, <1>4, <1>5 DEF Both
<1> QED
  BY <1>6 DEF r, more

\* Adding the ranges of another class adds its runes, in whatever order they come.
THEOREM AddRangesIsUnion ==
    ASSUME NEW cc, IsClass(cc), NEW S \in SUBSET Ranges
    PROVE  /\ IsClass(AddRanges(cc, S))
           /\ Runes(AddRanges(cc, S).ranges) = Runes(cc.ranges) \union Runes(S)
<1> DEFINE Union(s) == CHOOSE b : Both(b, cc, s)
           G == [s \in SUBSET S |-> Union(s)]
<1>1. IsFiniteSet(S)
  BY RangesFinite
<1>2. ASSUME NEW s \in SUBSET S, s # {}
      PROVE  s \ {AnyOf(s)} \in SUBSET s /\ s \ {AnyOf(s)} # s
  <2>1. AnyOf(s) \in s
    BY <1>2 DEF AnyOf
  <2> QED
    BY <2>1
<1>3. Both(cc, cc, {})
  BY DEF Both, Runes
<1>4. \A s \in SUBSET S : \E b : Both(b, cc, s)
  <2> DEFINE U == {s \in SUBSET S : ~ \E b : Both(b, cc, s)}
  <2> SUFFICES ASSUME U # {} PROVE FALSE
    OBVIOUS
  <2>1. PICK s \in U : \A t \in SUBSET s : t # s => t \notin U
    <3>1. U \in SUBSET SUBSET S
      OBVIOUS
    <3> HIDE DEF U
    <3> QED
      BY <1>1, <3>1, LeastSubset
  <2>2. s \in SUBSET S /\ s \in SUBSET Ranges /\ ~ \E b : Both(b, cc, s)
    OBVIOUS
  <2>3. s # {}
    BY <1>3, <2>2
  <2>4. s \ {AnyOf(s)} \in SUBSET S /\ s \ {AnyOf(s)} \notin U
    BY <1>2, <2>1, <2>2, <2>3
  <2>5. PICK b : Both(b, cc, s \ {AnyOf(s)})
    BY <2>4
  <2> QED
    BY <2>2, <2>3, <2>5, AddsOne
<1>5. \A s \in SUBSET S : Both(G[s], cc, s)
  BY <1>4
<1>6. ASSUME NEW s \in SUBSET S, NEW b, Both(b, cc, s) PROVE b = G[s]
  <2> HIDE DEF G
  <2> QED
    BY <1>5, <1>6, ClassUnique DEF Both
<1> HIDE DEF Union
<1>7. G = Adds(G, cc, S)
  <2>1. ASSUME NEW s \in SUBSET S
        PROVE  G[s] = IF s = {} THEN cc ELSE AddRange(G[s \ {AnyOf(s)}], AnyOf(s)[1], AnyOf(s)[2])
    <3>1. CASE s = {}
      BY <1>3, <1>6, <3>1
    <3>2. CASE s # {}
      <4>1. s \ {AnyOf(s)} \in SUBSET S /\ s \in SUBSET Ranges
        BY <1>2, <3>2
      <4> HIDE DEF G
      <4>2. Both(G[s \ {AnyOf(s)}], cc, s \ {AnyOf(s)})
        BY <1>5, <4>1
      <4>3. Both(AddRange(G[s \ {AnyOf(s)}], AnyOf(s)[1], AnyOf(s)[2]), cc, s)
        BY <3>2, <4>1, <4>2, AddsOne
      <4> QED
        BY <1>6, <3>2, <4>3
    <3> QED
      BY <3>1, <3>2
  <2>2. G = [s \in SUBSET S |-> G[s]]
    OBVIOUS
  <2> HIDE DEF G
  <2> QED
    BY <2>1, <2>2 DEF Adds
<1>8. ASSUME NEW g, g = Adds(g, cc, S) PROVE g = G
  <2> DEFINE U == {s \in SUBSET S : g[s] # G[s]}
  <2>1. ASSUME NEW h, h = Adds(h, cc, S), NEW s \in SUBSET S
        PROVE  h[s] = IF s = {} THEN cc ELSE AddRange(h[s \ {AnyOf(s)}], AnyOf(s)[1], AnyOf(s)[2])
    <3>1. h = [t \in SUBSET S |->
                  IF t = {} THEN cc ELSE AddRange(h[t \ {AnyOf(t)}], AnyOf(t)[1], AnyOf(t)[2])]
      BY <2>1 DEF Adds
    <3> QED
      BY <3>1
  <2>2. G = [s \in SUBSET S |-> G[s]]
    OBVIOUS
  <2> HIDE DEF G
  <2>3. U = {}
    <3> SUFFICES ASSUME U # {} PROVE FALSE
      OBVIOUS
    <3>1. PICK s \in U : \A t \in SUBSET s : t # s => t \notin U
      <4>1. U \in SUBSET SUBSET S
        OBVIOUS
      <4> HIDE DEF U
      <4> QED
        BY <1>1, <4>1, LeastSubset
    <3>2. s \in SUBSET S /\ g[s] # G[s]
      OBVIOUS
    <3>3. s # {}
      BY <1>7, <1>8, <2>1, <3>2
    <3>4. s \ {AnyOf(s)} \in SUBSET S /\ g[s \ {AnyOf(s)}] = G[s \ {AnyOf(s)}]
      BY <1>2, <3>1, <3>2, <3>3
    <3> QED
      BY <1>7, <1>8, <2>1, <3>2, <3>3, <3>4
  <2>4. g = [s \in SUBSET S |-> g[s]]
    BY <1>8 DEF Adds
  <2>5. \A s \in SUBSET S : g[s] = G[s]
    BY <2>3
  <2> QED
    BY <2>2, <2>4, <2>5
<1>9. Both(G[S], cc, S)
  BY <1>5
<1> HIDE DEF G
<1>10. G = CHOOSE g : g = Adds(g, cc, S)
  BY <1>7, <1>8
<1>11. AddRanges(cc, S) = (CHOOSE g : g = Adds(g, cc, S))[S]
  BY DEF AddRanges, FoldSet, MapThenFoldSet, Adds, AnyOf
<1>12. AddRanges(cc, S) = G[S]
  BY <1>10, <1>11
<1> QED
  BY <1>9, <1>12 DEF Both

-----------------------------------------------------------------------------
(* GetCharClass and CharClass::Negate *)

\* A class lists the ranges of its builder, each beyond the one before it and apart
\* from it.
THEOREM SortedInOrder ==
    ASSUME NEW R \in SUBSET Ranges, Apart(R)
    PROVE  /\ Sorted(R) \in Seq(R) /\ ToSet(Sorted(R)) = R
           /\ \A k, l \in DOMAIN Sorted(R) : k < l => Sorted(R)[k][2] + 1 < Sorted(R)[l][1]
<1> DEFINE n == Cardinality(R)
           Rel == {p \in R \X R : p[1][1] < p[2][1]}
           below(x) == {y \in R : y[1] < x[1]}
           rank(x) == Cardinality(below(x))
           at(k) == CHOOSE x \in R : rank(x) = k - 1
<1>1. IsFiniteSet(R) /\ n \in Nat
  BY RangesFinite, FS_CardinalityType
<1>2. \A x, y \in R : <<x, y>> \in Rel <=> x[1] < y[1]
  OBVIOUS
<1>3. \A x \in R : x[1] \in Int /\ x[2] \in Int /\ x[1] <= x[2]
  BY RangeFacts, RuneFacts DEF Apart
<1>4. \A x, y \in R : x # y => x[2] + 1 < y[1] \/ y[2] + 1 < x[1]
  BY DEF Apart
<1>5. \A x, y \in R : x # y => (x[1] < y[1] /\ x[2] + 1 < y[1]) \/ (y[1] < x[1] /\ y[2] + 1 < x[1])
  <2> SUFFICES ASSUME NEW x \in R, NEW y \in R, x # y
               PROVE  (x[1] < y[1] /\ x[2] + 1 < y[1]) \/ (y[1] < x[1] /\ y[2] + 1 < x[1])
    OBVIOUS
  <2>1. /\ x[1] \in Int /\ x[2] \in Int /\ x[1] <= x[2]
        /\ y[1] \in Int /\ y[2] \in Int /\ y[1] <= y[2]
        /\ x[2] + 1 < y[1] \/ y[2] + 1 < x[1]
    BY <1>3, <1>4
  <2> QED
    BY <2>1, SMT
<1>6. Orders(Rel, R)
  <2> HIDE DEF Rel
  <2>1. \A x \in R : ~(x[1] < x[1])
    BY <1>3, SMT
  <2>2. \A x, y, z \in R : x[1] < y[1] /\ y[1] < z[1] => x[1] < z[1]
    <3> SUFFICES ASSUME NEW x \in R, NEW y \in R, NEW z \in R, x[1] < y[1], y[1] < z[1]
                 PROVE  x[1] < z[1]
      OBVIOUS
    <3>1. x[1] \in Int /\ y[1] \in Int /\ z[1] \in Int
      BY <1>3
    <3> QED
      BY <3>1, SMT
  <2>3. \A x, y \in R : x # y => x[1] < y[1] \/ y[1] < x[1]
    BY <1>5
  <2> QED
    BY <1>2, <2>1, <2>2, <2>3 DEF Orders
<1>7. \A x \in R : Below(Rel, R, x) = below(x)
  BY <1>2 DEF Below
<1> HIDE DEF Rel, below
<1>8. /\ \A x \in R : rank(x) \in 0 .. n - 1
      /\ \A x, y \in R : x[1] < y[1] => rank(x) < rank(y)
      /\ \A k \in 0 .. n - 1 : \E x \in R : rank(x) = k
  <2>1. /\ \A x \in R : Cardinality(Below(Rel, R, x)) \in 0 .. n - 1
        /\ \A x, y \in R : <<x, y>> \in Rel =>
              Cardinality(Below(Rel, R, x)) < Cardinality(Below(Rel, R, y))
        /\ \A k \in 0 .. n - 1 : \E x \in R : Cardinality(Below(Rel, R, x)) = k
    BY <1>1, <1>6, RankFacts
  <2> QED
    BY <1>2, <1>7, <2>1
<1>9. ASSUME NEW k \in 1 .. n PROVE at(k) \in R /\ rank(at(k)) = k - 1
  <2>1. k - 1 \in 0 .. n - 1
    BY <1>1, SMT
  <2> DEFINE i == k - 1
  <2>2. \E x \in R : rank(x) = i
    BY <1>8, <2>1
  <2> HIDE DEF rank
  <2> QED
    BY <2>2 DEF i
<1> DEFINE q == [k \in 1 .. n |-> at(k)]
<1>10. Sorted(R) = q
  BY DEF Sorted, InOrder, below
<1> HIDE DEF rank
<1>11. \A k \in 1 .. n : q[k] \in R /\ rank(q[k]) = k - 1
  BY <1>9
<1>12. q \in [1 .. n -> R]
  BY <1>9
<1>13. DOMAIN q = 1 .. n
  OBVIOUS
<1> HIDE DEF q, at
<1>14. q \in Seq(R)
  BY <1>1, <1>12
<1>15. ToSet(q) = R
  <2>1. ASSUME NEW x \in R PROVE \E k \in 1 .. n : q[k] = x
    <3>1. rank(x) \in 0 .. n - 1
      BY <1>8
    <3> DEFINE k == rank(x) + 1
    <3>2. k \in 1 .. n /\ k - 1 = rank(x)
      BY <1>1, <3>1, SMT
    <3> HIDE DEF k
    <3>3. q[k] \in R /\ rank(q[k]) = rank(x)
      BY <1>11, <3>2
    <3>4. q[k] = x
      <4> SUFFICES ASSUME q[k] # x PROVE FALSE
        OBVIOUS
      <4>1. q[k][1] < x[1] \/ x[1] < q[k][1]
        BY <1>5, <3>3
      <4>2. rank(q[k]) < rank(x) \/ rank(x) < rank(q[k])
        BY <1>8, <3>3, <4>1
      <4> QED
        BY <1>1, <3>1, <3>3, <4>2, SMT
    <3> QED
      BY <3>2, <3>4
  <2> QED
    BY <1>11, <1>13, <2>1 DEF ToSet
<1>16. ASSUME NEW k \in 1 .. n, NEW l \in 1 .. n, k < l PROVE q[k][2] + 1 < q[l][1]
  <2>1. q[k] \in R /\ q[l] \in R /\ rank(q[k]) = k - 1 /\ rank(q[l]) = l - 1
    BY <1>11
  <2>2. q[k] # q[l]
    BY <1>16, <2>1, SMT
  <2>3. ~(q[l][1] < q[k][1])
    <3> SUFFICES ASSUME q[l][1] < q[k][1] PROVE FALSE
      OBVIOUS
    <3>1. l - 1 < k - 1
      BY <1>8, <2>1
    <3> QED
      BY <1>16, <3>1, SMT
  <2> QED
    BY <1>5, <2>1, <2>2, <2>3
<1> QED
  BY <1>10, <1>13, <1>14, <1>15, <1>16

\* The letters that a class lacks fold to one another exactly if those that it has do.
LEMMA FoldsComplement ==
    ASSUME NEW u \in SUBSET Upper, NEW l \in SUBSET LowerCase,
           {Lower(c) : c \in u} = l
    PROVE  {Lower(c) : c \in Upper \ u} = LowerCase \ l
<1>1. MaxByte \in Nat /\ UpperA \in Nat /\ UpperZ \in Nat /\ LowerA \in Nat
  BY ByteAssumption
<1>2. ASSUME NEW c \in Upper
      PROVE  Lower(c) \in LowerCase /\ Lower(c) = c + (LowerA - UpperA) /\ c \in Int
  <2>1. Lower(c) = c + (LowerA - UpperA)
    BY DEF Lower, Upper
  <2>2. c + (LowerA - UpperA) \in LowerCase /\ c \in Int
    BY <1>1, SMT DEF Upper, LowerCase, LowerZ
  <2> QED
    BY <2>1, <2>2
<1>3. ASSUME NEW d \in LowerCase PROVE \E c \in Upper : Lower(c) = d
  <2> DEFINE c == d - (LowerA - UpperA)
  <2>1. c \in Upper /\ c + (LowerA - UpperA) = d
    BY <1>1, SMT DEF Upper, LowerCase, LowerZ
  <2> HIDE DEF c
  <2> QED
    BY <1>2, <2>1
<1>4. ASSUME NEW c \in Upper, NEW d \in Upper, Lower(c) = Lower(d) PROVE c = d
  <2>1. /\ c \in Int /\ d \in Int
        /\ c + (LowerA - UpperA) = d + (LowerA - UpperA)
    BY <1>2, <1>4
  <2> QED
    BY <1>1, <2>1, SMT
<1>5. \A c \in Upper : Lower(c) \in l <=> c \in u
  BY <1>4
<1> QED
  BY <1>2, <1>3, <1>5

\* A class negated after it was sorted is the one that its builder gives when it is
\* negated before.
THEOREM NegateClassCommutes ==
    ASSUME NEW cc, IsClass(cc)
    PROVE  NegateClass(GetCharClass(cc)) = GetCharClass(Negate(cc))
<1> DEFINE R == cc.ranges
           not == Negate(cc)
<1>1. /\ R \in SUBSET Ranges /\ Apart(R)
      /\ cc.upper = Upper \intersect Runes(R) /\ cc.lower = LowerCase \intersect Runes(R)
  <2>1. R \in SUBSET Ranges
        /\ cc = [ranges |-> R, upper |-> cc.upper, lower |-> cc.lower, nrunes |-> cc.nrunes]
    BY DEF IsClass
  <2> HIDE DEF R
  <2> QED
    BY <2>1, ClassFacts
<1>2. /\ not.ranges = Gaps(R) /\ not.upper = Upper \ cc.upper
      /\ not.lower = LowerCase \ cc.lower /\ not.nrunes = Runemax + 1 - cc.nrunes
  BY DEF Negate
<1>3. ToSet(Sorted(R)) = R
  <2> HIDE DEF R
  <2> QED
    BY <1>1, SortedInOrder
<1>4. FoldsASCII(not) = FoldsASCII(cc)
  <2> DEFINE u == cc.upper
             l == cc.lower
             U == Upper \ u
             L == LowerCase \ l
  <2>1. u \in SUBSET Upper /\ l \in SUBSET LowerCase
    BY <1>1
  <2>2. U \in SUBSET Upper /\ L \in SUBSET LowerCase /\ Upper \ U = u /\ LowerCase \ L = l
    BY <2>1
  <2>3. FoldsASCII(cc) = ({Lower(c) : c \in u} = l) /\ FoldsASCII(not) = ({Lower(c) : c \in U} = L)
    BY <1>2 DEF FoldsASCII
  <2> HIDE DEF u, l, not
  <2>4. {Lower(c) : c \in u} = l => {Lower(c) : c \in U} = L
    BY <2>1, FoldsComplement
  <2> HIDE DEF U, L
  <2>5. {Lower(c) : c \in U} = L => {Lower(c) : c \in Upper \ U} = LowerCase \ L
    BY <2>2, FoldsComplement
  <2> QED
    BY <2>2, <2>3, <2>4, <2>5
<1>5. GetCharClass(cc) = [ranges |-> Sorted(R), nrunes |-> cc.nrunes, folds_ascii |-> FoldsASCII(cc)]
  BY DEF GetCharClass
<1>6. GetCharClass(not) =
        [ranges |-> Sorted(Gaps(R)), nrunes |-> Runemax + 1 - cc.nrunes, folds_ascii |-> FoldsASCII(cc)]
  BY <1>2, <1>4 DEF GetCharClass
<1>7. NegateClass(GetCharClass(cc)) =
        [ranges |-> Sorted(Gaps(ToSet(Sorted(R)))), nrunes |-> Runemax + 1 - cc.nrunes,
         folds_ascii |-> FoldsASCII(cc)]
  <2> DEFINE s == Sorted(R)
             m == cc.nrunes
             f == FoldsASCII(cc)
             g == GetCharClass(cc)
  <2>1. g = [ranges |-> s, nrunes |-> m, folds_ascii |-> f]
    BY <1>5
  <2> HIDE DEF s, m, f, g
  <2>2. g.ranges = s /\ g.nrunes = m
    BY <2>1
  <2>3. NegateClass(g) =
          [[ranges |-> s, nrunes |-> m, folds_ascii |-> f] EXCEPT
              !.ranges = Sorted(Gaps(ToSet(s))), !.nrunes = Runemax + 1 - @]
    BY <2>1, <2>2 DEF NegateClass
  <2> DEFINE t == Sorted(Gaps(ToSet(s)))
  <2> HIDE DEF t
  <2>4. NegateClass(g) = [ranges |-> t, nrunes |-> Runemax + 1 - m, folds_ascii |-> f]
    BY <2>3 DEF t
  <2> QED
    BY <2>4 DEF s, m, f, g, t
<1> HIDE DEF R, not
<1> QED
  BY <1>3, <1>6, <1>7 DEF not

-----------------------------------------------------------------------------
(* A builder in use *)

VARIABLE ccb        \* a CharClassBuilder

BuilderInit == ccb = NoClass

BuilderNext ==
    \/ \E lo, hi \in Rune : ccb' = AddRange(ccb, lo, hi)
    \/ \E other : IsClass(other) /\ ccb' = AddCharClass(ccb, other)
    \/ \E r \in Nat : ccb' = RemoveAbove(ccb, r)
    \/ ccb' = Negate(ccb)

BuilderSpec == BuilderInit /\ [][BuilderNext]_ccb

LEMMA BuilderInductive ==
    ASSUME IsClass(ccb), [BuilderNext]_ccb
    PROVE  IsClass(ccb')
<1>1. CASE \E lo, hi \in Rune : ccb' = AddRange(ccb, lo, hi)
  BY <1>1, AddRangeIsUnion
<1>2. CASE \E other : IsClass(other) /\ ccb' = AddCharClass(ccb, other)
  <2>1. PICK other : IsClass(other) /\ ccb' = AddCharClass(ccb, other)
    BY <1>2
  <2>2. other.ranges \in SUBSET Ranges
    BY <2>1 DEF IsClass
  <2> QED
    BY <2>1, <2>2, AddRangesIsUnion DEF AddCharClass
<1>3. CASE \E r \in Nat : ccb' = RemoveAbove(ccb, r)
  BY <1>3, RemoveAboveIsCut
<1>4. CASE ccb' = Negate(ccb)
  BY <1>4, NegateIsComplement
<1>5. CASE UNCHANGED ccb
  BY <1>5
<1> QED
  BY <1>1, <1>2, <1>3, <1>4, <1>5 DEF BuilderNext

\* Whatever is done to a builder and in whatever order, its ranges stay apart, and its
\* count and bitmaps are those of its runes.
THEOREM SpecExact == BuilderSpec => []IsExact(ccb)
<1>1. BuilderInit => IsClass(ccb)
  <2> SUFFICES ASSUME BuilderInit PROVE IsClass(ccb)
    OBVIOUS
  <2>1. Runes({}) = {} /\ Cardinality({}) = 0 /\ Apart({})
    BY FS_EmptySet DEF Runes, Apart
  <2> DEFINE none == {}
  <2>2. none \in SUBSET Ranges
    OBVIOUS
  <2>3. /\ ccb = [ranges |-> none, upper |-> ccb.upper, lower |-> ccb.lower,
                  nrunes |-> ccb.nrunes]
        /\ ccb.nrunes = 0 /\ ccb.upper = {} /\ ccb.lower = {}
    BY DEF BuilderInit, NoClass
  <2> QED
    BY <2>1, <2>2, <2>3, ClassFacts
<1>2. IsClass(ccb) /\ [BuilderNext]_ccb => IsClass(ccb)'
  <2> SUFFICES ASSUME IsClass(ccb), [BuilderNext]_ccb PROVE IsClass(ccb')
    BY DEF IsClass
  <2> QED
    BY BuilderInductive
<1>3. IsClass(ccb) => IsExact(ccb)
  BY DEF IsClass
<1> QED
  BY <1>1, <1>2, <1>3, PTL DEF BuilderSpec

=============================================================================
