-------------------------- MODULE RE2MatchProofs --------------------------
(***************************************************************************)
(* RE2::Match returns what the semantics of the regexp says for every text *)
(* length, every regexp, every call and any number of threads, whichever   *)
(* DFA runs out of memory and whether or not the reverse program fits.     *)
(*                                                                         *)
(* The argument.  Target is the span the engines are after: where the      *)
(* matches a call asks for begin, once Match has narrowed its anchors and  *)
(* taken the prefix off, and where the best of them ends.  Each engine is  *)
(* shown to find Target or a part of it, from the arguments Match gives    *)
(* it; the invariant says which part is known at each place in Match.      *)
(***************************************************************************)
EXTENDS RE2Match, OrderLemmas

\* The ends of the matches a call asks for that begin at i of the subtext.
Wanted(c, i) ==
    {j \in ToSet(re.ends[i]) :
        /\ j <= c.endpos
        /\ re.anchor_end => j = N
        /\ Narrowed(c) = AnchorBoth => j = c.endpos}

\* Where they begin.
From(c) == c.startpos + re.prefixlen
Starts(c) ==
    {i \in IF Narrowed(c) = Unanchored THEN From(c) .. c.endpos ELSE {From(c)} :
        (re.anchor_start => i = 0) /\ Wanted(c, i) # {}}

\* The match the engines have to find.
Target(c) ==
    IF Starts(c) = {} THEN NoSpan
    ELSE LET i == Min(Starts(c))
         IN  <<i, IF re.longest THEN Max(Wanted(c, i))
                  ELSE Preferred(i, Wanted(c, i))>>

-----------------------------------------------------------------------------
Labels == {"idle", "begin", "dfa", "rprog", "rdfa", "submatch", "return"}

TypeOK ==
    /\ re \in Regexps
    /\ pc \in [Threads -> Labels]
    /\ call \in [Threads -> Calls]
    /\ re_anchor \in [Threads -> {Unanchored, AnchorStart, AnchorBoth}]
    /\ DOMAIN match = Threads /\ match = [t \in Threads |-> match[t]]
    /\ skipped_test \in [Threads -> BOOLEAN]
    /\ DOMAIN result = Threads /\ result = [t \in Threads |-> result[t]]

\* While the engines run Match's own checks have passed and the anchors are
\* narrowed.
Narrow(t) ==
    pc[t] \in {"dfa", "rprog", "rdfa", "submatch"} =>
        Possible(call[t]) /\ re_anchor[t] = Narrowed(call[t])

\* A regexp that is anchored at its end is not searched forwards, unless the call
\* is anchored too.
Forwards(t) ==
    pc[t] = "dfa" => Narrowed(call[t]) # Unanchored \/ ~re.anchor_end

\* The reverse program is for unanchored searches, and what is known then is where
\* the match ends: the text's end, or the one the forward DFA has found.
Backwards(t) ==
    pc[t] \in {"rprog", "rdfa"} =>
        /\ Narrowed(call[t]) = Unanchored
        /\ ~re.anchor_end =>
              /\ call[t].nsubmatch # 0
              /\ Target(call[t]) # NoSpan
              /\ match[t][2] = Target(call[t])[2]

\* Where the DFAs have run the whole match is known.
Known(t) ==
    pc[t] = "submatch" /\ ~skipped_test[t] =>
        Target(call[t]) # NoSpan /\ match[t] = Target(call[t])

\* MatchExpected, of one thread.
Right(t) == pc[t] = "return" => result[t] = Expected(call[t])

Informed(t) == Narrow(t) /\ Forwards(t) /\ Backwards(t) /\ Known(t) /\ Right(t)

IInv == TypeOK /\ \A t \in Threads : Informed(t)

-----------------------------------------------------------------------------
(***************************************************************************)
(* What Target is.                                                         *)
(***************************************************************************)

LEMMA CallFacts ==
    ASSUME NEW c \in Calls
    PROVE  /\ N \in Nat
           /\ c.startpos \in 0 .. N /\ c.endpos \in 0 .. N
           /\ c.re_anchor \in {Unanchored, AnchorStart, AnchorBoth}
           /\ c.nsubmatch \in Nat
BY CallAssumption, RegexpAssumption DEF Positions

LEMMA RegexpFacts ==
    ASSUME re \in Regexps
    PROVE  /\ N \in Nat /\ re.prefixlen \in Nat /\ re.groups \in Nat
           /\ re.prefix_found \in BOOLEAN /\ re.anchor_start \in BOOLEAN
           /\ re.anchor_end \in BOOLEAN /\ re.longest \in BOOLEAN
           /\ \A i \in 0 .. N : /\ re.ends[i] \in Seq(i .. N)
                                /\ ToSet(re.ends[i]) \in SUBSET (i .. N)
<1>1. \A i \in 0 .. N : re.ends[i] \in Seq(i .. N)
  BY RegexpAssumption DEF Positions
<1>2. \A S, s : s \in Seq(S) => ToSet(s) \in SUBSET S
  BY DEF ToSet
<1>3. \A i \in 0 .. N : ToSet(re.ends[i]) \in SUBSET (i .. N)
  BY <1>1, <1>2
<1> QED
  BY <1>1, <1>3, RegexpAssumption

\* The preferred of some ends is one of them.
LEMMA PreferredIsOne ==
    ASSUME re \in Regexps, NEW i \in 0 .. N, NEW S \in SUBSET ToSet(re.ends[i]),
           S # {}
    PROVE  Preferred(i, S) \in S
<1> DEFINE K == {k \in DOMAIN re.ends[i] : re.ends[i][k] \in S}
<1>1. re.ends[i] \in Seq(i .. N)
  BY RegexpFacts
<1>2. K \in SUBSET Nat /\ K # {}
  <2>1. DOMAIN re.ends[i] \in SUBSET Nat
    BY <1>1
  <2> QED
    BY <2>1 DEF ToSet
<1>3. Min(K) \in K
  BY <1>2, MinIsLeast
<1> QED
  BY <1>3 DEF Preferred

LEMMA NarrowedFacts ==
    ASSUME re \in Regexps, NEW c \in Calls
    PROVE  /\ Narrowed(c) \in {Unanchored, AnchorStart, AnchorBoth}
           /\ Narrowed(c) = Unanchored =>
                 ~re.anchor_start /\ re.prefixlen = 0 /\ c.re_anchor = Unanchored
           /\ Narrowed(c) = AnchorBoth =>
                 c.re_anchor = AnchorBoth \/ (re.anchor_start /\ re.anchor_end)
           /\ c.re_anchor = AnchorBoth => Narrowed(c) = AnchorBoth
           /\ Narrowed(c) = AnchorStart =>
                 c.re_anchor = AnchorStart \/ re.anchor_start \/ re.prefixlen > 0
BY CallFacts, RegexpFacts DEF Narrowed, Unanchored, AnchorStart, AnchorBoth

\* Where the engines look, when Match's own checks have passed.
LEMMA StartsFacts ==
    ASSUME re \in Regexps, NEW c \in Calls, Possible(c)
    PROVE  /\ From(c) \in 0 .. c.endpos
           /\ Starts(c) \in SUBSET (From(c) .. c.endpos)
           /\ Narrowed(c) # Unanchored => Starts(c) \in SUBSET {From(c)}
           /\ \A i \in 0 .. N : Wanted(c, i) \in SUBSET ToSet(re.ends[i])
           /\ \A i \in 0 .. N : Wanted(c, i) \in SUBSET (i .. c.endpos)
<1>1. From(c) \in 0 .. c.endpos
  BY CallFacts, RegexpFacts, SMT DEF From, Possible
<1>2. Starts(c) \in SUBSET (From(c) .. c.endpos)
  BY <1>1, CallFacts, SMT DEF Starts
<1>3. \A i \in 0 .. N : Wanted(c, i) \in SUBSET ToSet(re.ends[i])
  BY DEF Wanted
<1>4. ASSUME NEW i \in 0 .. N PROVE Wanted(c, i) \in SUBSET (i .. c.endpos)
  <2> SUFFICES ASSUME NEW j \in Wanted(c, i) PROVE j \in i .. c.endpos
    OBVIOUS
  <2>1. j \in i .. N /\ j <= c.endpos
    BY RegexpFacts DEF Wanted
  <2> QED
    BY <2>1, CallFacts, SMT
<1> QED
  BY <1>1, <1>2, <1>3, <1>4 DEF Starts

\* The span is where the first match begins and one of the ends wanted there.
LEMMA TargetFacts ==
    ASSUME re \in Regexps, NEW c \in Calls, Possible(c), Starts(c) # {}
    PROVE  /\ Min(Starts(c)) \in Starts(c)
           /\ Min(Starts(c)) \in From(c) .. c.endpos
           /\ Min(Starts(c)) \in 0 .. N
           /\ \A i \in Starts(c) : Min(Starts(c)) <= i
           /\ Wanted(c, Min(Starts(c))) # {}
           /\ Target(c)[1] = Min(Starts(c))
           /\ Target(c)[2] \in Wanted(c, Min(Starts(c)))
           /\ Target(c) = <<Target(c)[1], Target(c)[2]>>
           /\ Target(c)[2] = IF re.longest THEN Max(Wanted(c, Min(Starts(c))))
                             ELSE Preferred(Min(Starts(c)), Wanted(c, Min(Starts(c))))
<1> DEFINE i == Min(Starts(c))
           j == IF re.longest THEN Max(Wanted(c, i)) ELSE Preferred(i, Wanted(c, i))
<1>1. c.endpos \in 0 .. N /\ N \in Nat /\ From(c) \in 0 .. c.endpos
  BY CallFacts, StartsFacts
<1>2. Starts(c) \in SUBSET (From(c) .. c.endpos) /\ Starts(c) \in SUBSET Nat
  BY <1>1, StartsFacts, SMT
<1>3. i \in Starts(c) /\ \A k \in Starts(c) : i <= k
  BY <1>2, MinIsLeast
<1>4. i \in From(c) .. c.endpos /\ i \in 0 .. N
  BY <1>1, <1>2, <1>3, SMT
<1>5. Wanted(c, i) # {}
  BY <1>3 DEF Starts
<1>6. Wanted(c, i) \in SUBSET ToSet(re.ends[i]) /\ Wanted(c, i) \in SUBSET (0 .. N)
  <2>1. Wanted(c, i) \in SUBSET (i .. c.endpos)
    BY <1>4, StartsFacts
  <2> QED
    BY <1>1, <1>4, <2>1, StartsFacts, SMT
<1>7. Max(Wanted(c, i)) \in Wanted(c, i)
  BY <1>1, <1>5, <1>6, MaxIsGreatest
<1>8. Preferred(i, Wanted(c, i)) \in Wanted(c, i)
  BY <1>4, <1>5, <1>6, PreferredIsOne
<1>9. Target(c) = <<i, j>>
  BY DEF Target
<1> QED
  BY <1>3, <1>4, <1>5, <1>7, <1>8, <1>9

LEMMA TargetOrNone ==
    ASSUME re \in Regexps, NEW c \in Calls, Possible(c)
    PROVE  Target(c) = NoSpan <=> Starts(c) = {}
BY TargetFacts DEF Target, NoSpan

-----------------------------------------------------------------------------
(***************************************************************************)
(* Target is what the semantics says, once the prefix is put back.         *)
(***************************************************************************)

\* What Match refuses before any engine has no match.
LEMMA ImpossibleAsksNothing ==
    ASSUME re \in Regexps, NEW c \in Calls, ~Possible(c)
    PROVE  Asked(c) = {}
<1> SUFFICES ASSUME NEW span \in Asked(c) PROVE FALSE
  OBVIOUS
<1> DEFINE i == span[1]
           j == span[2]
<1>1. i \in 0 .. N /\ j \in 0 .. N /\ IsAsked(c, i, j)
  BY DEF Asked, Spans, Positions
<1>2. /\ c.startpos <= i /\ i + re.prefixlen <= j /\ j <= c.endpos
      /\ re.prefixlen > 0 => i = 0 /\ re.prefix_found
      /\ re.anchor_start => i + re.prefixlen = 0
      /\ re.anchor_end => j = N
  BY <1>1 DEF IsAsked
<1>3. /\ N \in Nat /\ re.prefixlen \in Nat
      /\ c.startpos \in 0 .. N /\ c.endpos \in 0 .. N
  BY CallFacts, RegexpFacts
<1> HIDE DEF i, j
<1>4. c.startpos <= c.endpos /\ re.prefixlen <= c.endpos - i
  BY <1>1, <1>2, <1>3, SMT
<1>5. i = 0 => c.startpos = i
  BY <1>1, <1>2, <1>3, SMT
<1>6. i + re.prefixlen = 0 => i = 0
  BY <1>1, <1>3, SMT
<1>7. j = N => c.endpos = N
  BY <1>1, <1>2, <1>3, SMT
<1> QED
  BY <1>2, <1>4, <1>5, <1>6, <1>7 DEF Possible

\* The others have the matches the engines look for.
LEMMA AskedIsWanted ==
    ASSUME re \in Regexps, NEW c \in Calls, Possible(c),
           NEW i \in 0 .. N, NEW j \in 0 .. N
    PROVE  <<i, j>> \in Asked(c) <=>
               i + re.prefixlen \in Starts(c) /\ j \in Wanted(c, i + re.prefixlen)
<1> DEFINE k == i + re.prefixlen
<1>1. /\ N \in Nat /\ re.prefixlen \in Nat
      /\ c.startpos \in 0 .. N /\ c.endpos \in 0 .. N
  BY CallFacts, RegexpFacts
<1>2. <<i, j>> \in Asked(c) <=> i <= j /\ IsAsked(c, i, j)
  BY DEF Asked, Spans, Positions
<1>3. ASSUME IsAsked(c, i, j) PROVE k \in Starts(c) /\ j \in Wanted(c, k)
  <2>1. /\ c.startpos <= i /\ k <= j /\ j <= c.endpos
        /\ re.prefixlen > 0 => i = 0 /\ re.prefix_found
        /\ re.anchor_start => k = 0
        /\ re.anchor_end => j = N
        /\ j \in ToSet(re.ends[k])
        /\ c.re_anchor # Unanchored => i = c.startpos
        /\ c.re_anchor = AnchorBoth => j = c.endpos
    BY <1>3 DEF IsAsked
  <2>2. Narrowed(c) = AnchorBoth => j = c.endpos
    <3>1. re.anchor_end => c.endpos = N
      BY DEF Possible
    <3> QED
      BY <2>1, <3>1, NarrowedFacts
  <2>3. j \in Wanted(c, k)
    BY <2>1, <2>2 DEF Wanted
  <2>4. k \in From(c) .. c.endpos
    BY <1>1, <2>1, SMT DEF From
  <2>5. Narrowed(c) # Unanchored => k = From(c)
    <3>1. Narrowed(c) = Unanchored \/ i = c.startpos
      <4> k = 0 \/ i = 0 => i = c.startpos
        <5>1. c.startpos <= i /\ c.startpos \in Nat /\ re.prefixlen \in Nat
          BY <1>1, <2>1
        <5> QED
          BY <5>1, SMT
      <4>1. re.anchor_start => i = c.startpos
        BY <2>1
      <4>2. re.prefixlen > 0 => i = c.startpos
        BY <2>1
      <4>3. c.re_anchor \in {AnchorStart, AnchorBoth} => i = c.startpos
        BY <2>1 DEF Unanchored, AnchorStart, AnchorBoth
      <4> QED
        BY <4>1, <4>2, <4>3, NarrowedFacts
    <3> QED
      BY <3>1 DEF From
  <2> HIDE DEF k
  <2> QED
    BY <2>1, <2>3, <2>4, <2>5 DEF Starts
<1>4. ASSUME k \in Starts(c), j \in Wanted(c, k) PROVE i <= j /\ IsAsked(c, i, j)
  <2>1. k \in From(c) .. c.endpos /\ k \in 0 .. N
    BY <1>1, <1>4, StartsFacts, SMT
  <2>2. /\ j \in ToSet(re.ends[k]) /\ j <= c.endpos
        /\ re.anchor_end => j = N
        /\ Narrowed(c) = AnchorBoth => j = c.endpos
    BY <1>4 DEF Wanted
  <2>3. k <= j
    BY <1>4, <2>1, StartsFacts, SMT
  <2>4. re.anchor_start => k = 0
    BY <1>4 DEF Starts
  <2>5. c.startpos <= i
    BY <1>1, <2>1, SMT DEF From
  <2>6. Narrowed(c) # Unanchored => i = c.startpos
    <3>1. Narrowed(c) # Unanchored => k = From(c)
      BY <1>4, StartsFacts
    <3> QED
      BY <1>1, <3>1, SMT DEF From
  <2>7. re.prefixlen > 0 => i = 0 /\ re.prefix_found
    <3>1. re.prefixlen > 0 => Narrowed(c) # Unanchored /\ c.startpos = 0 /\ re.prefix_found
      BY <1>1, NarrowedFacts, SMT DEF Possible
    <3> QED
      BY <2>6, <3>1
  <2>8. c.re_anchor # Unanchored => i = c.startpos
    BY <2>6, NarrowedFacts
  <2>9. c.re_anchor = AnchorBoth => j = c.endpos
    BY <2>2, NarrowedFacts
  <2>10. i <= j
    BY <1>1, <2>3, SMT
  <2> QED
    BY <2>2, <2>3, <2>4, <2>5, <2>7, <2>8, <2>9, <2>10 DEF IsAsked
<1> QED
  BY <1>2, <1>3, <1>4

\* Where Target is none there is no match, and elsewhere it is the answer.
LEMMA AnswerIsTarget ==
    ASSUME re \in Regexps, NEW c \in Calls, Possible(c)
    PROVE  /\ Asked(c) = {} <=> Target(c) = NoSpan
           /\ Target(c) # NoSpan =>
                 Answer(c) = <<Target(c)[1] - re.prefixlen, Target(c)[2]>>
<1> DEFINE first == Min(Starts(c))
           i == first - re.prefixlen
           starts == {span[1] : span \in Asked(c)}
           ends == {j \in Positions : <<i, j>> \in Asked(c)}
<1>1. /\ N \in Nat /\ re.prefixlen \in Nat
      /\ c.startpos \in 0 .. N /\ c.endpos \in 0 .. N
      /\ From(c) \in re.prefixlen .. c.endpos
  BY CallFacts, RegexpFacts, StartsFacts, SMT DEF From
<1>2. \A span \in Asked(c) : span = <<span[1], span[2]>> /\ span[1] \in 0 .. N /\ span[2] \in 0 .. N
  BY DEF Asked, Spans, Positions
<1>3. ASSUME NEW span \in Asked(c)
      PROVE  span[1] \in 0 .. N /\ span[1] + re.prefixlen \in Starts(c)
  <2>1. span[1] \in 0 .. N /\ span[2] \in 0 .. N /\ <<span[1], span[2]>> \in Asked(c)
    BY <1>2
  <2> QED
    BY <2>1, AskedIsWanted
<1>4. CASE Starts(c) = {}
  BY <1>3, <1>4, TargetOrNone
<1>5. CASE Starts(c) # {}
  <2>1. /\ first \in Starts(c) /\ first \in From(c) .. c.endpos
        /\ \A k \in Starts(c) : first <= k
        /\ Wanted(c, first) # {}
        /\ Wanted(c, first) \in SUBSET (first .. c.endpos)
    BY <1>5, TargetFacts, StartsFacts
  <2>2. first \in 0 .. N /\ i \in 0 .. N /\ i + re.prefixlen = first
    BY <1>1, <2>1, SMT
  <2>3. ASSUME NEW j \in 0 .. N PROVE <<i, j>> \in Asked(c) <=> j \in Wanted(c, first)
    BY <2>1, <2>2, AskedIsWanted
  <2>4. Wanted(c, first) \in SUBSET (0 .. N)
    BY <1>1, <2>1, <2>2, SMT
  <2>5. ends = Wanted(c, first)
    BY <2>3, <2>4 DEF Positions
  <2>6. i \in starts
    <3>1. PICK j \in Wanted(c, first) : j \in 0 .. N
      BY <2>1, <2>4
    <3>2. <<i, j>> \in Asked(c) /\ <<i, j>>[1] = i
      BY <2>3, <3>1
    <3> QED
      BY <3>2
  <2>7. starts \in SUBSET Nat /\ \A n \in starts : i <= n
    <3> SUFFICES ASSUME NEW span \in Asked(c) PROVE span[1] \in Nat /\ i <= span[1]
      OBVIOUS
    <3>1. span[1] \in 0 .. N /\ first <= span[1] + re.prefixlen
      BY <1>3, <2>1
    <3> QED
      BY <1>1, <2>2, <3>1, SMT
  <2>8. Min(starts) = i
    <3> HIDE DEF starts, i
    <3> QED
      BY <2>6, <2>7, MinIsUnique
  <2>9. Answer(c) = <<i, IF re.longest THEN Max(ends) ELSE Preferred(first, ends)>>
    BY <2>2, <2>8 DEF Answer
  <2>10. Answer(c) = <<Target(c)[1] - re.prefixlen, Target(c)[2]>>
    BY <1>5, <2>5, <2>9, TargetFacts
  <2>11. Asked(c) # {}
    BY <2>6
  <2> QED
    BY <1>5, <2>10, <2>11, TargetOrNone
<1> QED
  BY <1>4, <1>5

\* So this is what a call has to return.
LEMMA ExpectedIsTarget ==
    ASSUME re \in Regexps, NEW t \in Threads, call[t] \in Calls
    PROVE  /\ ~Possible(call[t]) => Expected(call[t]) = NoMatch
           /\ Possible(call[t]) /\ Target(call[t]) = NoSpan =>
                 Expected(call[t]) = NoMatch
           /\ Possible(call[t]) /\ Target(call[t]) # NoSpan =>
                 Expected(call[t]) = Matched(t, Target(call[t]))
<1> DEFINE c == call[t]
<1>1. ~Possible(c) => Expected(c) = NoMatch
  BY ImpossibleAsksNothing DEF Expected
<1>2. Possible(c) /\ Target(c) = NoSpan => Expected(c) = NoMatch
  BY AnswerIsTarget DEF Expected
<1>3. ASSUME Possible(c), Target(c) # NoSpan
      PROVE  Expected(c) = Matched(t, Target(c))
  <2> DEFINE filled(k) == CASE k = 1 -> Answer(c)
                            [] k > 1 /\ k <= 1 + re.groups -> "group"
                            [] OTHER -> "NULL"
             mine(k) == CASE k = 1 -> <<Target(c)[1] - re.prefixlen, Target(c)[2]>>
                          [] k > 1 /\ k <= Captures(t) -> "group"
                          [] OTHER -> "NULL"
  <2>1. Asked(c) # {} /\ Answer(c) = <<Target(c)[1] - re.prefixlen, Target(c)[2]>>
    BY <1>3, AnswerIsTarget
  <2>2. Captures(t) = IF 1 + re.groups <= c.nsubmatch THEN 1 + re.groups ELSE c.nsubmatch
    <3>1. re.groups \in Nat /\ c.nsubmatch \in Nat
      BY CallFacts, RegexpFacts
    <3> DEFINE n == IF 1 + re.groups <= c.nsubmatch THEN 1 + re.groups ELSE c.nsubmatch
               S == {1 + re.groups, c.nsubmatch}
    <3>2. n \in S /\ S \in SUBSET Nat /\ \A m \in S : n <= m
      BY <3>1, SMT
    <3>3. Min(S) = n
      <4> HIDE DEF n, S
      <4> QED
        BY <3>2, MinIsUnique
    <3> QED
      BY <3>3 DEF Captures
  <2>3. ASSUME NEW k \in 1 .. c.nsubmatch PROVE filled(k) = mine(k)
    <3>1. k <= Captures(t) <=> k <= 1 + re.groups
      BY <2>2, CallFacts, RegexpFacts, SMT
    <3> QED
      BY <2>1, <3>1
  <2>4. Expected(c) = [matched |-> TRUE, submatch |-> [k \in 1 .. c.nsubmatch |-> filled(k)]]
    BY <2>1 DEF Expected
  <2>5. Matched(t, Target(c)) = [matched |-> TRUE, submatch |-> [k \in 1 .. c.nsubmatch |-> mine(k)]]
    BY DEF Matched, Submatches
  <2> HIDE DEF filled, mine
  <2> QED
    BY <2>3, <2>4, <2>5
<1> QED
  BY <1>1, <1>2, <1>3

-----------------------------------------------------------------------------
(***************************************************************************)
(* What the engines find.                                                  *)
(***************************************************************************)

\* An engine that heeds the anchors of the regexp and of the call sees the matches
\* that are wanted.
LEMMA EndsAreWanted ==
    ASSUME re \in Regexps, NEW c \in Calls, Possible(c), NEW tail \in BOOLEAN,
           tail <=> re.anchor_end \/ Narrowed(c) = AnchorBoth,
           NEW i \in 0 .. N
    PROVE  {j \in Ends(i, c.endpos) : tail => j = c.endpos} = Wanted(c, i)
<1>1. re.anchor_end => c.endpos = N
  BY DEF Possible
<1> QED
  BY <1>1 DEF Ends, Wanted

\* The best of the matches that begin first is Target, provided the engine agrees
\* which is best; whether there is one does not depend on that.
LEMMA LeftmostIsTarget ==
    ASSUME re \in Regexps, NEW c \in Calls, Possible(c), AnchorsFit(From(c), c.endpos),
           NEW anchored \in BOOLEAN, anchored <=> Narrowed(c) # Unanchored,
           NEW tail \in BOOLEAN, tail <=> re.anchor_end \/ Narrowed(c) = AnchorBoth,
           NEW longest \in BOOLEAN
    PROVE  LET found == Leftmost(From(c), c.endpos, anchored, longest, tail)
           IN  /\ found = NoSpan <=> Target(c) = NoSpan
               /\ (longest <=> re.longest) \/ tail => found = Target(c)
<1> DEFINE b == From(c)
           e == c.endpos
           ends(i) == {j \in Ends(i, e) : tail => j = e}
           starts == {i \in IF anchored THEN {b} ELSE b .. e : ends(i) # {}}
           found == Leftmost(b, e, anchored, longest, tail)
           first == Min(Starts(c))
<1>1. b \in 0 .. e /\ e \in 0 .. N /\ N \in Nat
  BY StartsFacts, CallFacts
<1>2. ASSUME NEW i \in b .. e PROVE ends(i) = Wanted(c, i)
  <2>1. i \in 0 .. N
    BY <1>1, SMT
  <2> QED
    BY <2>1, EndsAreWanted
<1>3. starts = Starts(c)
  <2>1. re.anchor_start => Narrowed(c) # Unanchored /\ b = 0
    BY NarrowedFacts DEF AnchorsFit
  <2>2. b \in b .. e
    BY <1>1, SMT
  <2> HIDE DEF b, e, ends
  <2>3. starts = {i \in IF Narrowed(c) = Unanchored THEN b .. e ELSE {b} : Wanted(c, i) # {}}
    BY <1>2, <2>2
  <2>4. starts = {i \in IF Narrowed(c) = Unanchored THEN b .. e ELSE {b} :
                     (re.anchor_start => i = 0) /\ Wanted(c, i) # {}}
    BY <2>1, <2>3
  <2> QED
    BY <2>4 DEF Starts, b, e
<1>4. found = IF starts = {} THEN NoSpan
              ELSE <<Min(starts), IF longest THEN Max(ends(Min(starts)))
                                  ELSE Preferred(Min(starts), ends(Min(starts)))>>
  BY DEF Leftmost
<1>5. CASE Starts(c) = {}
  BY <1>3, <1>4, <1>5, TargetOrNone
<1>6. CASE Starts(c) # {}
  <2>1. first \in b .. e /\ first \in 0 .. N /\ Wanted(c, first) # {}
    BY <1>6, TargetFacts
  <2>2. found = <<first, IF longest THEN Max(Wanted(c, first))
                         ELSE Preferred(first, Wanted(c, first))>>
    BY <1>2, <1>3, <1>4, <1>6, <2>1
  <2>3. found # NoSpan /\ Target(c) # NoSpan
    BY <1>6, <2>2, TargetOrNone DEF NoSpan
  <2>4. Target(c) = <<first, IF re.longest THEN Max(Wanted(c, first))
                             ELSE Preferred(first, Wanted(c, first))>>
    BY <1>6 DEF Target
  <2>5. CASE tail
    <3>1. Wanted(c, first) = {e}
      <4>1. Wanted(c, first) \in SUBSET {e}
        <5>1. re.anchor_end => e = N
          BY DEF Possible
        <5> QED
          BY <2>5, <5>1 DEF Wanted
      <4> QED
        BY <2>1, <4>1
    <3>2. Max(Wanted(c, first)) \in {e}
      <4>1. {e} \in SUBSET (0 .. N) /\ {e} # {}
        BY <1>1
      <4> QED
        BY <1>1, <3>1, <4>1, MaxIsGreatest
    <3>3. Preferred(first, Wanted(c, first)) \in {e}
      BY <2>1, <3>1, StartsFacts, PreferredIsOne
    <3> QED
      BY <2>2, <2>3, <2>4, <3>2, <3>3
  <2>6. CASE ~tail
    BY <2>2, <2>3, <2>4, <2>6
  <2> QED
    BY <2>5, <2>6
<1> HIDE DEF b, e, found
<1> QED
  BY <1>5, <1>6 DEF b, e, found

\* Whether the whole of [b, e] matches.
Whole(b, e) == IF e \in ToSet(re.ends[b]) THEN <<b, e>> ELSE NoSpan

\* It shows whether the search asks for the longest match and its end is looked at
\* later, or only counts the matches that end at e.
LEMMA LeftmostIsWhole ==
    ASSUME re \in Regexps, NEW b \in 0 .. N, NEW e \in b .. N,
           NEW longest \in BOOLEAN, NEW tail \in BOOLEAN, longest \/ tail
    PROVE  LET found == Leftmost(b, e, TRUE, longest, tail)
           IN  /\ (IF found # NoSpan /\ found[2] # e THEN NoSpan ELSE found) = Whole(b, e)
               /\ tail => found = Whole(b, e)
<1> DEFINE ends(i) == {j \in Ends(i, e) : tail => j = e}
           starts == {i \in IF TRUE THEN {b} ELSE b .. e : ends(i) # {}}
           best == IF longest THEN Max(ends(b)) ELSE Preferred(b, ends(b))
           found == Leftmost(b, e, TRUE, longest, tail)
<1>1. N \in Nat /\ b \in Nat /\ e \in 0 .. N /\ e \in Nat
  BY RegexpFacts, SMT
<1>2. /\ ends(b) \in SUBSET ToSet(re.ends[b])
      /\ ends(b) \in SUBSET (0 .. e)
      /\ \A j \in ends(b) : tail => j = e
      /\ e \in ends(b) <=> e \in ToSet(re.ends[b])
  <2>1. ToSet(re.ends[b]) \in SUBSET (b .. N)
    BY RegexpFacts
  <2>2. ASSUME NEW j \in ends(b) PROVE j \in 0 .. e
    <3>1. j \in b .. N /\ j <= e
      BY <2>1 DEF Ends
    <3> QED
      BY <1>1, <3>1, SMT
  <2>3. e <= e
    BY <1>1
  <2> QED
    BY <2>2, <2>3 DEF Ends
<1>3. found = IF starts = {} THEN NoSpan
              ELSE <<Min(starts), IF longest THEN Max(ends(Min(starts)))
                                  ELSE Preferred(Min(starts), ends(Min(starts)))>>
  BY DEF Leftmost
<1>4. ends(b) = {} => found = NoSpan
  BY <1>3
<1>5. ends(b) # {} => found = <<b, best>>
  <2> SUFFICES ASSUME ends(b) # {} PROVE found = <<b, best>>
    OBVIOUS
  <2>1. starts = {b}
    OBVIOUS
  <2>2. {b} \in SUBSET Nat /\ \A m \in {b} : b <= m
    BY <1>1
  <2>3. Min({b}) = b
    BY <2>2, MinIsUnique
  <2> HIDE DEF starts, ends
  <2> QED
    BY <1>3, <2>1, <2>3
<1>6. ASSUME ends(b) # {} PROVE best \in ends(b) /\ (e \in ends(b) => best = e)
  <2>1. Max(ends(b)) \in ends(b) /\ \A m \in ends(b) : m <= Max(ends(b))
    BY <1>1, <1>2, <1>6, MaxIsGreatest
  <2>2. Preferred(b, ends(b)) \in ends(b)
    BY <1>2, <1>6, PreferredIsOne
  <2>3. best \in ends(b)
    BY <2>1, <2>2
  <2>4. ASSUME e \in ends(b), longest PROVE best = e
    <3>1. Max(ends(b)) \in 0 .. e /\ e <= Max(ends(b))
      BY <1>2, <2>1, <2>4
    <3> HIDE DEF ends
    <3> QED
      BY <1>1, <2>4, <3>1, SMT
  <2> HIDE DEF ends, best
  <2> QED
    BY <1>2, <2>3, <2>4
<1> HIDE DEF found, ends, best
<1>7. (IF found # NoSpan /\ found[2] # e THEN NoSpan ELSE found) = Whole(b, e)
  <2>1. CASE ends(b) = {}
    BY <1>2, <1>4, <2>1 DEF Whole
  <2>2. CASE ends(b) # {}
    BY <1>2, <1>5, <1>6, <2>2 DEF Whole, NoSpan
  <2> QED
    BY <2>1, <2>2
<1>8. ASSUME tail PROVE found = Whole(b, e)
  <2>1. \A j \in ends(b) : j = e
    BY <1>2, <1>8
  <2>2. CASE ends(b) = {}
    BY <1>2, <1>4, <2>2 DEF Whole
  <2>3. CASE ends(b) # {}
    BY <1>2, <1>5, <1>6, <2>1, <2>3 DEF Whole
  <2> QED
    BY <2>2, <2>3
<1> QED
  BY <1>7, <1>8 DEF found

\* A search for a full match says whether the whole of [b, e] matches, in every
\* engine.
LEMMA EnginesFindWhole ==
    ASSUME re \in Regexps, NEW b \in 0 .. N, NEW e \in b .. N, AnchorsFit(b, e),
           NEW anchored \in BOOLEAN
    PROVE  /\ SearchOnePass(b, e, anchored, "full") = Whole(b, e)
           /\ SearchBitState(b, e, anchored, "full") = Whole(b, e)
           /\ SearchNFA(b, e, anchored, "full") = Whole(b, e)
<1>1. re.anchor_end \in BOOLEAN
  BY RegexpFacts
<1>2. Leftmost(b, e, TRUE, FALSE, TRUE) = Whole(b, e)
  BY LeftmostIsWhole
<1>3. FullMatchOnly(Leftmost(b, e, TRUE, TRUE, re.anchor_end), "full", e) = Whole(b, e)
  BY <1>1, LeftmostIsWhole DEF FullMatchOnly
<1>4. SearchOnePass(b, e, anchored, "full") = Leftmost(b, e, TRUE, FALSE, TRUE)
  <2>1. ("full" = "longest") = FALSE /\ ("full" = "full" \/ re.anchor_end) = TRUE
    OBVIOUS
  <2> QED
    BY <2>1 DEF SearchOnePass
<1>5. /\ (anchored \/ "full" = "full" \/ re.anchor_start) = TRUE
      /\ ("full" # "first" \/ re.anchor_end) = TRUE
  OBVIOUS
<1> QED
  BY <1>2, <1>3, <1>4, <1>5 DEF SearchBitState, SearchNFA

\* Anchored at both ends, Target is the whole subtext.
LEMMA WholeIsTarget ==
    ASSUME re \in Regexps, NEW c \in Calls, Possible(c),
           Narrowed(c) # Unanchored, re.anchor_end \/ Narrowed(c) = AnchorBoth,
           AnchorsFit(From(c), c.endpos)
    PROVE  Target(c) = Whole(From(c), c.endpos)
<1>1. From(c) \in 0 .. N /\ c.endpos \in From(c) .. N
  BY StartsFacts, CallFacts, SMT
<1>2. Leftmost(From(c), c.endpos, TRUE, TRUE, TRUE) = Target(c)
  BY LeftmostIsTarget
<1> QED
  BY <1>1, <1>2, LeftmostIsWhole

\* A regexp whose anchors do not fit the subtext does not match.
LEMMA MisfitIsNoTarget ==
    ASSUME re \in Regexps, NEW c \in Calls, Possible(c), ~AnchorsFit(From(c), c.endpos)
    PROVE  Target(c) = NoSpan
<1>1. re.anchor_end => c.endpos = N
  BY DEF Possible
<1>2. re.anchor_start /\ From(c) # 0
  BY <1>1 DEF AnchorsFit
<1>3. Narrowed(c) # Unanchored
  BY <1>2, NarrowedFacts
<1>4. Starts(c) = {}
  BY <1>2, <1>3 DEF Starts
<1> QED
  BY <1>4, TargetOrNone

\* A search of the subtext with the anchors of the call finds Target, in every
\* engine, the whole match being asked for where the call is anchored at both ends.
LEMMA EnginesFindTarget ==
    ASSUME re \in Regexps, NEW c \in Calls, Possible(c),
           NEW anchored \in BOOLEAN, anchored <=> Narrowed(c) # Unanchored,
           NEW kind, kind = IF Narrowed(c) = AnchorBoth THEN "full" ELSE FirstKind
    PROVE  /\ anchored => SearchOnePass(From(c), c.endpos, anchored, kind) = Target(c)
           /\ SearchBitState(From(c), c.endpos, anchored, kind) = Target(c)
           /\ SearchNFA(From(c), c.endpos, anchored, kind) = Target(c)
<1> DEFINE b == From(c)
           e == c.endpos
<1>1. b \in 0 .. N /\ e \in b .. N
  BY StartsFacts, CallFacts, SMT
<1>2. CASE ~AnchorsFit(b, e)
  BY <1>2, MisfitIsNoTarget DEF SearchOnePass, SearchBitState, SearchNFA
<1>3. CASE AnchorsFit(b, e) /\ Narrowed(c) = AnchorBoth
  <2>1. Narrowed(c) # Unanchored
    BY <1>3 DEF Unanchored, AnchorBoth
  <2> QED
    BY <1>1, <1>3, <2>1, EnginesFindWhole, WholeIsTarget
<1>4. CASE AnchorsFit(b, e) /\ Narrowed(c) # AnchorBoth
  <2>1. /\ re.anchor_end \in BOOLEAN /\ re.longest \in BOOLEAN /\ re.anchor_start \in BOOLEAN
        /\ re.anchor_start => anchored
    BY RegexpFacts, NarrowedFacts
  <2>2. /\ kind = IF re.longest THEN "longest" ELSE "first"
        /\ (kind = "longest") = re.longest
        /\ (kind # "first" \/ re.anchor_end) = (re.longest \/ re.anchor_end)
        /\ kind # "full"
        /\ (kind = "full" \/ re.anchor_end) = re.anchor_end
        /\ (anchored \/ kind = "full" \/ re.anchor_start) = anchored
    BY <1>4, <2>1 DEF FirstKind
  <2>3. Leftmost(b, e, anchored, re.longest, re.anchor_end) = Target(c)
    BY <1>4, <2>1, LeftmostIsTarget
  <2>4. Leftmost(b, e, anchored, re.longest \/ re.anchor_end, re.anchor_end) = Target(c)
    BY <1>4, <2>1, LeftmostIsTarget
  <2>5. ASSUME anchored PROVE SearchOnePass(b, e, anchored, kind) = Target(c)
    <3>1. anchored = TRUE
      BY <2>5
    <3> QED
      BY <1>4, <2>2, <2>3, <3>1 DEF SearchOnePass
  <2>6. SearchBitState(b, e, anchored, kind) = Target(c)
    BY <1>4, <2>2, <2>4 DEF SearchBitState, FullMatchOnly
  <2>7. SearchNFA(b, e, anchored, kind) = Target(c)
    BY <1>4, <2>2, <2>4 DEF SearchNFA, FullMatchOnly
  <2> QED
    BY <2>5, <2>6, <2>7
<1> QED
  BY <1>2, <1>3, <1>4

\* The forward DFA says whether there is a match.  It says where it ends if it is
\* asked for the kind of match the regexp is for, and all of it if it is anchored.
LEMMA SearchDFAFindsEnd ==
    ASSUME re \in Regexps, NEW c \in Calls, Possible(c),
           NEW anchored \in BOOLEAN, anchored <=> Narrowed(c) # Unanchored,
           ~anchored => ~re.anchor_end,
           NEW kind, IF Narrowed(c) = AnchorBoth THEN kind = "full"
                     ELSE kind \in {"first", "longest"}
    PROVE  LET found == SearchDFA(From(c), c.endpos, anchored, kind)
           IN  /\ found = NoSpan <=> Target(c) = NoSpan
               /\ kind \in {"full", FirstKind} /\ Target(c) # NoSpan =>
                     found = <<From(c), Target(c)[2]>>
               /\ anchored /\ kind \in {"full", FirstKind} => found = Target(c)
<1> DEFINE b == From(c)
           e == c.endpos
           tail == kind = "full" \/ re.anchor_end
           only == anchored \/ re.anchor_start \/ kind = "full"
           long == kind = "longest" \/ tail
           best == Leftmost(b, e, only, long, FALSE)
           found == SearchDFA(b, e, anchored, kind)
<1>1. b \in 0 .. N /\ e \in b .. N
  BY StartsFacts, CallFacts, SMT
<1>2. /\ re.anchor_end \in BOOLEAN /\ re.longest \in BOOLEAN /\ re.anchor_start \in BOOLEAN
      /\ re.anchor_start => anchored
      /\ kind = "full" => anchored
  BY RegexpFacts, NarrowedFacts DEF Unanchored, AnchorBoth
<1>3. found = IF ~AnchorsFit(b, e) \/ best = NoSpan THEN NoSpan
              ELSE IF tail /\ best[2] # e THEN NoSpan ELSE <<b, best[2]>>
  BY DEF SearchDFA
<1>4. Starts(c) # {} /\ anchored => Target(c)[1] = b
  BY TargetFacts, StartsFacts
<1>5. Target(c) # NoSpan => Target(c) = <<Target(c)[1], Target(c)[2]>>
  BY TargetFacts, TargetOrNone
<1>6. CASE ~AnchorsFit(b, e)
  BY <1>3, <1>6, MisfitIsNoTarget
<1>7. CASE AnchorsFit(b, e) /\ tail
  <2>1. Narrowed(c) # Unanchored /\ anchored /\ (re.anchor_end \/ Narrowed(c) = AnchorBoth)
    BY <1>7, <1>2
  <2>2. best = Leftmost(b, e, TRUE, TRUE, FALSE)
    <3>1. only = TRUE /\ long = TRUE
      BY <1>7, <2>1
    <3> HIDE DEF only, long
    <3> QED
      BY <3>1
  <2>3. (IF best # NoSpan /\ best[2] # e THEN NoSpan ELSE best) = Whole(b, e)
    <3> DEFINE full == Leftmost(b, e, TRUE, TRUE, FALSE)
    <3>1. (IF full # NoSpan /\ full[2] # e THEN NoSpan ELSE full) = Whole(b, e)
      BY <1>1, LeftmostIsWhole
    <3> HIDE DEF full, best
    <3> QED
      BY <2>2, <3>1 DEF full
  <2>4. Target(c) = Whole(b, e)
    BY <1>7, <2>1, WholeIsTarget
  <2>5. found = Whole(b, e)
    <3> HIDE DEF b, e, best, found
    <3> QED
      BY <1>3, <1>7, <2>3 DEF Whole, NoSpan
  <2>6. Target(c) # NoSpan => Target(c) = <<b, Target(c)[2]>>
    BY <2>4 DEF Whole
  <2> HIDE DEF b, e, best, found
  <2> QED
    BY <2>4, <2>5, <2>6 DEF b, e, found
<1>8. CASE AnchorsFit(b, e) /\ ~tail
  <2>1. /\ only \in BOOLEAN /\ (only <=> anchored)
        /\ long \in BOOLEAN /\ (long <=> kind = "longest")
        /\ FALSE <=> re.anchor_end \/ Narrowed(c) = AnchorBoth
    BY <1>8, <1>2
  <2>3. /\ best = NoSpan <=> Target(c) = NoSpan
        /\ ((kind = "longest") <=> re.longest) => best = Target(c)
    <3>1. only <=> Narrowed(c) # Unanchored
      BY <2>1
    <3> DEFINE any == FALSE
               first == Leftmost(b, e, only, long, any)
    <3>2. any \in BOOLEAN /\ (any <=> re.anchor_end \/ Narrowed(c) = AnchorBoth)
      BY <2>1
    <3> HIDE DEF only, long, any
    <3>3. AnchorsFit(From(c), c.endpos) /\ only \in BOOLEAN /\ long \in BOOLEAN
      BY <1>8, <2>1
    <3>4. /\ first = NoSpan <=> Target(c) = NoSpan
          /\ (long <=> re.longest) \/ any => first = Target(c)
      BY <3>1, <3>2, <3>3, LeftmostIsTarget
    <3>5. best = first
      BY DEF any
    <3> HIDE DEF first, best
    <3> QED
      BY <2>1, <3>4, <3>5
  <2>4. kind \in {"full", FirstKind} => ((kind = "longest") <=> re.longest)
    BY <1>8 DEF FirstKind
  <2>5. found = IF best = NoSpan THEN NoSpan ELSE <<b, best[2]>>
    BY <1>3, <1>8
  <2>6. found = NoSpan <=> Target(c) = NoSpan
    <3> HIDE DEF b, best, found
    <3> QED
      BY <2>3, <2>5 DEF NoSpan
  <2>7. kind \in {"full", FirstKind} /\ Target(c) # NoSpan => found = <<b, Target(c)[2]>>
    BY <2>3, <2>4, <2>5
  <2>8. anchored /\ kind \in {"full", FirstKind} => found = Target(c)
    BY <1>4, <1>5, <2>6, <2>7, TargetOrNone
  <2> HIDE DEF b, e, best, found
  <2> QED
    BY <2>6, <2>7, <2>8 DEF b, e, found
<1> QED
  BY <1>6, <1>7, <1>8

\* The reverse DFA, which runs from the end of the match, finds where it begins.
LEMMA ReverseSearchFindsStart ==
    ASSUME re \in Regexps, NEW c \in Calls, Possible(c), Narrowed(c) = Unanchored,
           NEW end, IF re.anchor_end THEN end = c.endpos
                    ELSE Target(c) # NoSpan /\ end = Target(c)[2]
    PROVE  ReverseSearchDFA(From(c), end) = Target(c)
<1> DEFINE b == From(c)
           starts == {i \in b .. end : end \in Ends(i, end)}
           first == Min(Starts(c))
<1>1. b \in 0 .. c.endpos /\ c.endpos \in 0 .. N /\ N \in Nat
  BY StartsFacts, CallFacts
<1>2. ~re.anchor_start /\ Narrowed(c) # AnchorBoth /\ (re.anchor_end => c.endpos = N)
  BY NarrowedFacts DEF Possible, Unanchored, AnchorBoth
<1>3. end \in 0 .. c.endpos
  <2>1. CASE re.anchor_end
    BY <1>1, <2>1
  <2>2. CASE ~re.anchor_end
    <3>1. /\ end \in Wanted(c, first) /\ first \in 0 .. N
      BY <2>2, TargetFacts, TargetOrNone
    <3>2. end \in first .. c.endpos
      BY <3>1, StartsFacts
    <3> QED
      BY <1>1, <3>1, <3>2, SMT
  <2> QED
    BY <2>1, <2>2
<1>4. AnchorsFit(b, end)
  BY <1>2 DEF AnchorsFit
<1>5. ASSUME NEW i \in b .. end PROVE i \in starts <=> end \in ToSet(re.ends[i])
  <2>1. end <= end
    BY <1>3
  <2> QED
    BY <2>1 DEF Ends
<1>6. ASSUME NEW i \in starts PROVE i \in Starts(c) /\ end \in Wanted(c, i)
  <2>1. i \in b .. c.endpos /\ end <= c.endpos
    BY <1>1, <1>3, SMT
  <2>2. end \in Wanted(c, i)
    BY <1>2, <1>5, <2>1 DEF Wanted
  <2> QED
    BY <1>2, <2>1, <2>2 DEF Starts
<1>7. starts \in SUBSET Nat
  BY <1>1, <1>3, SMT
<1>8. ReverseSearchDFA(b, end) = IF starts = {} THEN NoSpan ELSE <<Min(starts), end>>
  BY <1>2, <1>4 DEF ReverseSearchDFA
<1>9. CASE Starts(c) = {}
  <2>1. starts = {} /\ Target(c) = NoSpan
    BY <1>6, <1>9, TargetOrNone
  <2> QED
    BY <1>8, <2>1
<1>10. CASE Starts(c) # {}
  <2>1. /\ first \in Starts(c) /\ first \in b .. c.endpos /\ first \in 0 .. N
        /\ \A i \in Starts(c) : first <= i
        /\ Target(c) = <<first, Target(c)[2]>> /\ Target(c)[2] \in Wanted(c, first)
    BY <1>10, TargetFacts
  <2>2. Target(c)[2] = end
    <3>1. re.anchor_end => Target(c)[2] = N
      BY <2>1 DEF Wanted
    <3> QED
      BY <1>2, <3>1
  <2>3. end \in first .. c.endpos
    BY <2>1, <2>2, StartsFacts
  <2>4. end \in ToSet(re.ends[first])
    BY <2>1, <2>2 DEF Wanted
  <2>5. first \in starts
    <3>1. first \in b .. end
      BY <1>1, <1>3, <2>1, <2>3, SMT
    <3> QED
      BY <1>5, <2>4, <3>1
  <2>6. \A i \in starts : first <= i
    BY <1>6, <2>1
  <2>7. Min(starts) = first
    <3> HIDE DEF starts, first
    <3> QED
      BY <1>7, <2>5, <2>6, MinIsUnique
  <2> QED
    BY <1>8, <2>1, <2>2, <2>5, <2>7
<1> QED
  BY <1>9, <1>10

-----------------------------------------------------------------------------
(***************************************************************************)
(* The steps of Match.                                                     *)
(***************************************************************************)

\* The regexp never changes, and neither does what a call asks of it.
LEMMA SameRegexp ==
    ASSUME re' = re, NEW c
    PROVE  /\ Narrowed(c)' = Narrowed(c)
           /\ Possible(c)' = Possible(c)
           /\ Target(c)' = Target(c)
           /\ Expected(c)' = Expected(c)
<1>1. Narrowed(c)' = Narrowed(c)
  BY DEF Narrowed
<1>2. Possible(c)' = Possible(c)
  BY DEF Possible
<1>3. \A i, S : Preferred(i, S)' = Preferred(i, S)
  BY DEF Preferred
<1>4. \A i : Wanted(c, i)' = Wanted(c, i)
  BY <1>1 DEF Wanted
<1>5. Starts(c)' = Starts(c)
  BY <1>1, <1>4 DEF Starts, From
<1>6. Target(c)' = Target(c)
  BY <1>3, <1>4, <1>5 DEF Target
<1>7. Asked(c)' = Asked(c)
  BY DEF Asked, IsAsked
<1>8. Answer(c)' = Answer(c)
  BY <1>3, <1>7 DEF Answer
<1>9. Expected(c)' = Expected(c)
  BY <1>7, <1>8 DEF Expected
<1> QED
  BY <1>1, <1>2, <1>6, <1>9

\* What the other threads know is left alone.
LEMMA OthersKeepInformed ==
    ASSUME re' = re, NEW u \in Threads, Informed(u),
           pc'[u] = pc[u], call'[u] = call[u], re_anchor'[u] = re_anchor[u],
           match'[u] = match[u], skipped_test'[u] = skipped_test[u],
           result'[u] = result[u]
    PROVE  Informed(u)'
<1>1. /\ Narrowed(call[u])' = Narrowed(call[u])
      /\ Possible(call[u])' = Possible(call[u])
      /\ Target(call[u])' = Target(call[u])
      /\ Expected(call[u])' = Expected(call[u])
  BY SameRegexp
<1>2. Narrow(u)' /\ Forwards(u)'
  BY <1>1 DEF Informed, Narrow, Forwards
<1>3. Backwards(u)'
  BY <1>1 DEF Informed, Backwards
<1>4. Known(u)' /\ Right(u)'
  BY <1>1 DEF Informed, Known, Right
<1> QED
  BY <1>2, <1>3, <1>4 DEF Informed

\* The engine that finds the submatches finds Target: from the span the DFAs have
\* found, or by a search of its own.
LEMMA SubmatchesFindTarget ==
    ASSUME TypeOK, NEW t \in Threads, pc[t] = "submatch", Informed(t)
    PROVE  SearchSubmatches(t) = Target(call[t])
<1> DEFINE c == call[t]
           b == IF skipped_test[t] THEN Begin(t) ELSE match[t][1]
           e == IF skipped_test[t] THEN End(t) ELSE match[t][2]
           anchored == ~skipped_test[t] \/ re_anchor[t] # Unanchored
           kind == SubmatchKind(t)
<1>1. /\ re \in Regexps /\ c \in Calls /\ skipped_test[t] \in BOOLEAN
      /\ Possible(c) /\ re_anchor[t] = Narrowed(c)
  BY DEF TypeOK, Informed, Narrow
<1>2. SearchSubmatches(t) \in
          {SearchBitState(b, e, anchored, kind), SearchNFA(b, e, anchored, kind)}
          \cup (IF anchored THEN {SearchOnePass(b, e, anchored, kind)} ELSE {})
  BY DEF SearchSubmatches
<1>3. CASE skipped_test[t]
  <2>1. b = From(c) /\ e = c.endpos
    BY <1>3 DEF Begin, End, From
  <2>2. anchored \in BOOLEAN /\ (anchored <=> Narrowed(c) # Unanchored)
    BY <1>1, <1>3
  <2>3. kind = IF Narrowed(c) = AnchorBoth THEN "full" ELSE FirstKind
    BY <1>1, <1>3 DEF SubmatchKind
  <2> HIDE DEF b, e, anchored, kind, c
  <2>4. /\ anchored => SearchOnePass(b, e, anchored, kind) = Target(c)
        /\ SearchBitState(b, e, anchored, kind) = Target(c)
        /\ SearchNFA(b, e, anchored, kind) = Target(c)
    BY <1>1, <2>1, <2>2, <2>3, EnginesFindTarget
  <2>5. SearchSubmatches(t) = Target(c)
    BY <1>2, <2>4
  <2> QED
    BY <2>5 DEF c
<1>4. CASE ~skipped_test[t]
  <2>1. Starts(c) # {} /\ match[t] = Target(c)
    BY <1>1, <1>4, TargetOrNone DEF Informed, Known
  <2>2. /\ b = Min(Starts(c)) /\ e \in Wanted(c, b) /\ Target(c) = <<b, e>>
        /\ b \in Starts(c) /\ b \in 0 .. N
    BY <1>1, <1>4, <2>1, TargetFacts
  <2>3. /\ anchored = TRUE /\ kind = "full"
    BY <1>4 DEF SubmatchKind
  <2> HIDE DEF b, e, anchored, kind, c
  <2>4. e \in ToSet(re.ends[b]) /\ AnchorsFit(b, e)
    BY <2>2 DEF Wanted, Starts, AnchorsFit
  <2>5. e \in b .. N
    BY <1>1, <2>2, <2>4, RegexpFacts
  <2>6. Whole(b, e) = Target(c)
    BY <2>2, <2>4 DEF Whole
  <2>7. /\ SearchOnePass(b, e, TRUE, "full") = Target(c)
        /\ SearchBitState(b, e, TRUE, "full") = Target(c)
        /\ SearchNFA(b, e, TRUE, "full") = Target(c)
    BY <1>1, <2>2, <2>4, <2>5, <2>6, EnginesFindWhole
  <2>8. SearchSubmatches(t) = Target(c)
    BY <1>2, <2>3, <2>7
  <2> QED
    BY <2>8 DEF c
<1> QED
  BY <1>1, <1>3, <1>4

\* With no submatch asked for, all that is returned is that there is a match.
LEMMA NoSubmatches ==
    ASSUME NEW t \in Threads, call[t] \in Calls, call[t].nsubmatch = 0, NEW x, NEW y
    PROVE  Matched(t, x) = Matched(t, y)
<1>1. 1 .. call[t].nsubmatch = {}
  BY SMT
<1>2. Submatches(t, x) = Submatches(t, y)
  BY <1>1 DEF Submatches
<1> QED
  BY <1>2 DEF Matched

\* A step is one thread's: the others stay where they are.
Others(t) ==
    \A u \in Threads \ {t} :
        /\ pc'[u] = pc[u] /\ call'[u] = call[u] /\ re_anchor'[u] = re_anchor[u]
        /\ match'[u] = match[u] /\ skipped_test'[u] = skipped_test[u]
        /\ result'[u] = result[u]

LEMMA InformedByStep ==
    ASSUME IInv, re' = re, NEW t \in Threads, Others(t), TypeOK', Informed(t)'
    PROVE  IInv'
<1>1. ASSUME NEW u \in Threads, u # t PROVE Informed(u)'
  BY <1>1, OthersKeepInformed DEF IInv, Others
<1> QED
  BY <1>1 DEF IInv

LEMMA InitInformed == Init => IInv
<1> SUFFICES ASSUME Init PROVE IInv
  OBVIOUS
<1>1. AnyCall \in Calls
  BY CallAssumption DEF AnyCall
<1>2. TypeOK
  BY <1>1 DEF Init, TypeOK, Labels
<1>3. ASSUME NEW t \in Threads PROVE Informed(t)
  BY DEF Init, Informed, Narrow, Forwards, Backwards, Known, Right
<1> QED
  BY <1>2, <1>3 DEF IInv

LEMMA CallStep ==
    ASSUME IInv, NEW t \in Threads, NEW c \in CallsOn(re), Call(t, c)
    PROVE  IInv'
<1>1. c \in Calls
  BY CallAssumption DEF IInv, TypeOK
<1>2. TypeOK' /\ re' = re /\ Others(t)
  BY <1>1 DEF IInv, TypeOK, Labels, Call, Goto, Others, object
<1>3. pc'[t] = "begin"
  BY DEF IInv, TypeOK, Call, Goto
<1>4. Informed(t)'
  BY <1>3 DEF Informed, Narrow, Forwards, Backwards, Known, Right
<1> QED
  BY <1>2, <1>4, InformedByStep

LEMMA DispatchStep ==
    ASSUME IInv, NEW t \in Threads, Dispatch(t)
    PROVE  IInv'
<1> DEFINE c == call[t]
<1>1. c \in Calls /\ re \in Regexps /\ call' = call /\ re' = re /\ match' = match
  BY DEF IInv, TypeOK, Dispatch, object
<1>2. Narrowed(c) \in {Unanchored, AnchorStart, AnchorBoth}
  BY <1>1, NarrowedFacts
<1>3. /\ re_anchor' = [re_anchor EXCEPT ![t] = Narrowed(c)]
      /\ \/ /\ ~Possible(c) /\ result' = [result EXCEPT ![t] = NoMatch]
            /\ pc' = [pc EXCEPT ![t] = "return"] /\ skipped_test' = skipped_test
         \/ /\ Possible(c) /\ Narrowed(c) = Unanchored
            /\ pc' = [pc EXCEPT ![t] = IF re.anchor_end THEN "rprog" ELSE "dfa"]
            /\ skipped_test' = skipped_test /\ result' = result
         \/ /\ Possible(c) /\ Narrowed(c) # Unanchored /\ result' = result
            /\ skipped_test' = [skipped_test EXCEPT ![t] = TRUE]
            /\ pc' = [pc EXCEPT ![t] = "submatch"]
         \/ /\ Possible(c) /\ Narrowed(c) # Unanchored /\ result' = result
            /\ skipped_test' = skipped_test
            /\ pc' = [pc EXCEPT ![t] = "dfa"]
  BY DEF Dispatch, Return, FallBack, Goto
<1>4. TypeOK' /\ Others(t)
  BY <1>1, <1>2, <1>3 DEF IInv, TypeOK, Labels, Others
<1>5. /\ call'[t] = c /\ re_anchor'[t] = Narrowed(c)
      /\ \/ ~Possible(c) /\ pc'[t] = "return" /\ result'[t] = NoMatch
         \/ Possible(c) /\ Narrowed(c) = Unanchored
            /\ pc'[t] = IF re.anchor_end THEN "rprog" ELSE "dfa"
         \/ Possible(c) /\ Narrowed(c) # Unanchored /\ skipped_test'[t] = TRUE
            /\ pc'[t] = "submatch"
         \/ Possible(c) /\ Narrowed(c) # Unanchored /\ pc'[t] = "dfa"
  BY <1>1, <1>3 DEF IInv, TypeOK
<1>6. /\ Narrowed(c)' = Narrowed(c) /\ Possible(c)' = Possible(c)
      /\ Expected(c)' = Expected(c)
  BY <1>1, SameRegexp
<1>7. ~Possible(c) => Expected(c) = NoMatch
  BY <1>1, ExpectedIsTarget
<1>8. Narrow(t)' /\ Forwards(t)' /\ Backwards(t)'
  BY <1>1, <1>5, <1>6 DEF Narrow, Forwards, Backwards
<1>9. Known(t)' /\ Right(t)'
  BY <1>1, <1>5, <1>6, <1>7 DEF Known, Right
<1> QED
  BY <1>1, <1>4, <1>8, <1>9, InformedByStep DEF Informed

LEMMA DFAAnswersStep ==
    ASSUME IInv, NEW t \in Threads, DFAAnswers(t)
    PROVE  IInv'
<1> DEFINE c == call[t]
           anchored == re_anchor[t] # Unanchored
           kind == CASE re_anchor[t] = AnchorBoth -> "full"
                     [] re_anchor[t] = Unanchored /\ c.nsubmatch = 0 -> "longest"
                     [] OTHER -> FirstKind
           found == SearchDFA(Begin(t), End(t), anchored, kind)
<1>1. /\ c \in Calls /\ re \in Regexps /\ call' = call /\ re' = re
      /\ re_anchor' = re_anchor /\ skipped_test' = skipped_test /\ pc[t] = "dfa"
  BY DEF IInv, TypeOK, DFAAnswers, object
<1>2. /\ Possible(c) /\ re_anchor[t] = Narrowed(c)
      /\ Narrowed(c) # Unanchored \/ ~re.anchor_end
  BY <1>1 DEF IInv, Informed, Narrow, Forwards
<1>3. /\ match' = [match EXCEPT ![t] = found]
      /\ \/ /\ found = NoSpan
            /\ result' = [result EXCEPT ![t] = NoMatch]
            /\ pc' = [pc EXCEPT ![t] = "return"]
         \/ /\ found # NoSpan /\ c.nsubmatch = 0
            /\ result' = [result EXCEPT ![t] = Matched(t, found)]
            /\ pc' = [pc EXCEPT ![t] = "return"]
         \/ /\ found # NoSpan /\ c.nsubmatch # 0 /\ result' = result
            /\ pc' = [pc EXCEPT ![t] = IF anchored THEN "submatch" ELSE "rprog"]
  <2>1. found = SearchDFA(Begin(t), End(t), ~(re_anchor[t] = Unanchored), kind)
    OBVIOUS
  <2> HIDE DEF found
  <2> QED
    BY <2>1 DEF DFAAnswers, Return, Goto
<1>4. /\ IF Narrowed(c) = AnchorBoth THEN kind = "full" ELSE kind \in {"first", "longest"}
      /\ anchored \/ c.nsubmatch # 0 => kind \in {"full", FirstKind}
  BY <1>2 DEF FirstKind, Unanchored, AnchorBoth
<1>5. /\ found = NoSpan <=> Target(c) = NoSpan
      /\ c.nsubmatch # 0 /\ Target(c) # NoSpan => found[2] = Target(c)[2]
      /\ anchored => found = Target(c)
  <2>1. /\ anchored \in BOOLEAN /\ (anchored <=> Narrowed(c) # Unanchored)
        /\ ~anchored => ~re.anchor_end
    BY <1>2
  <2>2. found = SearchDFA(From(c), c.endpos, anchored, kind)
    BY DEF Begin, End, From
  <2> HIDE DEF anchored, kind, found, c
  <2> DEFINE search == SearchDFA(From(c), c.endpos, anchored, kind)
  <2>3. /\ search = NoSpan <=> Target(c) = NoSpan
        /\ kind \in {"full", FirstKind} /\ Target(c) # NoSpan =>
              search = <<From(c), Target(c)[2]>>
        /\ anchored /\ kind \in {"full", FirstKind} => search = Target(c)
    BY <1>1, <1>2, <1>4, <2>1, SearchDFAFindsEnd
  <2> HIDE DEF search
  <2> QED
    BY <1>4, <2>2, <2>3 DEF search
<1> HIDE DEF found, kind
<1>6. TypeOK' /\ Others(t)
  BY <1>1, <1>3 DEF IInv, TypeOK, Labels, Others
<1>7. /\ call'[t] = c /\ re_anchor'[t] = Narrowed(c) /\ match'[t] = found
      /\ \/ found = NoSpan /\ pc'[t] = "return" /\ result'[t] = NoMatch
         \/ found # NoSpan /\ c.nsubmatch = 0 /\ pc'[t] = "return"
            /\ result'[t] = Matched(t, found)
         \/ found # NoSpan /\ c.nsubmatch # 0 /\ anchored /\ pc'[t] = "submatch"
         \/ found # NoSpan /\ c.nsubmatch # 0 /\ ~anchored /\ pc'[t] = "rprog"
  BY <1>1, <1>2, <1>3 DEF IInv, TypeOK
<1>8. /\ Narrowed(c)' = Narrowed(c) /\ Possible(c)' = Possible(c)
      /\ Expected(c)' = Expected(c) /\ Target(c)' = Target(c)
  BY <1>1, SameRegexp
<1>9. /\ Target(c) = NoSpan => Expected(c) = NoMatch
      /\ Target(c) # NoSpan => Expected(c) = Matched(t, Target(c))
  BY <1>1, <1>2, ExpectedIsTarget
<1>10. c.nsubmatch = 0 => Matched(t, found) = Matched(t, Target(c))
  BY <1>1, NoSubmatches
<1>11. Narrow(t)' /\ Forwards(t)'
  BY <1>2, <1>7, <1>8 DEF Narrow, Forwards
<1>12. Backwards(t)'
  BY <1>1, <1>2, <1>5, <1>7, <1>8 DEF Backwards
<1>13. Known(t)' /\ Right(t)'
  BY <1>5, <1>7, <1>8, <1>9, <1>10 DEF Known, Right
<1> QED
  BY <1>1, <1>6, <1>11, <1>12, <1>13, InformedByStep DEF Informed

\* A thread that falls back knows nothing but its own checks.
LEMMA FallBackStep ==
    ASSUME IInv, NEW t \in Threads, FallBack(t), re' = re, call' = call,
           re_anchor' = re_anchor, match' = match, result' = result,
           pc[t] \in {"dfa", "rprog", "rdfa"}
    PROVE  IInv'
<1>1. /\ skipped_test' = [skipped_test EXCEPT ![t] = TRUE]
      /\ pc' = [pc EXCEPT ![t] = "submatch"]
  BY DEF FallBack, Goto
<1>2. TypeOK' /\ Others(t)
  BY <1>1 DEF IInv, TypeOK, Labels, Others
<1>3. pc'[t] = "submatch" /\ skipped_test'[t] = TRUE
  BY <1>1 DEF IInv, TypeOK
<1>4. /\ Narrowed(call[t])' = Narrowed(call[t]) /\ Possible(call[t])' = Possible(call[t])
  BY SameRegexp
<1>5. Narrow(t)'
  BY <1>4 DEF IInv, Informed, Narrow
<1>6. Forwards(t)' /\ Backwards(t)' /\ Known(t)' /\ Right(t)'
  BY <1>3 DEF Forwards, Backwards, Known, Right
<1> QED
  BY <1>2, <1>5, <1>6, InformedByStep DEF Informed

\* A step that only concerns the reverse program, or the end of the process, leaves
\* Match where it is.
LEMMA OutsideStep ==
    ASSUME IInv, re' = re, call' = call, re_anchor' = re_anchor, match' = match,
           result' = result, skipped_test' = skipped_test, pc' = pc
    PROVE  IInv'
<1>1. TypeOK'
  BY DEF IInv, TypeOK
<1>2. ASSUME NEW u \in Threads PROVE Informed(u)'
  BY OthersKeepInformed DEF IInv
<1> QED
  BY <1>1, <1>2 DEF IInv

LEMMA FailureStep ==
    ASSUME IInv, NEW t \in Threads, DFAFails(t) \/ ReverseDFAFails(t)
    PROVE  IInv'
<1>1. /\ re' = re /\ call' = call /\ re_anchor' = re_anchor /\ match' = match
      /\ result' = result /\ pc[t] \in {"dfa", "rdfa"}
      /\ FallBack(t) \/ (pc' = pc /\ skipped_test' = skipped_test)
  BY DEF DFAFails, ReverseDFAFails, object
<1> QED
  BY <1>1, FallBackStep, OutsideStep

LEMMA OnceStep ==
    ASSUME IInv, NEW t \in Threads, EnterOnce(t) \/ LeaveOnce(t)
    PROVE  IInv'
<1>1. /\ re' = re /\ call' = call /\ re_anchor' = re_anchor /\ match' = match
      /\ result' = result /\ pc' = pc /\ skipped_test' = skipped_test
  BY DEF EnterOnce, LeaveOnce, object
<1> QED
  BY <1>1, OutsideStep

LEMMA TakeReverseProgStep ==
    ASSUME IInv, NEW t \in Threads, TakeReverseProg(t)
    PROVE  IInv'
<1>1. /\ re' = re /\ call' = call /\ re_anchor' = re_anchor /\ match' = match
      /\ result' = result /\ pc[t] = "rprog"
      /\ FallBack(t) \/ (pc' = [pc EXCEPT ![t] = "rdfa"] /\ skipped_test' = skipped_test)
  BY DEF TakeReverseProg, Goto, object
<1>2. CASE FallBack(t)
  BY <1>1, <1>2, FallBackStep
<1>3. CASE pc' = [pc EXCEPT ![t] = "rdfa"] /\ skipped_test' = skipped_test
  <2>1. TypeOK' /\ Others(t)
    BY <1>1, <1>3 DEF IInv, TypeOK, Labels, Others
  <2>2. pc'[t] = "rdfa"
    BY <1>3 DEF IInv, TypeOK
  <2>3. /\ Narrowed(call[t])' = Narrowed(call[t]) /\ Possible(call[t])' = Possible(call[t])
        /\ Target(call[t])' = Target(call[t])
    BY <1>1, SameRegexp
  <2>4. Narrow(t)' /\ Backwards(t)'
    BY <1>1, <2>3 DEF IInv, Informed, Narrow, Backwards
  <2>5. Forwards(t)' /\ Known(t)' /\ Right(t)'
    BY <2>2 DEF Forwards, Known, Right
  <2> QED
    BY <1>1, <2>1, <2>4, <2>5, InformedByStep DEF Informed
<1> QED
  BY <1>1, <1>2, <1>3

LEMMA ReverseDFAAnswersStep ==
    ASSUME IInv, NEW t \in Threads, ReverseDFAAnswers(t)
    PROVE  IInv'
<1> DEFINE c == call[t]
           found == ReverseSearchDFA(Begin(t), ReverseEnd(t))
<1>1. /\ c \in Calls /\ re \in Regexps /\ call' = call /\ re' = re
      /\ re_anchor' = re_anchor /\ skipped_test' = skipped_test /\ pc[t] = "rdfa"
  BY DEF IInv, TypeOK, ReverseDFAAnswers, object
<1>2. /\ Possible(c) /\ re_anchor[t] = Narrowed(c) /\ Narrowed(c) = Unanchored
      /\ ~re.anchor_end => Target(c) # NoSpan /\ match[t][2] = Target(c)[2]
  BY <1>1 DEF IInv, Informed, Narrow, Backwards
<1>3. found = Target(c)
  <2>1. IF re.anchor_end THEN ReverseEnd(t) = c.endpos
        ELSE Target(c) # NoSpan /\ ReverseEnd(t) = Target(c)[2]
    BY <1>2 DEF ReverseEnd, End
  <2>2. Begin(t) = From(c)
    BY DEF Begin, From
  <2> HIDE DEF c
  <2> QED
    BY <1>1, <1>2, <2>1, <2>2, ReverseSearchFindsStart
<1>4. /\ match' = [match EXCEPT ![t] = found]
      /\ \/ /\ found = NoSpan
            /\ result' = [result EXCEPT ![t] = NoMatch]
            /\ pc' = [pc EXCEPT ![t] = "return"]
         \/ /\ found # NoSpan
            /\ result' = [result EXCEPT ![t] = Matched(t, found)]
            /\ pc' = [pc EXCEPT ![t] = "return"]
         \/ /\ found # NoSpan /\ result' = result
            /\ pc' = [pc EXCEPT ![t] = "submatch"]
  BY DEF ReverseDFAAnswers, Return, Goto
<1> HIDE DEF found
<1>5. TypeOK' /\ Others(t)
  BY <1>1, <1>4 DEF IInv, TypeOK, Labels, Others
<1>6. /\ call'[t] = c /\ re_anchor'[t] = Narrowed(c) /\ match'[t] = found
      /\ \/ found = NoSpan /\ pc'[t] = "return" /\ result'[t] = NoMatch
         \/ found # NoSpan /\ pc'[t] = "return" /\ result'[t] = Matched(t, found)
         \/ found # NoSpan /\ pc'[t] = "submatch"
  BY <1>1, <1>2, <1>4 DEF IInv, TypeOK
<1>7. /\ Narrowed(c)' = Narrowed(c) /\ Possible(c)' = Possible(c)
      /\ Expected(c)' = Expected(c) /\ Target(c)' = Target(c)
  BY <1>1, SameRegexp
<1>8. /\ Target(c) = NoSpan => Expected(c) = NoMatch
      /\ Target(c) # NoSpan => Expected(c) = Matched(t, Target(c))
  BY <1>1, <1>2, ExpectedIsTarget
<1>9. Narrow(t)' /\ Forwards(t)' /\ Backwards(t)'
  BY <1>2, <1>6, <1>7 DEF Narrow, Forwards, Backwards
<1>10. Known(t)' /\ Right(t)'
  BY <1>3, <1>6, <1>7, <1>8 DEF Known, Right
<1> QED
  BY <1>1, <1>5, <1>9, <1>10, InformedByStep DEF Informed

LEMMA FindSubmatchesStep ==
    ASSUME IInv, NEW t \in Threads, FindSubmatches(t)
    PROVE  IInv'
<1> DEFINE c == call[t]
           found == IF ~skipped_test[t] /\ Captures(t) <= 1 THEN match[t]
                    ELSE SearchSubmatches(t)
<1>1. /\ c \in Calls /\ re \in Regexps /\ call' = call /\ re' = re
      /\ re_anchor' = re_anchor /\ skipped_test' = skipped_test /\ match' = match
      /\ pc[t] = "submatch"
      /\ result' = [result EXCEPT ![t] = IF found = NoSpan THEN NoMatch ELSE Matched(t, found)]
      /\ pc' = [pc EXCEPT ![t] = "return"]
  BY DEF IInv, TypeOK, FindSubmatches, Return, Goto, object
<1>2. Possible(c) /\ (~skipped_test[t] => match[t] = Target(c))
  BY <1>1 DEF IInv, Informed, Narrow, Known
<1>3. SearchSubmatches(t) = Target(c)
  BY <1>1, SubmatchesFindTarget DEF IInv
<1>4. found = Target(c)
  BY <1>2, <1>3
<1> HIDE DEF found
<1>5. TypeOK' /\ Others(t)
  BY <1>1 DEF IInv, TypeOK, Labels, Others
<1>6. /\ call'[t] = c /\ pc'[t] = "return"
      /\ result'[t] = IF found = NoSpan THEN NoMatch ELSE Matched(t, found)
  BY <1>1 DEF IInv, TypeOK
<1>7. Expected(c)' = Expected(c)
  BY <1>1, SameRegexp
<1>8. /\ Target(c) = NoSpan => Expected(c) = NoMatch
      /\ Target(c) # NoSpan => Expected(c) = Matched(t, Target(c))
  BY <1>1, <1>2, ExpectedIsTarget
<1>9. Narrow(t)' /\ Forwards(t)' /\ Backwards(t)' /\ Known(t)'
  BY <1>6 DEF Narrow, Forwards, Backwards, Known
<1>10. Right(t)'
  BY <1>4, <1>6, <1>7, <1>8 DEF Right
<1> QED
  BY <1>1, <1>5, <1>9, <1>10, InformedByStep DEF Informed

LEMMA LeaveStep ==
    ASSUME IInv, NEW t \in Threads, Leave(t)
    PROVE  IInv'
<1>1. AnyCall \in Calls
  BY CallAssumption DEF AnyCall
<1>2. TypeOK' /\ re' = re /\ Others(t)
  BY <1>1 DEF IInv, TypeOK, Labels, Leave, Goto, Others, object
<1>3. pc'[t] = "idle"
  BY DEF IInv, TypeOK, Leave, Goto
<1>4. Informed(t)'
  BY <1>3 DEF Informed, Narrow, Forwards, Backwards, Known, Right
<1> QED
  BY <1>2, <1>4, InformedByStep

-----------------------------------------------------------------------------
\* The invariant: TypeOK, and what each thread knows at its place in Match.
THEOREM SpecInvariant == Spec => []IInv
<1>1. ASSUME IInv, [Next]_vars PROVE IInv'
  <2>1. CASE UNCHANGED vars
    BY <1>1, <2>1, OutsideStep DEF vars, object
  <2>2. CASE Next
    <3>1. PICK t \in Threads : Step(t) \/ \E c \in CallsOn(re) : Call(t, c)
      BY <2>2 DEF Next
    <3> QED
      BY <1>1, <3>1, CallStep, DispatchStep, DFAAnswersStep, FailureStep, OnceStep,
         TakeReverseProgStep, ReverseDFAAnswersStep, FindSubmatchesStep, LeaveStep
         DEF Step
  <2> QED
    BY <1>1, <2>1, <2>2
<1> QED
  BY <1>1, InitInformed, PTL DEF Spec

\* Whatever the text length, the regexp, the calls, the number of threads and the
\* limits of the engines, a call that returns has what the semantics says, whichever
\* engines it went through.
THEOREM SpecMatchExpected == Spec => []MatchExpected
<1>1. IInv => MatchExpected
  BY DEF IInv, Informed, Right, MatchExpected
<1> QED
  BY <1>1, SpecInvariant, PTL

=============================================================================
