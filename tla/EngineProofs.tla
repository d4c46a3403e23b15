---------------------------- MODULE EngineProofs ----------------------------
(***************************************************************************)
(* What the engines and the table library do, for any program, any text    *)
(* and any input.                                                          *)
(*                                                                         *)
(* The library.  What it predicts, renumbers and hashes agrees with the    *)
(* sequential run, for any table, any grid of chunks and any number of     *)
(* profiles: a sorted list of counts is a permutation of the list, the     *)
(* translation that is read off it is a bijection of the states, and a     *)
(* path through the table that was renumbered by it is the path through    *)
(* the table, renumbered.  A path through several chunks is the paths      *)
(* through each, one after the other.                                      *)
(*                                                                         *)
(* The engines.  One engine searches a program at a time, and its object   *)
(* is not touched by the others.  The NFA counts the references to every   *)
(* thread exactly: between two turns of AddToThreadq what is counted is    *)
(* what the queue holds, what t0 and the stack owe and what the caller     *)
(* will give back.  The stacks of AddToThreadq and of the walk of OnePass  *)
(* are long enough, because what is pushed is paid for by an instruction   *)
(* that has entered the queue and can not enter it again.                  *)
(*                                                                         *)
(* The DFA.  A turn of AddToQueue is paid for in the same way, and the     *)
(* marks of a queue are those it was made of but for the one that each lap *)
(* of the .*? loop sets.  A state keeps less than one mark for two of its  *)
(* entries, and there are instructions that no state keeps: this leaves    *)
(* the marks to spare that a step adds.                                    *)
(***************************************************************************)
EXTENDS Engines, OrderLemmas, FiniteSetTheorems, FunctionTheorems, SequenceTheorems, TLAPS

-----------------------------------------------------------------------------
(* Paths through a table *)

\* f is the beginning of a path from q, as far as the m-th byte of s.
BeginsPath(table, f, q, s, m) ==
    /\ f \in [0 .. m -> States(table)]
    /\ f[0] = q
    /\ \A i \in 1 .. m : f[i] = Row(table, f[i - 1])[s[i]]

\* A function on 1 .. n is a sequence.
LEMMA MakesSeq ==
    ASSUME NEW S, NEW n \in Nat, NEW f \in [1 .. n -> S]
    PROVE  f \in Seq(S) /\ Len(f) = n
OBVIOUS

LEMMA TableFacts ==
    ASSUME NEW table, IsTable(table)
    PROVE  /\ Len(table.next) \in Nat \ {0} /\ DOMAIN table.next = 1 .. Len(table.next)
           /\ States(table) = 0 .. Len(table.next) - 1
           /\ table.start \in States(table)
           /\ \A q \in States(table) : /\ q + 1 \in DOMAIN table.next
                                       /\ Row(table, q) \in [Columns(table) -> States(table)]
           /\ \A k \in DOMAIN table.next :
                 k - 1 \in States(table) /\ table.next[k] \in [Columns(table) -> States(table)]
           /\ IsFiniteSet(Columns(table)) /\ IsFiniteSet(States(table))
           /\ Cardinality(States(table)) = Len(table.next)
           /\ table = [next |-> table.next, start |-> table.start]
           /\ States(table) \in SUBSET Nat
<1> DEFINE C == Columns(table)
           Q == States(table)
           T == [next : Seq([C -> Q]), start : Q]
<1>1. Len(table.next) > 0 /\ IsFiniteSet(C) /\ table \in T
  BY DEF IsTable
<1> HIDE DEF C, Q
<1>2. /\ table.next \in Seq([C -> Q]) /\ table.start \in Q
      /\ table = [next |-> table.next, start |-> table.start]
  BY <1>1
<1>3. Len(table.next) \in Nat \ {0} /\ DOMAIN table.next = 1 .. Len(table.next)
  BY <1>1, <1>2
<1>4. Q = 0 .. Len(table.next) - 1
  BY DEF States, Q
<1>5. ASSUME NEW k \in DOMAIN table.next PROVE k - 1 \in Q /\ table.next[k] \in [C -> Q]
  BY <1>2, <1>3, <1>4
<1>6. ASSUME NEW q \in Q PROVE q + 1 \in DOMAIN table.next /\ Row(table, q) \in [C -> Q]
  BY <1>3, <1>4, <1>5 DEF Row
<1>7. IsFiniteSet(Q) /\ Cardinality(Q) = Len(table.next)
  BY <1>3, <1>4, CountFacts
<1>8. Q \in SUBSET Nat
  BY <1>3, <1>4
<1> QED
  BY <1>1, <1>2, <1>3, <1>4, <1>5, <1>6, <1>7, <1>8 DEF C, Q

\* An arrow leads to a state.
LEMMA ArrowFacts ==
    ASSUME NEW table, IsTable(table), NEW q \in States(table), NEW c \in Columns(table)
    PROVE  Row(table, q)[c] \in States(table)
<1>1. Row(table, q) \in [Columns(table) -> States(table)]
  BY TableFacts
<1> QED
  BY <1>1

\* A path can be begun as far as one likes.
LEMMA PathBegins ==
    ASSUME NEW table, IsTable(table), NEW q \in States(table), NEW s \in Seq(Columns(table))
    PROVE  \E f : BeginsPath(table, f, q, s, Len(s))
<1> DEFINE stuck == {m \in 0 .. Len(s) : ~\E f : BeginsPath(table, f, q, s, m)}
<1>1. Len(s) \in Nat
  OBVIOUS
<1>2. ASSUME stuck # {} PROVE FALSE
  <2>1. PICK m \in stuck : \A k \in stuck : m <= k
    <3>1. stuck \in SUBSET Nat
      BY <1>1
    <3> HIDE DEF stuck
    <3> QED
      BY <1>2, <3>1, LeastNat
  <2>2. m \in 0 .. Len(s) /\ ~\E f : BeginsPath(table, f, q, s, m)
    OBVIOUS
  <2>3. CASE m = 0
    <3> DEFINE f == [i \in 0 .. 0 |-> q]
    <3>1. (\A i \in 1 .. 0 : FALSE) /\ 0 \in 0 .. 0
      BY SMT
    <3>2. BeginsPath(table, f, q, s, 0)
      BY <3>1 DEF BeginsPath
    <3> QED
      BY <2>2, <2>3, <3>2
  <2>4. CASE m # 0
    <3>1. m - 1 \in 0 .. Len(s) /\ m - 1 \in Nat /\ ~(m <= m - 1) /\ m \in 1 .. Len(s)
      BY <1>1, <2>2, <2>4, SMT
    <3>2. PICK g : BeginsPath(table, g, q, s, m - 1)
      BY <2>1, <3>1
    <3> DEFINE next == Row(table, g[m - 1])[s[m]]
               f == [i \in 0 .. m |-> IF i = m THEN next ELSE g[i]]
    <3>3. g \in [0 .. m - 1 -> States(table)] /\ g[m - 1] \in States(table)
      BY <3>1, <3>2 DEF BeginsPath
    <3>4. next \in States(table)
      <4>1. s[m] \in Columns(table)
        BY <3>1
      <4> QED
        BY <3>3, <4>1, ArrowFacts
    <3>5. f \in [0 .. m -> States(table)]
      <4>1. \A i \in 0 .. m : i = m \/ i \in 0 .. m - 1
        BY <2>2, SMT
      <4> HIDE DEF next
      <4> QED
        BY <3>3, <3>4, <4>1
    <3>6. f[0] = q
      <4>1. 0 \in 0 .. m /\ 0 # m
        BY <2>2, <2>4, SMT
      <4> QED
        BY <3>2, <4>1 DEF BeginsPath
    <3>7. ASSUME NEW i \in 1 .. m PROVE f[i] = Row(table, f[i - 1])[s[i]]
      <4>1. i \in 0 .. m /\ i - 1 \in 0 .. m /\ i - 1 # m
        BY <2>2, SMT
      <4>2. f[i - 1] = g[i - 1]
        BY <4>1
      <4>3. CASE i = m
        BY <4>1, <4>2, <4>3
      <4>4. CASE i # m
        <5>1. i \in 1 .. m - 1
          BY <2>2, <4>4, SMT
        <5>2. g[i] = Row(table, g[i - 1])[s[i]]
          BY <3>2, <5>1 DEF BeginsPath
        <5> QED
          BY <4>1, <4>2, <4>4, <5>2
      <4> QED
        BY <4>3, <4>4
    <3> HIDE DEF f
    <3>8. BeginsPath(table, f, q, s, m)
      BY <3>5, <3>6, <3>7 DEF BeginsPath
    <3> QED
      BY <2>2, <3>8
  <2> QED
    BY <2>3, <2>4
<1>3. Len(s) \in 0 .. Len(s)
  BY <1>1
<1> QED
  BY <1>2, <1>3

\* Two paths from one state along one sequence agree.
LEMMA PathUnique ==
    ASSUME NEW table, NEW q, NEW s, NEW m \in Nat,
           NEW f, BeginsPath(table, f, q, s, m), NEW g, BeginsPath(table, g, q, s, m)
    PROVE  f[m] = g[m]
<1> DEFINE differ == {i \in 0 .. m : f[i] # g[i]}
<1>1. ASSUME differ # {} PROVE FALSE
  <2>1. differ \in SUBSET Nat
    BY SMT
  <2>2. PICK i \in differ : \A k \in differ : i <= k
    <3> HIDE DEF differ
    <3> QED
      BY <1>1, <2>1, LeastNat
  <2>3. i \in 0 .. m /\ i # 0
    BY DEF BeginsPath
  <2>4. i \in 1 .. m /\ i - 1 \in 0 .. m /\ ~(i <= i - 1)
    BY <2>3, SMT
  <2>5. f[i - 1] = g[i - 1]
    BY <2>2, <2>4
  <2> QED
    BY <2>4, <2>5 DEF BeginsPath
<1>2. m \in 0 .. m
  BY SMT
<1> QED
  BY <1>1, <1>2

\* What a path is.
LEMMA PathFacts ==
    ASSUME NEW table, IsTable(table), NEW q \in States(table), NEW s \in Seq(Columns(table))
    PROVE  /\ BeginsPath(table, Path(table, q, s), q, s, Len(s))
           /\ Reached(table, q, s) \in States(table)
<1> DEFINE body(f, i) == IF i = 0 THEN q ELSE Row(table, f[i - 1])[s[i]]
           IsPath(f) == f = [i \in 0 .. Len(s) |-> body(f, i)]
<1>1. PICK f : BeginsPath(table, f, q, s, Len(s))
  BY PathBegins
<1>2. Len(s) \in Nat
  OBVIOUS
<1>3. ASSUME NEW i \in 0 .. Len(s) PROVE f[i] = body(f, i)
  <2>1. CASE i = 0
    BY <1>1, <2>1 DEF BeginsPath
  <2>2. CASE i # 0
    <3>1. i \in 1 .. Len(s)
      BY <1>2, <2>2, SMT
    <3> QED
      BY <1>1, <2>2, <3>1 DEF BeginsPath
  <2> QED
    BY <2>1, <2>2
<1>4. IsPath(f)
  <2> HIDE DEF body
  <2>1. f = [i \in 0 .. Len(s) |-> f[i]]
    BY <1>1 DEF BeginsPath
  <2> QED
    BY <1>3, <2>1
<1>5. IsPath(Path(table, q, s))
  BY <1>4, Zenon DEF Path
<1> DEFINE path == Path(table, q, s)
<1>6. ASSUME NEW i \in 0 .. Len(s) PROVE path[i] = body(path, i)
  BY <1>5
<1>7. DOMAIN path = 0 .. Len(s) /\ path = [i \in 0 .. Len(s) |-> path[i]]
  <2> HIDE DEF body, path
  <2> QED
    BY <1>5 DEF path
<1> HIDE DEF path
<1>8. path[0] = q
  <2>1. 0 \in 0 .. Len(s)
    BY <1>2, SMT
  <2> QED
    BY <1>6, <2>1
<1>9. ASSUME NEW i \in 1 .. Len(s) PROVE path[i] = Row(table, path[i - 1])[s[i]]
  <2>1. i \in 0 .. Len(s) /\ i # 0
    BY <1>2, SMT
  <2> QED
    BY <1>6, <2>1
<1>10. ASSUME NEW i \in 0 .. Len(s) PROVE path[i] \in States(table)
  <2> DEFINE strays == {k \in 0 .. Len(s) : path[k] \notin States(table)}
  <2>1. ASSUME strays # {} PROVE FALSE
    <3>1. strays \in SUBSET Nat
      BY <1>2
    <3>2. PICK m \in strays : \A k \in strays : m <= k
      <4> HIDE DEF strays
      <4> QED
        BY <2>1, <3>1, LeastNat
    <3>3. m # 0
      BY <1>8
    <3>4. m \in 1 .. Len(s) /\ m - 1 \in 0 .. Len(s) /\ ~(m <= m - 1)
      BY <1>2, <3>3, SMT
    <3>5. path[m - 1] \in States(table) /\ s[m] \in Columns(table)
      BY <3>2, <3>4
    <3>6. path[m] \in States(table)
      BY <1>9, <3>4, <3>5, ArrowFacts
    <3> QED
      BY <3>6
  <2> QED
    BY <2>1
<1>11. BeginsPath(table, path, q, s, Len(s))
  BY <1>7, <1>8, <1>9, <1>10 DEF BeginsPath
<1>12. path[Len(s)] \in States(table)
  <2>1. Len(s) \in 0 .. Len(s)
    BY <1>2, SMT
  <2> QED
    BY <1>10, <2>1
<1> QED
  BY <1>11, <1>12 DEF path, Reached

\* Whatever steps as a path does ends where it ends.
LEMMA ReachedBy ==
    ASSUME NEW table, IsTable(table), NEW q \in States(table), NEW s \in Seq(Columns(table)),
           NEW f, BeginsPath(table, f, q, s, Len(s))
    PROVE  Reached(table, q, s) = f[Len(s)]
<1>1. Len(s) \in Nat
  OBVIOUS
<1> QED
  BY <1>1, PathFacts, PathUnique DEF Reached

\* A slice of a sequence.
LEMMA SliceFacts ==
    ASSUME NEW C, NEW in \in Seq(C), NEW a \in Nat, NEW b \in Nat, a <= b, b <= Len(in)
    PROVE  /\ SubSeq(in, a + 1, b) \in Seq(C)
           /\ Len(SubSeq(in, a + 1, b)) = b - a
           /\ \A i \in 1 .. b - a : SubSeq(in, a + 1, b)[i] = in[a + i]
<1>1. Len(in) \in Nat /\ a + 1 \in Int /\ b \in Int /\ \A i \in 1 .. Len(in) : in[i] \in C
  OBVIOUS
<1>2. ASSUME NEW i \in a + 1 .. b PROVE in[i] \in C
  <2>1. i \in 1 .. Len(in)
    BY <1>1, SMT
  <2> QED
    BY <1>1, <2>1
<1> DEFINE slice == SubSeq(in, a + 1, b)
<1>3. /\ slice \in Seq(C)
      /\ Len(slice) = IF a + 1 <= b THEN b - (a + 1) + 1 ELSE 0
      /\ \A i \in 1 .. b - (a + 1) + 1 : slice[i] = in[a + 1 + i - 1]
  BY <1>1, <1>2, SubSeqProperties
<1> HIDE DEF slice
<1>4. Len(slice) = b - a
  BY <1>3, SMT
<1>5. ASSUME NEW i \in 1 .. b - a PROVE slice[i] = in[a + i]
  <2>1. i \in 1 .. b - (a + 1) + 1 /\ a + 1 + i - 1 = a + i
    BY SMT
  <2>2. slice[i] = in[a + 1 + i - 1]
    BY <1>3, <2>1
  <2> QED
    BY <2>1, <2>2
<1> QED
  BY <1>3, <1>4, <1>5 DEF slice

\* A path along two slices is a path along the first and then one along the second.
LEMMA SplitReached ==
    ASSUME NEW table, IsTable(table), NEW q \in States(table),
           NEW in \in Seq(Columns(table)),
           NEW a \in Nat, NEW b \in Nat, NEW c \in Nat, a <= b, b <= c, c <= Len(in)
    PROVE  Reached(table, q, SubSeq(in, a + 1, c))
               = Reached(table, Reached(table, q, SubSeq(in, a + 1, b)), SubSeq(in, b + 1, c))
<1> DEFINE whole == SubSeq(in, a + 1, c)
           head == SubSeq(in, a + 1, b)
           tail == SubSeq(in, b + 1, c)
           C == Columns(table)
<1>1. Len(in) \in Nat /\ a <= c /\ b <= Len(in)
  <2>1. Len(in) \in Nat
    OBVIOUS
  <2> QED
    BY <2>1, SMT
<1>2. /\ whole \in Seq(C) /\ Len(whole) = c - a /\ \A i \in 1 .. c - a : whole[i] = in[a + i]
      /\ head \in Seq(C) /\ Len(head) = b - a /\ \A i \in 1 .. b - a : head[i] = in[a + i]
      /\ tail \in Seq(C) /\ Len(tail) = c - b /\ \A i \in 1 .. c - b : tail[i] = in[b + i]
  <2> HIDE DEF C
  <2>1. in \in Seq(C)
    BY DEF C
  <2> QED
    BY <1>1, <2>1, SliceFacts
<1> HIDE DEF whole, head, tail
<1> DEFINE path == Path(table, q, whole)
           first == [i \in 0 .. b - a |-> path[i]]
           second == [i \in 0 .. c - b |-> path[b - a + i]]
<1>3. /\ path \in [0 .. c - a -> States(table)] /\ path[0] = q
      /\ \A i \in 1 .. c - a : path[i] = Row(table, path[i - 1])[whole[i]]
  <2>1. whole \in Seq(Columns(table))
    BY <1>2
  <2>2. BeginsPath(table, path, q, whole, Len(whole))
    BY <2>1, PathFacts
  <2> HIDE DEF path
  <2> QED
    BY <1>2, <2>2 DEF BeginsPath
<1>4. Reached(table, q, whole) = path[c - a]
  BY <1>2 DEF Reached
<1> HIDE DEF path
<1>5. BeginsPath(table, first, q, head, b - a)
  <2>1. \A i \in 0 .. b - a : i \in 0 .. c - a
    BY SMT
  <2>2. first \in [0 .. b - a -> States(table)]
    BY <1>3, <2>1
  <2>3. first[0] = q
    <3>1. 0 \in 0 .. b - a
      BY SMT
    <3> QED
      BY <1>3, <3>1
  <2>4. ASSUME NEW i \in 1 .. b - a PROVE first[i] = Row(table, first[i - 1])[head[i]]
    <3>1. i \in 0 .. b - a /\ i - 1 \in 0 .. b - a /\ i \in 1 .. c - a
      BY SMT
    <3> QED
      BY <1>2, <1>3, <3>1
  <2> HIDE DEF first
  <2> QED
    BY <2>2, <2>3, <2>4, Zenon DEF BeginsPath
<1>6. Reached(table, q, head) = path[b - a] /\ path[b - a] \in States(table)
  <2>1. b - a \in 0 .. b - a /\ b - a \in 0 .. c - a
    BY SMT
  <2>2. Reached(table, q, head) = first[b - a]
    <3> HIDE DEF first
    <3> QED
      BY <1>2, <1>5, ReachedBy
  <2> QED
    BY <1>3, <2>1, <2>2
<1>7. BeginsPath(table, second, path[b - a], tail, c - b)
  <2>1. \A i \in 0 .. c - b : b - a + i \in 0 .. c - a
    BY SMT
  <2>2. second \in [0 .. c - b -> States(table)]
    BY <1>3, <2>1
  <2>3. second[0] = path[b - a]
    <3>1. 0 \in 0 .. c - b /\ b - a + 0 = b - a
      BY SMT
    <3> QED
      BY <3>1
  <2>4. ASSUME NEW i \in 1 .. c - b PROVE second[i] = Row(table, second[i - 1])[tail[i]]
    <3>1. /\ i \in 0 .. c - b /\ i - 1 \in 0 .. c - b /\ b - a + i \in 1 .. c - a
          /\ b - a + i - 1 = b - a + (i - 1) /\ a + (b - a + i) = b + i
      BY SMT
    <3>2. path[b - a + i] = Row(table, path[b - a + i - 1])[whole[b - a + i]]
      BY <1>3, <3>1
    <3>3. whole[b - a + i] = tail[i]
      BY <1>2, <3>1
    <3>4. second[i] = path[b - a + i] /\ second[i - 1] = path[b - a + (i - 1)]
      BY <3>1
    <3> QED
      BY <3>1, <3>2, <3>3, <3>4
  <2> HIDE DEF second
  <2> QED
    BY <2>2, <2>3, <2>4, Zenon DEF BeginsPath
<1>8. Reached(table, path[b - a], tail) = path[c - a]
  <2>1. c - b \in 0 .. c - b /\ b - a + (c - b) = c - a
    BY SMT
  <2>2. Reached(table, path[b - a], tail) = second[c - b]
    <3> HIDE DEF second
    <3> QED
      BY <1>2, <1>6, <1>7, ReachedBy
  <2> QED
    BY <2>1, <2>2
<1> QED
  BY <1>4, <1>6, <1>8 DEF whole, head, tail

-----------------------------------------------------------------------------
(* Chunks of an input *)

LEMMA DivisionFacts ==
    ASSUME NEW a \in Nat, NEW d \in Nat \ {0}
    PROVE  /\ a \div d \in Nat /\ a % d \in 0 .. d - 1
           /\ a = (a \div d) * d + (a % d)
BY SMT

LEMMA DivisionUnique ==
    ASSUME NEW a \in Nat, NEW d \in Nat \ {0}, NEW q \in Nat, NEW r \in 0 .. d - 1,
           a = q * d + r
    PROVE  a \div d = q /\ a % d = r
BY SMT

LEMMA ProductFacts ==
    ASSUME NEW a \in Nat, NEW b \in Nat
    PROVE  /\ a * b \in Nat /\ a * b = b * a /\ (a + 1) * b = a * b + b
           /\ (a = 0 \/ b = 0 => a * b = 0) /\ (a # 0 /\ b # 0 => a * b # 0)
BY SMT

LEMMA ProductAssociates ==
    ASSUME NEW a \in Nat, NEW b \in Nat, NEW c \in Nat
    PROVE  /\ (a * b) * c = a * (b * c)
           /\ (a + b) * c = a * c + b * c
BY SMT

LEMMA ProductGrows ==
    ASSUME NEW a \in Nat, NEW b \in Nat, NEW c \in Nat, a <= b
    PROVE  a * c <= b * c
BY SMT


LEMMA RunFacts ==
    ASSUME NEW table, NEW run, NEW streams, IsSession(table, run, streams)
    PROVE  /\ IsTable(table) /\ run.input \in Seq(Columns(table)) /\ Len(run.input) \in Nat
           /\ NumChunks(run) \in Nat \ {0} /\ streams \in Nat \ {0}
           /\ run.blocks \in Nat \ {0} /\ run.threads \in Nat \ {0}
           /\ Chunks(run) = 0 .. NumChunks(run) - 1
           /\ ChunkLength(run) \in Nat
           /\ NumChunks(run) * ChunkLength(run) <= Len(run.input)
           /\ ChunkLength(run) = 0 => table.start = 0
           /\ NumChunks(run) \div streams \in Nat \ {0}
           /\ NumChunks(run) = (NumChunks(run) \div streams) * streams
<1> DEFINE n == NumChunks(run)
           len == Len(run.input)
           length == ChunkLength(run)
           m == n \div streams
<1>1. /\ IsTable(table) /\ run.input \in Seq(Columns(table)) /\ streams \in Nat \ {0}
      /\ run.blocks \in Nat \ {0} /\ run.threads \in Nat \ {0} /\ n % streams = 0
      /\ table.start = 0 \/ len >= n
  BY DEF IsSession
<1>2. len \in Nat
  BY <1>1
<1>3. n \in Nat \ {0}
  BY <1>1, ProductFacts DEF NumChunks
<1>4. length = len \div n
  BY DEF ChunkLength
<1>5. m = n \div streams
  OBVIOUS
<1>6. Chunks(run) = 0 .. n - 1
  BY DEF Chunks
<1> HIDE DEF n, len, length, m
<1>7. length \in Nat /\ len % n \in 0 .. n - 1 /\ len = length * n + (len % n)
  BY <1>2, <1>3, <1>4, DivisionFacts
<1>8. n * length <= len
  <2>1. length * n \in Nat /\ length * n = n * length
    BY <1>3, <1>7, ProductFacts
  <2> QED
    BY <1>2, <1>3, <1>7, <2>1, SMT
<1>9. ASSUME length = 0 PROVE table.start = 0
  <2>1. length * n = 0
    BY <1>3, <1>7, <1>9, ProductFacts
  <2>2. len < n
    BY <1>2, <1>3, <1>7, <2>1, SMT
  <2> QED
    BY <1>1, <1>2, <1>3, <2>2, SMT
<1>10. m \in Nat /\ n = m * streams + (n % streams)
  BY <1>1, <1>3, <1>5, DivisionFacts
<1>11. m * streams \in Nat /\ n = m * streams
  <2>1. m * streams \in Nat
    BY <1>1, <1>10, ProductFacts
  <2> QED
    BY <1>1, <1>10, <2>1, SMT
<1>12. m # 0
  BY <1>1, <1>3, <1>10, <1>11, ProductFacts
<1> QED
  BY <1>1, <1>2, <1>3, <1>6, <1>7, <1>8, <1>9, <1>10, <1>11, <1>12 DEF n, len, length, m

\* Where chunk k lies in its stream and in the input.
LEMMA ChunkFacts ==
    ASSUME NEW table, NEW run, NEW streams, IsSession(table, run, streams),
           NEW k \in Chunks(run)
    PROVE  /\ k \in Nat /\ k * ChunkLength(run) \in Nat /\ (k + 1) * ChunkLength(run) \in Nat
           /\ (k + 1) * ChunkLength(run) = k * ChunkLength(run) + ChunkLength(run)
           /\ (k + 1) * ChunkLength(run) <= Len(run.input)
           /\ Chunk(run, k) \in Seq(Columns(table))
           /\ Len(Chunk(run, k)) = ChunkLength(run)
           /\ k # 0 => k - 1 \in Chunks(run)
<1> DEFINE n == NumChunks(run)
           len == Len(run.input)
           length == ChunkLength(run)
<1>1. /\ n \in Nat \ {0} /\ Chunks(run) = 0 .. n - 1 /\ length \in Nat /\ len \in Nat
      /\ n * length <= len /\ run.input \in Seq(Columns(table))
  BY RunFacts
<1> HIDE DEF n, len, length
<1>2. k \in Nat /\ k + 1 \in Nat /\ k + 1 <= n /\ (k # 0 => k - 1 \in 0 .. n - 1)
  BY <1>1, SMT
<1>3. k * length \in Nat /\ (k + 1) * length \in Nat /\ (k + 1) * length = k * length + length
  BY <1>1, <1>2, ProductFacts
<1>4. (k + 1) * length <= len
  <2>1. (k + 1) * length <= n * length
    BY <1>1, <1>2, ProductGrows
  <2>2. n * length \in Nat
    BY <1>1, ProductFacts
  <2> QED
    BY <1>1, <1>3, <2>1, <2>2, SMT
<1>5. k * length <= (k + 1) * length /\ (k + 1) * length - k * length = length
  BY <1>1, <1>3, SMT
<1> DEFINE from == k * length
           to == (k + 1) * length
           C == Columns(table)
<1>6. /\ SubSeq(run.input, from + 1, to) \in Seq(C)
      /\ Len(SubSeq(run.input, from + 1, to)) = to - from
  <2>1. from \in Nat /\ to \in Nat /\ from <= to /\ to <= len
    BY <1>3, <1>4, <1>5
  <2>2. run.input \in Seq(C) /\ len = Len(run.input)
    BY <1>1 DEF len
  <2> HIDE DEF from, to, C
  <2> QED
    BY <2>1, <2>2, SliceFacts
<1>7. Chunk(run, k) = SubSeq(run.input, from + 1, to)
  BY DEF Chunk, length
<1> QED
  BY <1>1, <1>2, <1>3, <1>4, <1>5, <1>6, <1>7 DEF len, length

\* Where the stream of chunk k begins: with the last chunk up to k that is the first of
\* a stream.
LEMMA StreamBegins ==
    ASSUME NEW k \in Nat, NEW length \in Nat \ {0}, NEW m \in Nat \ {0}, NEW streams \in Nat \ {0}
    PROVE  /\ (length * (m * streams)) \div streams = m * length
           /\ (((k + 1) * length - 1) \div (m * length)) * (m * length)
                  = (k \div m) * m * length
<1> DEFINE a == k \div m
           r == k % m
           ml == m * length
           rl == r * length
           aml == a * ml
<1>1. a \in Nat /\ r \in 0 .. m - 1 /\ k = a * m + r
  BY DivisionFacts
<1> HIDE DEF a, r
<1>2. /\ ml \in Nat \ {0} /\ rl \in Nat /\ aml \in Nat /\ a * m \in Nat /\ r \in Nat
      /\ aml = a * m * length
  BY <1>1, ProductFacts, ProductAssociates
<1>3. k * length = aml + rl
  BY <1>1, <1>2, ProductAssociates
<1>4. rl + length <= ml
  <2>1. (r + 1) * length <= m * length
    <3>1. r + 1 \in Nat /\ r + 1 <= m
      BY <1>1, SMT
    <3> QED
      BY <3>1, ProductGrows
  <2>2. (r + 1) * length = rl + length
    BY <1>2, ProductFacts
  <2> QED
    BY <2>1, <2>2
<1>5. (length * (m * streams)) \div streams = ml
  <2>1. length * (m * streams) = ml * streams /\ ml * streams \in Nat
    BY <1>2, ProductFacts, ProductAssociates
  <2>2. 0 \in 0 .. streams - 1 /\ ml * streams + 0 = ml * streams
    BY <2>1, SMT
  <2> HIDE DEF ml
  <2>3. (ml * streams) \div streams = ml
    BY <1>2, <2>1, <2>2, DivisionUnique
  <2> QED
    BY <2>1, <2>3
<1>6. (k + 1) * length = k * length + length /\ k * length \in Nat
  BY ProductFacts
<1> DEFINE last == (k + 1) * length - 1
<1>7. last \in Nat /\ last = aml + (rl + length - 1) /\ rl + length - 1 \in 0 .. ml - 1
  <2> HIDE DEF aml, rl, ml
  <2> QED
    BY <1>2, <1>3, <1>4, <1>6, SMT
<1>8. last \div ml = a
  <2> HIDE DEF last, rl, ml
  <2>1. last = a * ml + (rl + length - 1)
    BY <1>7
  <2> QED
    BY <1>1, <1>2, <1>7, <2>1, DivisionUnique
<1> QED
  BY <1>2, <1>5, <1>8 DEF a

\* The sequential run, chunk by chunk: each begins where the one before it ended, or in
\* the start state.
Begin(table, run, streams, k) ==
    IF k % (NumChunks(run) \div streams) = 0 THEN table.start
    ELSE GroundTruth(table, run, streams)[k - 1]

LEMMA TruthFacts ==
    ASSUME NEW table, NEW run, NEW streams, IsSession(table, run, streams)
    PROVE  /\ GroundTruth(table, run, streams) \in [Chunks(run) -> States(table)]
           /\ \A k \in Chunks(run) :
                 /\ Begin(table, run, streams, k) \in States(table)
                 /\ GroundTruth(table, run, streams)[k]
                        = Reached(table, Begin(table, run, streams, k), Chunk(run, k))
           /\ ChunkLength(run) # 0 /\ streams = 1 => \A k \in Chunks(run) :
                 GroundTruth(table, run, streams)[k]
                     = Reached(table, table.start,
                               SubSeq(run.input, 0 + 1, (k + 1) * ChunkLength(run)))
<1> DEFINE n == NumChunks(run)
           length == ChunkLength(run)
           m == n \div streams
           in == run.input
           truth == GroundTruth(table, run, streams)
           from(k) == (k \div m) * m * length
<1>1. /\ IsTable(table) /\ n \in Nat \ {0} /\ length \in Nat /\ streams \in Nat \ {0}
      /\ Chunks(run) = 0 .. n - 1 /\ m \in Nat \ {0} /\ n = m * streams
      /\ in \in Seq(Columns(table)) /\ (length = 0 => table.start = 0)
  BY RunFacts
<1>2. table.start \in States(table)
  BY <1>1, TableFacts
<1>3. CASE length = 0
  <2>1. length * n = 0
    BY <1>1, <1>3, ProductFacts
  <2>2. truth = [k \in Chunks(run) |-> 0]
    BY <2>1 DEF GroundTruth
  <2>3. table.start = 0
    BY <1>1, <1>3
  <2>4. ASSUME NEW k \in Chunks(run)
        PROVE  /\ Begin(table, run, streams, k) = 0
               /\ Reached(table, 0, Chunk(run, k)) = 0
    <3>1. k \in Nat /\ (k # 0 => k - 1 \in Chunks(run))
      BY ChunkFacts
    <3>2. k % m \in 0 .. m - 1 /\ (k = 0 => k % m = 0)
      BY <1>1, <3>1, SMT
    <3>3. Begin(table, run, streams, k) = 0
      BY <2>2, <2>3, <3>1, <3>2 DEF Begin
    <3>4. Chunk(run, k) \in Seq(Columns(table)) /\ Len(Chunk(run, k)) = 0
      BY <1>3, ChunkFacts
    <3>5. BeginsPath(table, Path(table, 0, Chunk(run, k)), 0, Chunk(run, k), Len(Chunk(run, k)))
      BY <1>1, <1>2, <2>3, <3>4, PathFacts
    <3> QED
      BY <3>3, <3>4, <3>5 DEF BeginsPath, Reached
  <2> QED
    BY <1>2, <1>3, <2>2, <2>3, <2>4
<1>4. CASE length # 0
  <2>1. length * n # 0 /\ length * n = length * (m * streams)
    BY <1>1, <1>4, ProductFacts
  <2>2. (length * n) \div streams = m * length
    BY <1>1, <1>4, <2>1, StreamBegins
  <2>3. truth = [k \in Chunks(run) |->
                   Reached(table, table.start,
                           SubSeq(in, (((k + 1) * length - 1) \div (m * length)) * (m * length) + 1,
                                  (k + 1) * length))]
    BY <2>1, <2>2 DEF GroundTruth
  <2>4. ASSUME NEW k \in Chunks(run)
        PROVE  truth[k] = Reached(table, table.start, SubSeq(in, from(k) + 1, (k + 1) * length))
    <3>1. k \in Nat
      BY ChunkFacts
    <3>2. (((k + 1) * length - 1) \div (m * length)) * (m * length) = from(k)
      BY <1>1, <1>4, <3>1, StreamBegins
    <3> QED
      BY <2>3, <3>2
  <2> HIDE DEF truth
  <2>5. ASSUME NEW k \in Chunks(run)
        PROVE  /\ from(k) \in Nat /\ k \div m \in Nat /\ k % m \in 0 .. m - 1
               /\ k = (k \div m) * m + (k % m)
               /\ from(k) <= k * length
               /\ k % m = 0 => from(k) = k * length
               /\ k % m # 0 => k # 0 /\ (k - 1) \div m = k \div m
    <3> DEFINE a == k \div m
               r == k % m
    <3>1. k \in Nat
      BY ChunkFacts
    <3>2. a \in Nat /\ r \in 0 .. m - 1 /\ k = a * m + r
      BY <1>1, <3>1, DivisionFacts
    <3>3. from(k) = a * m * length
      OBVIOUS
    <3> HIDE DEF a, r, m, length, from
    <3>4. a * m \in Nat /\ a * m * length \in Nat /\ r \in Nat
      BY <1>1, <3>2, ProductFacts
    <3>5. a * m * length <= k * length
      <4>1. a * m <= k
        BY <3>1, <3>2, <3>4, SMT
      <4> QED
        BY <1>1, <3>1, <3>4, <4>1, ProductGrows
    <3>6. r = 0 => a * m * length = k * length
      <4>1. r = 0 => a * m = k
        BY <3>1, <3>2, <3>4, SMT
      <4> QED
        BY <4>1
    <3>7. ASSUME r # 0 PROVE k # 0 /\ (k - 1) \div m = a
      <4>1. /\ k # 0 /\ k - 1 \in Nat /\ r - 1 \in 0 .. m - 1
            /\ k - 1 = a * m + (r - 1)
        BY <1>1, <3>1, <3>2, <3>4, <3>7, SMT
      <4> QED
        BY <1>1, <3>2, <4>1, DivisionUnique
    <3> QED
      BY <3>2, <3>3, <3>4, <3>5, <3>6, <3>7 DEF a, r
  <2>6. ASSUME NEW k \in Chunks(run)
        PROVE  /\ truth[k] \in States(table)
               /\ k % m # 0 => truth[k] = Reached(table, truth[k - 1], Chunk(run, k))
               /\ k % m = 0 => truth[k] = Reached(table, table.start, Chunk(run, k))
    <3> DEFINE a == from(k)
               b == k * length
               c == (k + 1) * length
    <3>1. /\ a \in Nat /\ b \in Nat /\ c \in Nat /\ a <= b /\ b <= c /\ c <= Len(in)
          /\ Len(in) \in Nat
      <4>1. b \in Nat /\ c \in Nat /\ c = b + length /\ c <= Len(in) /\ Len(in) \in Nat
        BY ChunkFacts, RunFacts
      <4>2. a \in Nat /\ a <= b
        BY <2>5
      <4> HIDE DEF a, b, c
      <4> QED
        BY <1>1, <4>1, <4>2, SMT
    <3>2. truth[k] = Reached(table, table.start, SubSeq(in, a + 1, c))
      BY <2>4
    <3>3. Chunk(run, k) = SubSeq(in, b + 1, c)
      BY DEF Chunk
    <3>4. k % m = 0 => a = b
      BY <2>5
    <3>5. k % m # 0 => /\ k - 1 \in Chunks(run)
                       /\ truth[k - 1] = Reached(table, table.start, SubSeq(in, a + 1, b))
      <4> HAVE k % m # 0
      <4>1. k \in Nat /\ k # 0 /\ (k - 1) \div m = k \div m
        BY <2>5, ChunkFacts
      <4>2. k - 1 \in Chunks(run)
        BY <4>1, ChunkFacts
      <4>3. from(k - 1) = a
        BY <4>1
      <4>4. k - 1 + 1 = k
        BY <4>1, SMT
      <4> QED
        BY <2>4, <4>2, <4>3, <4>4
    <3> HIDE DEF a, b, c, in, from
    <3>6. SubSeq(in, a + 1, c) \in Seq(Columns(table))
      <4>1. a <= c
        BY <3>1, SMT
      <4> QED
        BY <1>1, <3>1, <4>1, SliceFacts
    <3>7. truth[k] \in States(table)
      BY <1>1, <1>2, <3>2, <3>6, PathFacts
    <3>8. k % m # 0 => truth[k] = Reached(table, truth[k - 1], Chunk(run, k))
      <4>1. Reached(table, table.start, SubSeq(in, a + 1, c))
                = Reached(table, Reached(table, table.start, SubSeq(in, a + 1, b)),
                          SubSeq(in, b + 1, c))
        BY <1>1, <1>2, <3>1, SplitReached
      <4> QED
        BY <3>2, <3>3, <3>5, <4>1
    <3> QED
      BY <3>2, <3>3, <3>4, <3>7, <3>8
  <2>7. truth \in [Chunks(run) -> States(table)]
    <3>1. truth = [k \in Chunks(run) |-> truth[k]]
      BY <2>3
    <3> QED
      BY <2>6, <3>1
  <2>8. ASSUME NEW k \in Chunks(run)
        PROVE  /\ Begin(table, run, streams, k) \in States(table)
               /\ truth[k] = Reached(table, Begin(table, run, streams, k), Chunk(run, k))
    <3>1. CASE k % m = 0
      BY <1>2, <2>6, <3>1 DEF Begin
    <3>2. CASE k % m # 0
      <4>1. k - 1 \in Chunks(run)
        BY <2>5, <3>2, ChunkFacts
      <4> QED
        BY <2>6, <3>2, <4>1 DEF Begin, truth
    <3> QED
      BY <3>1, <3>2
  <2>9. ASSUME streams = 1, NEW k \in Chunks(run) PROVE from(k) = 0
    <3>1. m = n
      BY <1>1, <2>9, SMT
    <3>2. k \in Nat /\ k < n
      BY <1>1, SMT
    <3>3. k \div m = 0
      <4>1. k \in 0 .. m - 1 /\ k = 0 * m + k
        BY <1>1, <3>1, <3>2, SMT
      <4> QED
        BY <1>1, <3>2, <4>1, DivisionUnique
    <3>4. 0 * m = 0 /\ 0 * length = 0
      BY <1>1, SMT
    <3> QED
      BY <3>3, <3>4
  <2> QED
    BY <2>4, <2>7, <2>8, <2>9 DEF truth
<1> QED
  BY <1>3, <1>4


-----------------------------------------------------------------------------
(* Sorting *)

\* The records of list are those of sorted, place at[k] moved to place k.
Moves(at, list, sorted) ==
    /\ at \in Bijection(DOMAIN list, DOMAIN list)
    /\ sorted = [k \in DOMAIN list |-> list[at[k]]]

Sorted(list) ==
    \A i, j \in DOMAIN list : i < j => list[i].times >= list[j].times

\* Sorting moves the records, and the most frequent to the front.
LEMMA ByTimesFacts ==
    ASSUME NEW A, NEW list \in Seq([state : A, times : Nat]), NEW stable \in BOOLEAN
    PROVE  /\ ByTimes(list, stable) \in Seq([state : A, times : Nat])
           /\ Len(ByTimes(list, stable)) = Len(list)
           /\ Sorted(ByTimes(list, stable))
           /\ \E at : Moves(at, list, ByTimes(list, stable))
<1> DEFINE D == DOMAIN list
           n == Len(list)
           Records == [state : A, times : Nat]
           before(i, j) ==
               \/ list[i].times > list[j].times
               \/ list[i].times = list[j].times /\ (IF stable THEN i < j ELSE i > j)
           R == {p \in D \X D : before(p[1], p[2])}
           rank(i) == Cardinality(Below(R, D, i))
           count(i) == Cardinality({j \in D : before(j, i)})
           at == [k \in D |-> CHOOSE i \in D : count(i) = k - 1]
           sorted == ByTimes(list, stable)
<1>1. n \in Nat /\ D = 1 .. n /\ \A i \in D : list[i] \in Records
  <2>1. list \in Seq(Records)
    OBVIOUS
  <2> HIDE DEF Records
  <2> QED
    BY <2>1
<1>2. \A i \in D : list[i].times \in Nat
  BY <1>1
<1>3. \A i, j \in D : <<i, j>> \in R <=> before(i, j)
  OBVIOUS
<1>4. Orders(R, D)
  <2>1. ASSUME NEW i \in D PROVE ~before(i, i)
    BY <1>1, <1>2, SMT
  <2>2. ASSUME NEW i \in D, NEW j \in D, i # j PROVE before(i, j) \/ before(j, i)
    <3>1. i \in Nat /\ j \in Nat /\ list[i].times \in Nat /\ list[j].times \in Nat
      BY <1>1, <1>2
    <3> QED
      BY <2>2, <3>1, SMT
  <2>3. ASSUME NEW i \in D, NEW j \in D, NEW k \in D, before(i, j), before(j, k)
        PROVE  before(i, k)
    <3>1. /\ i \in Nat /\ j \in Nat /\ k \in Nat
          /\ list[i].times \in Nat /\ list[j].times \in Nat /\ list[k].times \in Nat
      BY <1>1, <1>2
    <3> QED
      BY <2>3, <3>1, SMT
  <2> HIDE DEF before, R, D
  <2> QED
    BY <1>3, <2>1, <2>2, <2>3 DEF Orders
<1>5. IsFiniteSet(D) /\ Cardinality(D) = n
  <2>1. 1 \in Int /\ n \in Int /\ (1 > n => n = 0) /\ n - 1 + 1 = n
    BY <1>1, SMT
  <2> HIDE DEF n, D
  <2>2. IsFiniteSet(1 .. n) /\ Cardinality(1 .. n) = IF 1 > n THEN 0 ELSE n - 1 + 1
    BY <2>1, FS_Interval
  <2> QED
    BY <1>1, <2>1, <2>2
<1>6. /\ sorted = [k \in D |-> list[at[k]]]
      /\ \A i \in D : count(i) = rank(i)
  <2>1. ASSUME NEW i \in D PROVE {j \in D : before(j, i)} = Below(R, D, i)
    BY <1>3 DEF Below
  <2>2. sorted = [k \in D |-> list[CHOOSE i \in D : count(i) = k - 1]]
    BY Zenon DEF ByTimes
  <2> HIDE DEF count, sorted
  <2>3. sorted = [k \in D |-> list[at[k]]]
    BY <2>2
  <2> QED
    BY <2>1, <2>3 DEF count
<1> HIDE DEF R, sorted
<1>7. /\ \A i \in D : rank(i) \in 0 .. n - 1
      /\ \A i, j \in D : <<i, j>> \in R => rank(i) < rank(j)
      /\ \A k \in 0 .. n - 1 : \E i \in D : rank(i) = k
  <2> HIDE DEF D
  <2> QED
    BY <1>4, <1>5, RankFacts
<1>8. ASSUME NEW k \in D PROVE at[k] \in D /\ rank(at[k]) = k - 1
  <2>1. k - 1 \in 0 .. n - 1
    BY <1>1
  <2>2. at[k] = CHOOSE i \in D : count(i) = k - 1
    OBVIOUS
  <2>3. \E i \in D : rank(i) = k - 1
    BY <1>7, <2>1
  <2> HIDE DEF D, rank, count, at
  <2> QED
    BY <1>6, <2>2, <2>3
<1>9. ASSUME NEW r \in 0 .. n - 1 PROVE r + 1 \in D /\ at[r + 1] \in D /\ rank(at[r + 1]) = r
  <2>1. r + 1 \in D /\ r + 1 - 1 = r
    BY <1>1, SMT
  <2> HIDE DEF at, D, rank
  <2> QED
    BY <1>8, <2>1
<1>10. ASSUME NEW i \in D PROVE rank(i) + 1 \in D /\ at[rank(i) + 1] = i
  <2>1. rank(i) \in 0 .. n - 1
    BY <1>7
  <2>2. /\ rank(i) + 1 \in D
        /\ rank(at[rank(i) + 1]) = rank(i) /\ at[rank(i) + 1] \in D
    <3> HIDE DEF at, D, rank
    <3> QED
      BY <1>9, <2>1
  <2> DEFINE j == at[rank(i) + 1]
  <2>3. ~(rank(j) < rank(i)) /\ ~(rank(i) < rank(j))
    BY <2>1, <2>2
  <2> HIDE DEF at, rank, D, j
  <2>4. <<i, j>> \notin R /\ <<j, i>> \notin R
    BY <1>7, <2>2, <2>3 DEF j
  <2>5. i = j
    BY <1>4, <2>2, <2>4 DEF Orders, j
  <2> QED
    BY <2>2, <2>5 DEF j
<1> HIDE DEF at
<1>11. at \in Bijection(D, D)
  <2>1. at \in [D -> D]
    BY <1>8 DEF at
  <2>2. ASSUME NEW k \in D, NEW m \in D, at[k] = at[m] PROVE k = m
    <3>1. k - 1 = m - 1
      BY <1>8, <2>2
    <3> QED
      BY <1>1, <3>1, SMT
  <2>3. \A i \in D : \E k \in D : at[k] = i
    BY <1>10
  <2> HIDE DEF D
  <2> QED
    BY <2>1, <2>2, <2>3, Fun_IsBij
<1>12. Sorted(sorted)
  <2> SUFFICES ASSUME NEW k \in D, NEW m \in D, k < m
               PROVE  list[at[k]].times >= list[at[m]].times
    BY <1>6 DEF Sorted
  <2>1. rank(at[k]) < rank(at[m])
    <3>1. k - 1 < m - 1
      BY <1>1, SMT
    <3> QED
      BY <1>8, <3>1
  <2>2. ~before(at[m], at[k])
    <3>1. <<at[m], at[k]>> \notin R
      <4>1. rank(at[m]) \in Nat /\ rank(at[k]) \in Nat
        BY <1>7, <1>8
      <4>2. ~(rank(at[m]) < rank(at[k]))
        <5> HIDE DEF rank
        <5> QED
          BY <2>1, <4>1, SMT
      <4> QED
        BY <1>7, <1>8, <4>2
    <3> QED
      BY <1>3, <1>8, <3>1
  <2>3. list[at[k]].times \in Nat /\ list[at[m]].times \in Nat
    BY <1>2, <1>8
  <2> QED
    BY <2>2, <2>3, SMT
<1>13. sorted \in Seq(Records) /\ Len(sorted) = n
  <2>1. \A k \in 1 .. n : list[at[k]] \in Records
    BY <1>1, <1>8
  <2>2. sorted = [k \in 1 .. n |-> list[at[k]]]
    BY <1>1, <1>6
  <2> HIDE DEF Records, n, D
  <2> QED
    BY <1>1, <2>1, <2>2
<1> QED
  BY <1>6, <1>11, <1>12, <1>13 DEF Moves, sorted


-----------------------------------------------------------------------------
(* Numbering the states anew *)

\* The list has a record for each state.
IsArrangement(hot, table) ==
    /\ Len(hot) = Len(table.next)
    /\ \A i, j \in DOMAIN hot : hot[i].state = hot[j].state => i = j

\* original and new translate between the numbers, and back.
Translates(table, original, new) ==
    /\ original \in [States(table) -> States(table)] /\ new \in [States(table) -> States(table)]
    /\ \A q \in States(table) : original[new[q]] = q /\ new[original[q]] = q

\* A one-to-one translation reaches every state, and OriginalToNew translates back.
LEMMA TranslationFacts ==
    ASSUME NEW table, IsTable(table),
           NEW original \in [States(table) -> States(table)],
           \A p, q \in States(table) : original[p] = original[q] => p = q
    PROVE  Translates(table, original, OriginalToNew(original))
<1> DEFINE Q == States(table)
           new == OriginalToNew(original)
<1>1. IsFiniteSet(Q)
  BY TableFacts
<1>2. original \in Injection(Q, Q)
  <2> HIDE DEF Q
  <2>1. original \in [Q -> Q] /\ \A p, q \in Q : original[p] = original[q] => p = q
    BY DEF Q
  <2> QED
    BY <2>1, Fun_IsInj
<1>3. original \in Surjection(Q, Q)
  <2> HIDE DEF Q
  <2> QED
    BY <1>1, <1>2, FS_Injection
<1>4. ASSUME NEW q \in Q PROVE \E k \in Q : original[k] = q
  <2> HIDE DEF Q
  <2> QED
    BY <1>3 DEF Surjection
<1>5. DOMAIN original = Q /\ {original[k] : k \in DOMAIN original} = Q
  <2>1. DOMAIN original = Q
    OBVIOUS
  <2> HIDE DEF Q
  <2>2. \A k \in Q : original[k] \in Q
    BY DEF Q
  <2> QED
    BY <1>4, <2>1, <2>2
<1>6. new = [q \in Q |-> CHOOSE k \in Q : original[k] = q]
  BY <1>5, Zenon DEF OriginalToNew
<1>7. ASSUME NEW q \in Q PROVE new[q] \in Q /\ original[new[q]] = q
  <2>1. new[q] = CHOOSE k \in Q : original[k] = q
    BY <1>6
  <2> HIDE DEF new, Q
  <2> QED
    BY <1>4, <2>1
<1>8. new \in [Q -> Q]
  BY <1>6, <1>7
<1>9. ASSUME NEW q \in Q PROVE new[original[q]] = q
  <2>1. original[q] \in Q
    OBVIOUS
  <2>2. new[original[q]] \in Q /\ original[new[original[q]]] = original[q]
    BY <1>7, <2>1
  <2> HIDE DEF new
  <2> QED
    BY <2>2
<1> QED
  BY <1>7, <1>8, <1>9 DEF Translates

\* The hottest states in their order and the others in the order of their numbers are all
\* the states, each once.
LEMMA NewToOriginalFacts ==
    ASSUME NEW table, IsTable(table), NEW hot \in Seq([state : States(table), times : Nat]),
           IsArrangement(hot, table), NEW slots \in Nat \ {0}
    PROVE  /\ NewToOriginal(hot, slots) \in [States(table) -> States(table)]
           /\ \A p, q \in States(table) :
                 NewToOriginal(hot, slots)[p] = NewToOriginal(hot, slots)[q] => p = q
<1> DEFINE Q == States(table)
           n == Len(table.next)
           D == DOMAIN hot
           Late == {k \in D : k > slots}
           cold == {hot[k].state : k \in Late}
           below(q) == {p \in cold : p < q}
           rank(k) == CHOOSE q \in cold : Cardinality(below(q)) = k - slots
           original == NewToOriginal(hot, slots)
<1>1. n \in Nat \ {0} /\ Q = 0 .. n - 1 /\ Q \in SUBSET Nat /\ IsFiniteSet(Q)
  BY TableFacts
<1>2. D = 1 .. n /\ Len(hot) = n /\ \A k \in D : hot[k].state \in Q
  <2> DEFINE Records == [state : Q, times : Nat]
  <2>1. hot \in Seq(Records) /\ Len(hot) = n
    BY DEF IsArrangement
  <2> HIDE DEF Records, Q
  <2>2. D = 1 .. n /\ \A k \in D : hot[k] \in Records
    BY <2>1
  <2> QED
    BY <2>1, <2>2 DEF Records
<1>3. \A i, j \in D : hot[i].state = hot[j].state => i = j
  BY DEF IsArrangement
<1>4. original = [k \in 0 .. n - 1 |-> IF k < slots THEN hot[k + 1].state ELSE rank(k)]
  BY <1>2, Zenon DEF NewToOriginal
<1> HIDE DEF Q, n, original
<1>5. /\ cold \in SUBSET Q /\ cold \in SUBSET Nat /\ IsFiniteSet(cold)
      /\ slots <= n => Cardinality(cold) = n - slots
  <2>1. cold \in SUBSET Q
    BY <1>2
  <2>2. IsFiniteSet(cold)
    BY <1>1, <2>1, FS_Subset
  <2>3. ASSUME slots <= n PROVE Cardinality(cold) = n - slots
    <3> DEFINE f == [k \in slots + 1 .. n |-> hot[k].state]
    <3>1. Late = slots + 1 .. n
      BY <1>1, <1>2, SMT
    <3>2. f \in [Late -> cold]
      BY <3>1
    <3>3. ASSUME NEW i \in Late, NEW j \in Late, f[i] = f[j] PROVE i = j
      BY <1>3, <3>1, <3>3
    <3>4. \A q \in cold : \E k \in Late : f[k] = q
      BY <3>1
    <3> HIDE DEF f, Late, cold
    <3>5. f \in Bijection(Late, cold)
      BY <3>2, <3>3, <3>4, Fun_IsBij
    <3>6. ExistsBijection(Late, cold)
      BY <3>5, Fun_ExistsBij
    <3>7. IsFiniteSet(Late) /\ Cardinality(Late) = n - slots
      <4> DEFINE a == slots + 1
      <4>1. a \in Int /\ n \in Int /\ (a > n => n - slots = 0) /\ n - a + 1 = n - slots
        BY <1>1, <2>3, SMT
      <4> HIDE DEF a
      <4>2. IsFiniteSet(a .. n) /\ Cardinality(a .. n) = IF a > n THEN 0 ELSE n - a + 1
        BY <4>1, FS_Interval
      <4> QED
        BY <3>1, <4>1, <4>2 DEF a
    <3> QED
      BY <3>6, <3>7, FS_Bijection
  <2> QED
    BY <1>1, <2>1, <2>2, <2>3
<1>6. ASSUME NEW k \in slots .. n - 1, slots < n
      PROVE  rank(k) \in cold /\ Cardinality(below(rank(k))) = k - slots
  <2> DEFINE R == {p \in cold \X cold : p[1] < p[2]}
  <2>1. \A p, q \in cold : <<p, q>> \in R <=> p < q
    OBVIOUS
  <2>2. Orders(R, cold)
    <3> HIDE DEF cold, R
    <3>1. /\ \A p \in cold : ~(p < p)
          /\ \A p, q \in cold : p # q => p < q \/ q < p
          /\ \A p, q, r \in cold : p < q /\ q < r => p < r
      BY <1>5, SMT
    <3> QED
      BY <2>1, <3>1 DEF Orders
  <2>3. ASSUME NEW q \in cold PROVE below(q) = Below(R, cold, q)
    BY <2>1 DEF Below
  <2>4. k - slots \in 0 .. Cardinality(cold) - 1
    <3> HIDE DEF cold
    <3> QED
      BY <1>1, <1>5, <1>6, SMT
  <2>5. \E q \in cold : Cardinality(Below(R, cold, q)) = k - slots
    <3> DEFINE j == k - slots
    <3>1. j \in 0 .. Cardinality(cold) - 1
      BY <2>4
    <3>2. IsFiniteSet(cold)
      BY <1>5
    <3> HIDE DEF cold, R, j
    <3>3. \A i \in 0 .. Cardinality(cold) - 1 :
             \E q \in cold : Cardinality(Below(R, cold, q)) = i
      BY <2>2, <3>2, RankFacts
    <3> QED
      BY <3>1, <3>3 DEF j
  <2>6. \E q \in cold : Cardinality(below(q)) = k - slots
    <3> HIDE DEF cold, R, below
    <3> QED
      BY <2>3, <2>5
  <2> HIDE DEF cold, below
  <2> QED
    BY <2>6
<1> HIDE DEF rank, below
<1>7. ASSUME NEW k \in Q
      PROVE  IF k < slots THEN k + 1 \in D /\ original[k] = hot[k + 1].state
             ELSE k \in slots .. n - 1 /\ slots < n /\ original[k] = rank(k)
  <2>1. k \in 0 .. n - 1 /\ k + 1 \in 1 .. n
    BY <1>1, SMT
  <2>2. original[k] = IF k < slots THEN hot[k + 1].state ELSE rank(k)
    BY <1>4, <2>1
  <2>3. ~(k < slots) => k \in slots .. n - 1 /\ slots < n
    BY <1>1, <2>1, SMT
  <2> QED
    BY <1>2, <2>1, <2>2, <2>3
<1>8. ASSUME NEW k \in Q PROVE original[k] \in Q
  <2>1. CASE k < slots
    BY <1>2, <1>7, <2>1
  <2>2. CASE ~(k < slots)
    BY <1>5, <1>6, <1>7, <2>2
  <2> QED
    BY <2>1, <2>2
<1>9. ASSUME NEW p \in Q, NEW q \in Q, p < slots, ~(q < slots)
      PROVE  original[p] # original[q]
  <2>1. p + 1 \in D /\ original[p] = hot[p + 1].state /\ original[q] \in cold
    BY <1>6, <1>7, <1>9
  <2>2. PICK k \in Late : original[q] = hot[k].state
    BY <2>1
  <2>3. p + 1 # k
    BY <1>1, <1>2, <1>9, <2>2, SMT
  <2> QED
    BY <1>3, <2>1, <2>2, <2>3
<1>10. ASSUME NEW p \in Q, NEW q \in Q, original[p] = original[q] PROVE p = q
  <2>1. CASE p < slots /\ q < slots
    <3>1. p + 1 = q + 1
      BY <1>3, <1>7, <1>10, <2>1
    <3> QED
      BY <1>1, <3>1, SMT
  <2>2. CASE ~(p < slots) /\ ~(q < slots)
    <3>1. p - slots = q - slots
      <4>1. original[p] = rank(p) /\ original[q] = rank(q)
        BY <1>7, <2>2
      <4>2. Cardinality(below(rank(p))) = p - slots /\ Cardinality(below(rank(q))) = q - slots
        BY <1>6, <1>7, <2>2
      <4> QED
        BY <1>10, <4>1, <4>2
    <3> QED
      BY <1>1, <3>1, SMT
  <2> QED
    BY <1>9, <1>10, <2>1, <2>2
<1>11. original \in [Q -> Q]
  BY <1>1, <1>4, <1>8
<1> QED
  BY <1>10, <1>11 DEF Q, original


\* The renumbered table leads from numbers to numbers as the table does from states to
\* states.
LEMMA TransformFacts ==
    ASSUME NEW table, IsTable(table), NEW original,
           Translates(table, original, OriginalToNew(original))
    PROVE  /\ IsTable(TransformTable(table, original))
           /\ States(TransformTable(table, original)) = States(table)
           /\ Columns(TransformTable(table, original)) = Columns(table)
           /\ \A q \in States(table), c \in Columns(table) :
                 Row(TransformTable(table, original), OriginalToNew(original)[q])[c]
                     = OriginalToNew(original)[Row(table, q)[c]]
<1> DEFINE new == OriginalToNew(original)
           Q == States(table)
           C == Columns(table)
           n == Len(table.next)
           moved == TransformTable(table, original)
           row(k) == [c \in DOMAIN table.next[k] |-> new[table.next[original[k - 1] + 1][c]]]
<1>1. /\ n \in Nat \ {0} /\ DOMAIN table.next = 1 .. n /\ Q = 0 .. n - 1
      /\ table = [next |-> table.next, start |-> table.start]
      /\ table.start \in Q /\ IsFiniteSet(C)
      /\ \A q \in Q : q + 1 \in 1 .. n /\ Row(table, q) \in [C -> Q]
      /\ \A k \in 1 .. n : k - 1 \in Q /\ table.next[k] \in [C -> Q]
  BY TableFacts
<1>2. /\ original \in [Q -> Q] /\ new \in [Q -> Q]
      /\ \A q \in Q : original[new[q]] = q
  BY DEF Translates
<1>3. moved = [next |-> [k \in 1 .. n |-> row(k)], start |-> table.start]
  <2>1. moved = [table EXCEPT !.next = [k \in DOMAIN table.next |-> row(k)]]
    BY Zenon DEF TransformTable
  <2> HIDE DEF row, n, moved
  <2> QED
    BY <1>1, <2>1
<1> HIDE DEF new, moved, Q, C, n
<1>4. ASSUME NEW k \in 1 .. n
      PROVE  row(k) \in [C -> Q] /\ row(k) = [c \in C |-> new[Row(table, original[k - 1])[c]]]
  <2>1. k - 1 \in Q /\ original[k - 1] \in Q
    BY <1>1, <1>2
  <2>2. Row(table, original[k - 1]) \in [C -> Q]
    BY <1>1, <2>1
  <2>3. DOMAIN table.next[k] = C
    BY <1>1
  <2>4. \A c \in C : new[Row(table, original[k - 1])[c]] \in Q
    BY <1>2, <2>2
  <2> QED
    BY <2>3, <2>4 DEF Row
<1>5. /\ moved.next \in Seq([C -> Q]) /\ Len(moved.next) = n
      /\ \A k \in 1 .. n : moved.next[k] = row(k)
  <2>1. moved.next = [k \in 1 .. n |-> row(k)]
    BY <1>3
  <2>2. \A k \in 1 .. n : row(k) \in [C -> Q]
    BY <1>4
  <2> HIDE DEF row
  <2>3. moved.next \in [1 .. n -> [C -> Q]]
    BY <2>1, <2>2
  <2>4. moved.next \in Seq([C -> Q]) /\ Len(moved.next) = n
    BY <1>1, <2>3, MakesSeq
  <2> QED
    BY <2>1, <2>4
<1>6. States(moved) = Q
  BY <1>1, <1>5 DEF States
<1>7. Columns(moved) = C
  <2>1. 1 \in 1 .. n /\ 0 + 1 = 1
    BY <1>1, SMT
  <2>2. Row(moved, 0) = row(1)
    <3> HIDE DEF row
    <3> QED
      BY <1>5, <2>1 DEF Row
  <2> QED
    BY <1>4, <2>1, <2>2 DEF Columns
<1>8. IsTable(moved)
  <2>1. moved \in [next : Seq([C -> Q]), start : Q]
    <3> HIDE DEF row
    <3>1. moved.next = [k \in 1 .. n |-> row(k)] /\ moved.start = table.start
      BY <1>3
    <3> QED
      BY <1>1, <1>3, <1>5, <3>1
  <2> QED
    BY <1>1, <1>5, <1>6, <1>7, <2>1 DEF IsTable
<1>9. ASSUME NEW q \in Q, NEW c \in C PROVE Row(moved, new[q])[c] = new[Row(table, q)[c]]
  <2>1. new[q] \in Q /\ new[q] \in 0 .. n - 1 /\ n \in Nat
    BY <1>1, <1>2
  <2>2. PICK k \in 1 .. n : k = new[q] + 1 /\ k - 1 = new[q]
    BY <2>1, SMT
  <2>3. row(k) = [d \in C |-> new[Row(table, original[k - 1])[d]]]
    BY <1>4
  <2>4. Row(moved, new[q]) = row(k)
    BY <1>5, <2>2 DEF Row
  <2> HIDE DEF row
  <2>5. row(k)[c] = new[Row(table, original[k - 1])[c]]
    BY <2>3
  <2> QED
    BY <1>2, <2>2, <2>4, <2>5
<1> QED
  BY <1>6, <1>7, <1>8, <1>9 DEF Q, C, new, moved

\* So does a path.
LEMMA RenumberedPath ==
    ASSUME NEW table, IsTable(table), NEW original,
           Translates(table, original, OriginalToNew(original)),
           NEW q \in States(table), NEW s \in Seq(Columns(table))
    PROVE  original[Reached(TransformTable(table, original), OriginalToNew(original)[q], s)]
               = Reached(table, q, s)
<1> DEFINE new == OriginalToNew(original)
           moved == TransformTable(table, original)
           path == Path(table, q, s)
           f == [i \in 0 .. Len(s) |-> new[path[i]]]
<1>1. /\ IsTable(moved) /\ States(moved) = States(table) /\ Columns(moved) = Columns(table)
      /\ \A p \in States(table), c \in Columns(table) :
            Row(moved, new[p])[c] = new[Row(table, p)[c]]
  BY TransformFacts
<1>2. /\ new \in [States(table) -> States(table)]
      /\ \A p \in States(table) : original[new[p]] = p
  BY DEF Translates
<1>3. BeginsPath(table, path, q, s, Len(s)) /\ Reached(table, q, s) \in States(table)
  BY PathFacts
<1>4. Reached(table, q, s) = path[Len(s)] /\ Len(s) \in Nat
  BY DEF Reached
<1> HIDE DEF new, moved, path
<1>5. /\ path \in [0 .. Len(s) -> States(table)] /\ path[0] = q
      /\ \A i \in 1 .. Len(s) : path[i] = Row(table, path[i - 1])[s[i]]
  BY <1>3 DEF BeginsPath
<1>6. BeginsPath(moved, f, new[q], s, Len(s))
  <2>1. f \in [0 .. Len(s) -> States(moved)]
    BY <1>1, <1>2, <1>5
  <2>2. f[0] = new[q]
    <3>1. 0 \in 0 .. Len(s)
      BY <1>4, SMT
    <3> QED
      BY <1>5, <3>1
  <2>3. ASSUME NEW i \in 1 .. Len(s) PROVE f[i] = Row(moved, f[i - 1])[s[i]]
    <3>1. i \in 0 .. Len(s) /\ i - 1 \in 0 .. Len(s)
      BY <1>4, SMT
    <3>2. path[i - 1] \in States(table) /\ s[i] \in Columns(table)
      BY <1>5, <3>1
    <3>3. f[i] = new[path[i]] /\ f[i - 1] = new[path[i - 1]]
      BY <3>1
    <3>4. path[i] = Row(table, path[i - 1])[s[i]]
      BY <1>5
    <3> HIDE DEF f
    <3> QED
      BY <1>1, <3>2, <3>3, <3>4
  <2> QED
    BY <2>1, <2>2, <2>3 DEF BeginsPath
<1>7. Reached(moved, new[q], s) = f[Len(s)]
  <2>1. new[q] \in States(moved) /\ s \in Seq(Columns(moved))
    BY <1>1, <1>2
  <2> HIDE DEF f
  <2> QED
    BY <1>1, <1>6, <2>1, ReachedBy
<1>8. f[Len(s)] = new[path[Len(s)]]
  <2>1. Len(s) \in 0 .. Len(s)
    BY <1>4, SMT
  <2> QED
    BY <2>1
<1>9. original[new[path[Len(s)]]] = path[Len(s)]
  BY <1>2, <1>3, <1>4
<1> QED
  BY <1>4, <1>7, <1>8, <1>9 DEF new, moved


-----------------------------------------------------------------------------
(* Counting and predicting *)

Records(table) == [state : States(table), times : Nat]

\* A list that was counted up and sorted, once or more.
IsProfile(table, hot) ==
    /\ hot \in Seq(Records(table)) /\ Sorted(hot)
    /\ Len(hot) = 0 \/ Len(hot) >= Len(table.next)
    /\ Len(hot) = Len(table.next) => IsArrangement(hot, table)

LEMMA CountedFacts ==
    ASSUME NEW table, IsTable(table), NEW times \in [States(table) -> Nat]
    PROVE  /\ Counted(table, times) \in Seq(Records(table))
           /\ Len(Counted(table, times)) = Len(table.next)
           /\ \A k \in 1 .. Len(table.next) :
                 /\ Counted(table, times)[k].state = k - 1
                 /\ Counted(table, times)[k].times = times[k - 1]
<1> DEFINE n == Len(table.next)
           list == Counted(table, times)
           record(k) == [state |-> k - 1, times |-> times[k - 1]]
<1>1. /\ n \in Nat /\ DOMAIN table.next = 1 .. n
      /\ \A k \in 1 .. n : k - 1 \in States(table)
  BY TableFacts
<1>2. list = [k \in 1 .. n |-> record(k)]
  BY <1>1 DEF Counted
<1>3. ASSUME NEW k \in 1 .. n PROVE record(k) \in Records(table)
  BY <1>1 DEF Records
<1>4. \A k \in 1 .. n : list[k] = record(k)
  BY <1>2
<1>5. list \in Seq(Records(table)) /\ Len(list) = n
  <2> HIDE DEF record, list, n
  <2>1. list \in [1 .. n -> Records(table)]
    BY <1>2, <1>3
  <2> QED
    BY <1>1, <2>1, MakesSeq
<1>6. ASSUME NEW k \in 1 .. n PROVE list[k].state = k - 1 /\ list[k].times = times[k - 1]
  <2>1. list[k] = record(k)
    BY <1>4
  <2>2. record(k).state = k - 1 /\ record(k).times = times[k - 1]
    OBVIOUS
  <2> HIDE DEF list, record
  <2> QED
    BY <2>1, <2>2
<1> HIDE DEF list, record
<1> QED
  BY <1>5, <1>6 DEF list

\* Profiling makes a profile of a profile; the first has a record for each state.
LEMMA ProfiledFacts ==
    ASSUME NEW table, IsTable(table), NEW hot, IsProfile(table, hot),
           NEW visits \in [States(table) -> Nat], NEW stable \in BOOLEAN
    PROVE  IsProfile(table, Profiled(hot, table, visits, stable))
<1> DEFINE n == Len(table.next)
           R == Records(table)
           counted == Counted(table, [q \in States(table) |-> 0])
           list == hot \o counted
           up(k) == IF k <= n THEN visits[k - 1] ELSE 0
           raised == [k \in DOMAIN list |-> [list[k] EXCEPT !.times = @ + up(k)]]
           sorted == Profiled(hot, table, visits, stable)
<1>1. /\ n \in Nat \ {0} /\ \A k \in 1 .. n : k - 1 \in States(table)
  BY TableFacts
<1>2. /\ counted \in Seq(R) /\ Len(counted) = n
      /\ \A k \in 1 .. n : counted[k].state = k - 1
  <2> DEFINE none == [q \in States(table) |-> 0]
  <2>1. none \in [States(table) -> Nat]
    OBVIOUS
  <2> HIDE DEF none
  <2>2. /\ Counted(table, none) \in Seq(R) /\ Len(Counted(table, none)) = n
        /\ \A k \in 1 .. n : Counted(table, none)[k].state = k - 1
    BY <2>1, CountedFacts
  <2> QED
    BY <2>2 DEF none
<1>3. hot \in Seq(R) /\ Len(hot) \in Nat /\ (Len(hot) = 0 \/ Len(hot) >= n)
  BY DEF IsProfile
<1> HIDE DEF counted
<1>4. list \in Seq(R) /\ Len(list) = Len(hot) + n /\ DOMAIN list = 1 .. Len(hot) + n
  <2> HIDE DEF R, n
  <2>1. list \in Seq(R) /\ Len(list) = Len(hot) + n
    BY <1>2, <1>3, ConcatProperties
  <2> HIDE DEF list
  <2> QED
    BY <2>1
<1>5. Len(hot) = 0 => \A k \in 1 .. n : list[k] = counted[k]
  <2> HAVE Len(hot) = 0
  <2> TAKE k \in 1 .. n
  <2> HIDE DEF R, n
  <2>1. k \in 1 .. Len(hot) + n /\ ~(k <= Len(hot)) /\ k - Len(hot) = k
    BY <1>1, <1>3, SMT
  <2>2. list[k] = IF k <= Len(hot) THEN hot[k] ELSE counted[k - Len(hot)]
    BY <1>2, <1>3, <2>1, ConcatProperties
  <2> QED
    BY <2>1, <2>2
<1> HIDE DEF list
<1>6. ASSUME NEW k \in DOMAIN list
      PROVE  raised[k] \in R /\ raised[k].state = list[k].state
  <2>1. list[k] \in R
    BY <1>4
  <2>2. up(k) \in Nat
    <3>1. k <= n => k - 1 \in States(table)
      <4> HAVE k <= n
      <4>1. k \in 1 .. n
        BY <1>1, <1>3, <1>4, SMT
      <4> QED
        BY <1>1, <4>1
    <3> QED
      BY <3>1
  <2>3. raised[k] = [list[k] EXCEPT !.times = @ + up(k)]
    OBVIOUS
  <2> HIDE DEF up, raised
  <2> QED
    BY <2>1, <2>2, <2>3 DEF Records
<1>7. raised \in Seq(R) /\ Len(raised) = Len(hot) + n /\ DOMAIN raised = DOMAIN list
  <2>1. Len(hot) + n \in Nat
    BY <1>1, <1>3
  <2>2. DOMAIN raised = DOMAIN list
    OBVIOUS
  <2>3. raised \in [1 .. Len(hot) + n -> R]
    <3>1. raised = [k \in 1 .. Len(hot) + n |-> [list[k] EXCEPT !.times = @ + up(k)]]
      BY <1>4
    <3>2. \A k \in 1 .. Len(hot) + n : raised[k] \in R
      BY <1>4, <1>6
    <3> DEFINE record(k) == [list[k] EXCEPT !.times = @ + up(k)]
    <3>3. raised = [k \in 1 .. Len(hot) + n |-> record(k)]
      BY <3>1
    <3> HIDE DEF record, raised, R, n
    <3> QED
      BY <3>2, <3>3
  <2> HIDE DEF raised, R, n
  <2> QED
    BY <2>1, <2>2, <2>3, MakesSeq
<1>8. sorted = ByTimes(raised, stable)
  BY DEF Profiled, list, counted
<1> HIDE DEF raised, sorted
<1>9. /\ sorted \in Seq(R) /\ Len(sorted) = Len(raised) /\ Sorted(sorted)
      /\ \E at : Moves(at, raised, sorted)
  BY <1>7, <1>8, ByTimesFacts DEF Records
<1>10. Len(sorted) = 0 \/ Len(sorted) >= n
  BY <1>1, <1>3, <1>7, <1>9, SMT
<1>11. ASSUME Len(sorted) = n PROVE IsArrangement(sorted, table)
  <2>1. Len(hot) = 0 /\ DOMAIN list = 1 .. n
    <3>1. Len(hot) + n = n
      BY <1>7, <1>9, <1>11
    <3>2. Len(hot) = 0
      <4> HIDE DEF n
      <4> QED
        BY <1>1, <1>3, <3>1, SMT
    <3> QED
      BY <1>4, <3>1, <3>2
  <2>2. PICK at : Moves(at, raised, sorted)
    BY <1>9
  <2>3. /\ at \in [1 .. n -> 1 .. n] /\ DOMAIN sorted = 1 .. n
        /\ \A k \in 1 .. n : sorted[k] = raised[at[k]]
        /\ \A i, j \in 1 .. n : at[i] = at[j] => i = j
    <3>1. /\ at \in Bijection(1 .. n, 1 .. n)
          /\ sorted = [k \in 1 .. n |-> raised[at[k]]]
      BY <1>7, <2>1, <2>2 DEF Moves
    <3>2. /\ at \in [1 .. n -> 1 .. n]
          /\ \A i, j \in 1 .. n : at[i] = at[j] => i = j
      <4> DEFINE D == 1 .. n
      <4>1. at \in Bijection(D, D)
        BY <3>1
      <4> HIDE DEF D
      <4>2. at \in [D -> D] /\ \A i, j \in D : at[i] = at[j] => i = j
        BY <4>1, Fun_BijectionProperties
      <4> QED
        BY <4>2 DEF D
    <3> QED
      BY <3>1, <3>2
  <2>4. ASSUME NEW k \in 1 .. n PROVE sorted[k].state = at[k] - 1
    <3>1. at[k] \in 1 .. n
      BY <2>3
    <3>2. raised[at[k]].state = list[at[k]].state
      BY <1>6, <2>1, <3>1
    <3>3. list[at[k]] = counted[at[k]] /\ counted[at[k]].state = at[k] - 1
      BY <1>2, <1>5, <2>1, <3>1
    <3> QED
      BY <2>3, <3>2, <3>3
  <2>5. ASSUME NEW i \in 1 .. n, NEW j \in 1 .. n, sorted[i].state = sorted[j].state PROVE i = j
    <3>1. at[i] - 1 = at[j] - 1 /\ at[i] \in 1 .. n /\ at[j] \in 1 .. n
      BY <2>3, <2>4, <2>5
    <3>2. at[i] = at[j]
      BY <1>1, <3>1, SMT
    <3> QED
      BY <2>3, <3>2
  <2> QED
    BY <1>11, <2>3, <2>5 DEF IsArrangement
<1> QED
  BY <1>9, <1>10, <1>11 DEF IsProfile, sorted


\* The counts are natural numbers.
LEMMA ArrowsToFacts ==
    ASSUME NEW table, IsTable(table)
    PROVE  [q \in States(table) |-> ArrowsTo(table, q)] \in [States(table) -> Nat]
<1> SUFFICES ASSUME NEW q \in States(table) PROVE ArrowsTo(table, q) \in Nat
  OBVIOUS
<1> DEFINE all == UNION {{p} \X DOMAIN Row(table, p) : p \in States(table)}
           arrows == {arrow \in all : Row(table, arrow[1])[arrow[2]] = q}
<1>1. arrows \in SUBSET (States(table) \X Columns(table))
  <2>1. \A p \in States(table) : DOMAIN Row(table, p) = Columns(table)
    BY TableFacts
  <2> QED
    BY <2>1
<1>2. IsFiniteSet(States(table) \X Columns(table))
  <2>1. IsFiniteSet(States(table)) /\ IsFiniteSet(Columns(table))
    BY TableFacts
  <2> QED
    BY <2>1, FS_Product
<1> HIDE DEF arrows
<1>3. IsFiniteSet(arrows)
  BY <1>1, <1>2, FS_Subset
<1>4. Cardinality(arrows) \in Nat
  BY <1>3, FS_CardinalityType
<1> QED
  BY <1>4 DEF ArrowsTo, arrows

LEMMA ReadInFacts ==
    ASSUME NEW table, NEW run, NEW streams, IsSession(table, run, streams), NEW todo
    PROVE  [q \in States(table) |-> ReadIn(table, run, todo, q)] \in [States(table) -> Nat]
<1> SUFFICES ASSUME NEW q \in States(table) PROVE ReadIn(table, run, todo, q) \in Nat
  OBVIOUS
<1> DEFINE all == Chunks(run) \X (0 .. ChunkLength(run) - 1)
           places == {at \in all :
                        Reached(table, todo[at[1]], SubSeq(Chunk(run, at[1]), 1, at[2])) = q}
<1>1. IsFiniteSet(all)
  <2>1. /\ Chunks(run) = 0 .. NumChunks(run) - 1
        /\ NumChunks(run) \in Nat /\ ChunkLength(run) \in Nat
    BY RunFacts
  <2>2. IsFiniteSet(Chunks(run)) /\ IsFiniteSet(0 .. ChunkLength(run) - 1)
    BY <2>1, CountFacts
  <2> QED
    BY <2>2, FS_Product
<1>2. places \in SUBSET all
  OBVIOUS
<1> HIDE DEF places, all
<1>3. IsFiniteSet(places)
  BY <1>1, <1>2, FS_Subset
<1>4. Cardinality(places) \in Nat
  BY <1>3, FS_CardinalityType
<1> QED
  BY <1>4 DEF ReadIn, places, all

LEMMA TimesReachedFacts ==
    ASSUME NEW table, IsTable(table), NEW window, NEW q
    PROVE  /\ TimesReached(table, window, q) \in Nat
           /\ \A p \in States(table) :
                 Reached(table, p, window) = q => TimesReached(table, window, q) > 0
<1> DEFINE from == {p \in States(table) : Reached(table, p, window) = q}
<1>1. IsFiniteSet(States(table)) /\ from \in SUBSET States(table)
  BY TableFacts
<1>2. \A p \in States(table) : Reached(table, p, window) = q => from # {}
  OBVIOUS
<1>3. TimesReached(table, window, q) = Cardinality(from)
  BY DEF TimesReached
<1> HIDE DEF from
<1>4. IsFiniteSet(from)
  BY <1>1, FS_Subset
<1>5. Cardinality(from) \in Nat /\ (Cardinality(from) = 0 <=> from = {})
  BY <1>4, FS_CardinalityType, FS_EmptySet
<1> QED
  BY <1>2, <1>3, <1>5, SMT

\* There are at least one and at most as many slots as states.
LEMMA NumSlotsFacts ==
    ASSUME NEW table, IsTable(table), NEW slot \in Nat \ {0}
    PROVE  NumSlots(table, slot) \in 1 .. Len(table.next)
<1>1. Len(table.next) \in Nat \ {0} /\ MAXSLOT \in Nat \ {0}
  BY TableFacts, FSMAssumption
<1> QED
  BY <1>1, SMT DEF NumSlots

\* What PredictionsCover says of one chunk.
Covered(table, slots, window, begins) ==
    \/ \E s \in slots : s.state = begins /\ s.times > 0
    \/ /\ Cardinality(slots) < Len(table.next)
       /\ \A s \in slots : s.times >= TimesReached(table, window, begins)

\* A state that bytes lead to is among those that they most lead to, or those are fewer
\* and lead to more often.
LEMMA MostReached ==
    ASSUME NEW table, IsTable(table), NEW window, NEW begins \in States(table),
           TimesReached(table, window, begins) > 0,
           NEW m \in 1 .. Len(table.next), NEW stable \in BOOLEAN
    PROVE  LET times == [q \in States(table) |-> TimesReached(table, window, q)]
           IN  Covered(table, ToSet(SubSeq(ByTimes(Counted(table, times), stable), 1, m)),
                       window, begins)
<1> DEFINE n == Len(table.next)
           R == Records(table)
           times == [q \in States(table) |-> TimesReached(table, window, q)]
           counted == Counted(table, times)
           sorted == ByTimes(counted, stable)
           slots == SubSeq(sorted, 1, m)
<1>1. n \in Nat \ {0} /\ begins + 1 \in 1 .. n /\ begins + 1 - 1 = begins
  BY TableFacts
<1>2. times \in [States(table) -> Nat] /\ times[begins] = TimesReached(table, window, begins)
  BY TimesReachedFacts
<1> HIDE DEF times
<1>3. /\ counted \in Seq(R) /\ Len(counted) = n
      /\ \A k \in 1 .. n : counted[k].state = k - 1 /\ counted[k].times = times[k - 1]
  BY <1>2, CountedFacts
<1> HIDE DEF counted
<1>4. /\ sorted \in Seq(R) /\ Len(sorted) = n /\ Sorted(sorted)
      /\ \E at : Moves(at, counted, sorted)
  BY <1>3, ByTimesFacts DEF Records
<1> HIDE DEF sorted
<1>5. PICK at : Moves(at, counted, sorted)
  BY <1>4
<1>6. DOMAIN counted = 1 .. n /\ DOMAIN sorted = 1 .. n
  BY <1>3, <1>4
<1>7. PICK k \in 1 .. n : at[k] = begins + 1
  <2>1. at \in Surjection(1 .. n, 1 .. n)
    <3> DEFINE D == 1 .. n
    <3>1. at \in Bijection(D, D)
      BY <1>5, <1>6 DEF Moves
    <3> HIDE DEF D
    <3>2. at \in Surjection(D, D)
      BY <3>1, Fun_BijectionProperties
    <3> QED
      BY <3>2 DEF D
  <2> QED
    BY <1>1, <2>1 DEF Surjection
<1>8. sorted[k].state = begins /\ sorted[k].times = times[begins]
  <2>1. sorted[k] = counted[begins + 1]
    BY <1>5, <1>6, <1>7 DEF Moves
  <2>2. PICK j \in 1 .. n : j = begins + 1 /\ j - 1 = begins
    <3>1. begins \in 0 .. n - 1 /\ n \in Nat
      BY TableFacts
    <3> HIDE DEF n
    <3> QED
      BY <3>1, SMT
  <2>3. counted[j].state = j - 1 /\ counted[j].times = times[j - 1]
    BY <1>3
  <2> QED
    BY <2>1, <2>2, <2>3
<1>9. /\ slots \in Seq(R) /\ Len(slots) = m /\ DOMAIN slots = 1 .. m
      /\ \A i \in 1 .. m : slots[i] = sorted[i] /\ i \in 1 .. n
  <2>1. m \in Nat /\ 0 \in Nat /\ 0 <= m /\ m <= Len(sorted) /\ m - 0 = m /\ 0 + 1 = 1
    BY <1>1, <1>4, SMT
  <2>2. \A i \in 1 .. m : i \in 1 .. n /\ 0 + i = i
    BY <1>1, SMT
  <2> HIDE DEF n, R
  <2>3. /\ SubSeq(sorted, 0 + 1, m) \in Seq(R) /\ Len(SubSeq(sorted, 0 + 1, m)) = m - 0
        /\ \A i \in 1 .. m - 0 : SubSeq(sorted, 0 + 1, m)[i] = sorted[0 + i]
    BY <1>4, <2>1, SliceFacts
  <2>4. slots \in Seq(R) /\ Len(slots) = m /\ \A i \in 1 .. m : slots[i] = sorted[i]
    BY <2>1, <2>2, <2>3
  <2> HIDE DEF slots
  <2> QED
    BY <2>2, <2>4
<1> HIDE DEF slots
<1>10. ToSet(slots) = {sorted[i] : i \in 1 .. m}
  BY <1>9 DEF ToSet
<1>11. CASE k <= m
  <2>1. sorted[k] \in ToSet(slots)
    <3>1. k \in 1 .. m
      BY <1>11, SMT
    <3> QED
      BY <1>10, <3>1
  <2> QED
    BY <1>2, <1>8, <2>1 DEF Covered, slots, sorted, counted, times
<1>12. CASE ~(k <= m)
  <2>1. Cardinality(ToSet(slots)) < n
    <3> DEFINE f == [i \in 1 .. m |-> sorted[i]]
    <3>1. f \in Surjection(1 .. m, ToSet(slots))
      BY <1>10 DEF Surjection
    <3>2. IsFiniteSet(1 .. m) /\ Cardinality(1 .. m) = m
      <4>1. 1 \in Int /\ m \in Int /\ ~(1 > m) /\ m - 1 + 1 = m
        BY SMT
      <4>2. IsFiniteSet(1 .. m) /\ Cardinality(1 .. m) = IF 1 > m THEN 0 ELSE m - 1 + 1
        BY <4>1, FS_Interval
      <4> QED
        BY <4>1, <4>2
    <3> HIDE DEF f
    <3>3. IsFiniteSet(ToSet(slots)) /\ Cardinality(ToSet(slots)) <= m
      BY <3>1, <3>2, FS_Surjection
    <3>4. Cardinality(ToSet(slots)) \in Nat
      BY <3>3, FS_CardinalityType
    <3> QED
      BY <1>12, <3>3, <3>4, SMT
  <2>2. ASSUME NEW s \in ToSet(slots) PROVE s.times >= TimesReached(table, window, begins)
    <3>1. PICK i \in 1 .. m : s = sorted[i]
      BY <1>10
    <3>2. i < k /\ i \in 1 .. n
      BY <1>9, <1>12, SMT
    <3>3. sorted[i].times >= sorted[k].times
      BY <1>4, <1>6, <3>2 DEF Sorted
    <3> QED
      BY <1>2, <1>8, <3>1, <3>3
  <2> QED
    BY <2>1, <2>2 DEF Covered, slots, sorted, counted, times
<1> QED
  BY <1>11, <1>12


\* The bytes before a chunk lead to the state that it begins in.
LEMMA PredictedFacts ==
    ASSUME NEW table, NEW run, IsSession(table, run, 1),
           NEW tid \in Chunks(run) \ {0}, ChunkLength(run) * tid >= LOOKBACK,
           tid % run.threads # 0,
           NEW slot \in Nat \ {0}, NEW stable \in BOOLEAN, NEW garbage
    PROVE  LET end == ChunkLength(run) * tid
           IN  Covered(table,
                       ToSet(Predicted(table, run, tid, NumSlots(table, slot), stable, garbage)),
                       SubSeq(run.input, end - LOOKBACK + 1, end),
                       GroundTruth(table, run, 1)[tid - 1])
<1> DEFINE length == ChunkLength(run)
           in == run.input
           end == length * tid
           window == SubSeq(in, end - LOOKBACK + 1, end)
           begins == GroundTruth(table, run, 1)[tid - 1]
           m == NumSlots(table, slot)
           times == [q \in States(table) |-> TimesReached(table, window, q)]
<1>1. /\ IsTable(table) /\ length \in Nat /\ in \in Seq(Columns(table)) /\ Len(in) \in Nat
      /\ run.threads \in Nat \ {0}
  BY RunFacts
<1>2. tid \in Chunks(run) /\ tid \in Nat /\ tid - 1 \in Chunks(run) /\ tid # 0
  BY ChunkFacts
<1>3. /\ end \in Nat /\ end >= 2 /\ end <= Len(in) /\ end = (tid - 1 + 1) * length
      /\ length # 0
  <2>1. end \in Nat /\ end = tid * length /\ (length = 0 => end = 0)
    BY <1>1, <1>2, ProductFacts
  <2>2. end >= 2
    BY DEF LOOKBACK
  <2>3. (tid - 1 + 1) * length <= Len(in)
    BY <1>2, ChunkFacts
  <2>4. tid - 1 + 1 = tid
    BY <1>2, SMT
  <2> QED
    BY <2>1, <2>2, <2>3, <2>4
<1>4. table.start \in States(table)
  BY <1>1, TableFacts
<1>5. begins = Reached(table, table.start, SubSeq(in, 0 + 1, end)) /\ begins \in States(table)
  <2>1. begins \in States(table)
    BY <1>2, TruthFacts
  <2>2. begins = Reached(table, table.start, SubSeq(in, 0 + 1, (tid - 1 + 1) * length))
    BY <1>2, <1>3, TruthFacts
  <2> QED
    BY <1>3, <2>1, <2>2
<1> HIDE DEF end, in, length, begins
<1>6. /\ end - 2 \in Nat /\ 0 <= end - 2 /\ end - 2 <= end /\ end - (end - 2) = 2
      /\ end - LOOKBACK + 1 = end - 2 + 1 /\ 0 \in Nat
  BY <1>3, SMT DEF LOOKBACK
<1>7. /\ window \in Seq(Columns(table)) /\ Len(window) = 2
      /\ \A i \in 1 .. 2 : window[i] = in[end - 2 + i]
  <2> DEFINE C == Columns(table)
             a == end - 2
  <2>1. /\ SubSeq(in, a + 1, end) \in Seq(C) /\ Len(SubSeq(in, a + 1, end)) = end - a
        /\ \A i \in 1 .. end - a : SubSeq(in, a + 1, end)[i] = in[a + i]
    <3>1. in \in Seq(C) /\ a \in Nat /\ end \in Nat /\ a <= end /\ end <= Len(in)
      BY <1>1, <1>3, <1>6
    <3> HIDE DEF C, a
    <3> QED
      BY <3>1, SliceFacts
  <2> HIDE DEF C
  <2> QED
    BY <1>6, <2>1 DEF C
<1>8. TimesReached(table, window, begins) > 0
  <2> DEFINE p == Reached(table, table.start, SubSeq(in, 0 + 1, end - 2))
  <2>1. p \in States(table)
    <3>1. SubSeq(in, 0 + 1, end - 2) \in Seq(Columns(table))
      <4>1. end - 2 <= Len(in)
        BY <1>1, <1>3, <1>6, SMT
      <4> QED
        BY <1>1, <1>6, <4>1, SliceFacts
    <3> QED
      BY <1>1, <1>4, <3>1, PathFacts
  <2>2. begins = Reached(table, p, SubSeq(in, end - 2 + 1, end))
    <3> DEFINE a == end - 2
               zero == 0
    <3>1. zero \in Nat /\ a \in Nat /\ zero <= a /\ a <= end /\ end <= Len(in) /\ end \in Nat
      BY <1>3, <1>6
    <3>2. begins = Reached(table, table.start, SubSeq(in, zero + 1, end))
      BY <1>5
    <3> HIDE DEF a, zero
    <3>3. begins = Reached(table, Reached(table, table.start, SubSeq(in, zero + 1, a)),
                           SubSeq(in, a + 1, end))
      BY <1>1, <1>4, <3>1, <3>2, SplitReached
    <3> QED
      BY <3>3 DEF a, zero
  <2>3. window = SubSeq(in, end - 2 + 1, end)
    BY <1>6
  <2> HIDE DEF p, window
  <2>4. Reached(table, p, window) = begins
    BY <2>2, <2>3
  <2> QED
    BY <1>1, <2>1, <2>4, TimesReachedFacts
<1>9. LookBack(run, tid, garbage) = window
  <2> DEFINE byte(i) == IF length * tid - LOOKBACK + i < 1 THEN garbage
                        ELSE in[length * tid - LOOKBACK + i]
  <2>1. LookBack(run, tid, garbage) = [i \in 1 .. 2 |-> byte(i)]
    BY DEF LookBack, LOOKBACK, length, in
  <2>2. ASSUME NEW i \in 1 .. 2 PROVE byte(i) = window[i]
    <3>1. end - 2 + i >= 1 /\ end - LOOKBACK + i = end - 2 + i
      BY <1>3, SMT DEF LOOKBACK
    <3>2. length * tid = end
      BY DEF end
    <3>3. ~(end - LOOKBACK + i < 1)
      BY <1>3, SMT DEF LOOKBACK
    <3> HIDE DEF window
    <3> QED
      BY <1>7, <3>1, <3>2, <3>3
  <2>3. window = [i \in 1 .. 2 |-> window[i]]
    <3> DEFINE C == Columns(table)
    <3>1. window \in Seq(C) /\ Len(window) = 2
      BY <1>7
    <3> HIDE DEF window, C
    <3> QED
      BY <3>1
  <2> HIDE DEF byte, window
  <2> QED
    BY <2>1, <2>2, <2>3
<1>10. m \in 1 .. Len(table.next)
  BY <1>1, NumSlotsFacts
<1>11. Predicted(table, run, tid, m, stable, garbage)
          = SubSeq(ByTimes(Counted(table, times), stable), 1, m)
  <2> HIDE DEF m, window
  <2> QED
    BY <1>9 DEF Predicted
<1>12. Covered(table, ToSet(SubSeq(ByTimes(Counted(table, times), stable), 1, m)), window, begins)
  <2> HIDE DEF m, window
  <2> QED
    BY <1>1, <1>5, <1>8, <1>10, MostReached
<1> HIDE DEF times, m
<1> QED
  BY <1>11, <1>12 DEF m, window, end, in, begins, length

\* What HotRowsExact says of the entry that cur hashes to.
Exact(table, hot, cur, entry) ==
    /\ entry.row = Row(table, entry.state)
    /\ \E other \in ToSet(hot) : other.state = entry.state /\ other.times >= cur.times

\* An entry has the row of its state, and the first place with its hash.
LEMMA LoadFacts ==
    ASSUME NEW table, NEW hot, Sorted(hot), NEW A, hot \in Seq([state : A, times : Nat]),
           A \subseteq Nat, NEW threshold \in Nat \ {0}, NEW scalevar \in Nat,
           NEW cur \in ToSet(hot)
    PROVE  Exact(table, hot, cur,
                 LoadHotArea(table, hot, threshold, scalevar)
                     [HashOf(cur.state, threshold, scalevar)])
<1> DEFINE D == DOMAIN hot
           h == HashOf(cur.state, threshold, scalevar)
           places == Hashed(hot, threshold, scalevar, h)
           first == FirstOf(places)
           entry == LoadHotArea(table, hot, threshold, scalevar)[h]
<1>1. /\ D = 1 .. Len(hot) /\ Len(hot) \in Nat
      /\ \A k \in D : hot[k].state \in Nat /\ hot[k].times \in Nat
  <2> DEFINE R == [state : A, times : Nat]
  <2>1. hot \in Seq(R)
    OBVIOUS
  <2> HIDE DEF R
  <2>2. D = 1 .. Len(hot) /\ Len(hot) \in Nat /\ \A k \in D : hot[k] \in R
    BY <2>1
  <2> QED
    BY <2>2 DEF R
<1>2. PICK k \in D : cur = hot[k]
  BY DEF ToSet
<1>3. h \in 0 .. threshold - 1
  <2>1. cur.state * scalevar \in Nat
    BY <1>1, <1>2, ProductFacts
  <2> QED
    BY <2>1, DivisionFacts DEF HashOf
<1>4. k \in places /\ places \in SUBSET Nat
  BY <1>1, <1>2 DEF Hashed
<1>5. first \in places /\ first <= k
  <2> HIDE DEF places
  <2>1. places # {}
    BY <1>4
  <2> QED
    BY <1>4, <2>1, MinIsLeast DEF FirstOf
<1>6. first \in D
  BY <1>5 DEF Hashed
<1>7. entry = [state |-> hot[first].state, row |-> Row(table, hot[first].state)]
  <2> HIDE DEF h
  <2> QED
    BY <1>3, <1>4 DEF LoadHotArea
<1>8. hot[first].times >= cur.times
  <2>1. CASE first = k
    BY <1>1, <1>2, <2>1
  <2>2. CASE first # k
    <3>1. first < k
      <4> HIDE DEF first
      <4> QED
        BY <1>1, <1>5, <1>6, <2>2, SMT
    <3> QED
      BY <1>2, <1>6, <3>1 DEF Sorted
  <2> QED
    BY <2>1, <2>2
<1>9. hot[first] \in ToSet(hot)
  BY <1>6 DEF ToSet
<1> HIDE DEF entry, first
<1>10. entry.state = hot[first].state /\ entry.row = Row(table, entry.state)
  BY <1>7
<1> QED
  BY <1>8, <1>9, <1>10 DEF entry, Exact


-----------------------------------------------------------------------------
(* Sessions *)

Fields == {"step", "table", "run", "streams", "truth", "hot", "slots", "original",
           "renumbered", "todo", "results", "entries", "threshold", "scalevar"}

\* The objects of a session that has opened.
Objects ==
    /\ At({"none"}) => fsm.hot = <<>>
    /\ ~At({"none", "exited"}) =>
          /\ IsSession(fsm.table, fsm.run, fsm.streams)
          /\ fsm.truth = GroundTruth(fsm.table, fsm.run, fsm.streams)
          /\ IsProfile(fsm.table, fsm.hot)

\* The table, the translation and the states to begin in, all renumbered alike.
Renumbered ==
    At({"renumbered"}) =>
        /\ Translates(fsm.table, fsm.original, OriginalToNew(fsm.original))
        /\ fsm.renumbered = TransformTable(fsm.table, fsm.original)
        /\ fsm.todo = [k \in Chunks(fsm.run) |-> OriginalToNew(fsm.original)[Todo[k]]]

LibraryInv ==
    /\ DOMAIN fsm = Fields /\ Objects /\ Renumbered
    /\ PredictionsCover /\ RenumberingInvisible /\ HotRowsExact

\* The states that chunks begin in are those of the sequential run.
LEMMA TodoFacts ==
    ASSUME Objects, ~At({"none", "exited"})
    PROVE  \A k \in Chunks(fsm.run) :
               /\ Todo[k] = Begin(fsm.table, fsm.run, fsm.streams, k)
               /\ Todo[k] \in States(fsm.table)
               /\ fsm.truth[k] = Reached(fsm.table, Todo[k], Chunk(fsm.run, k))
               /\ Chunk(fsm.run, k) \in Seq(Columns(fsm.table))
<1>1. /\ IsSession(fsm.table, fsm.run, fsm.streams)
      /\ fsm.truth = GroundTruth(fsm.table, fsm.run, fsm.streams)
  BY DEF Objects
<1> SUFFICES ASSUME NEW k \in Chunks(fsm.run)
             PROVE  /\ Todo[k] = Begin(fsm.table, fsm.run, fsm.streams, k)
                    /\ Todo[k] \in States(fsm.table)
                    /\ fsm.truth[k] = Reached(fsm.table, Todo[k], Chunk(fsm.run, k))
                    /\ Chunk(fsm.run, k) \in Seq(Columns(fsm.table))
  OBVIOUS
<1>2. Todo[k] = Begin(fsm.table, fsm.run, fsm.streams, k)
  BY <1>1 DEF Todo, Begin
<1>3. Chunk(fsm.run, k) \in Seq(Columns(fsm.table))
  BY <1>1, ChunkFacts
<1> QED
  BY <1>1, <1>2, <1>3, TruthFacts

LEMMA EmptyProfile ==
    ASSUME NEW table, IsTable(table)
    PROVE  IsProfile(table, <<>>)
<1>1. Len(table.next) # 0
  BY TableFacts
<1>2. <<>> \in Seq(Records(table)) /\ Len(<<>>) = 0
  OBVIOUS
<1>3. Sorted(<<>>)
  BY DEF Sorted
<1> QED
  BY <1>1, <1>2, <1>3 DEF IsProfile

\* Initially no session is open.
LEMMA InitLibrary ==
    ASSUME FSMInit
    PROVE  LibraryInv
<1>1. fsm = NoSession
  BY DEF FSMInit
<1>2. DOMAIN fsm = Fields /\ fsm.step = "none" /\ fsm.hot = <<>>
  BY <1>1 DEF NoSession, Fields
<1> QED
  BY <1>2 DEF LibraryInv, Objects, Renumbered, PredictionsCover, RenumberingInvisible,
              HotRowsExact, At

\* The steps after which only the objects matter.
LEMMA NothingShown ==
    ASSUME fsm'.step \in {"none", "exited", "verified", "profiled"}
    PROVE  Renumbered' /\ PredictionsCover' /\ RenumberingInvisible' /\ HotRowsExact'
<1>1. /\ ~At({"renumbered"})' /\ ~At({"predicted"})'
      /\ ~At({"replayed"})' /\ ~At({"loaded"})'
  BY DEF At
<1> QED
  BY <1>1, Zenon DEF Renumbered, PredictionsCover, RenumberingInvisible, HotRowsExact

LEMMA OpensLibrary ==
    ASSUME LibraryInv, Opens
    PROVE  LibraryInv'
<1>1. PICK table, run, streams : IsSession(table, run, streams) /\ RunCPU(table, run, streams)
  BY DEF Opens
<1>2. DOMAIN fsm = Fields /\ fsm.hot = <<>>
  BY <1>1 DEF LibraryInv, Objects, RunCPU
<1> DEFINE truth == GroundTruth(table, run, streams)
<1>3. fsm' = [fsm EXCEPT !.step = "verified", !.table = table, !.run = run,
                         !.streams = streams, !.truth = truth]
  BY <1>1 DEF RunCPU
<1> HIDE DEF truth
<1>4. /\ DOMAIN fsm' = Fields /\ fsm'.step = "verified" /\ fsm'.table = table
      /\ fsm'.run = run /\ fsm'.streams = streams /\ fsm'.truth = truth /\ fsm'.hot = fsm.hot
  BY <1>2, <1>3 DEF Fields
<1>5. IsProfile(table, <<>>)
  BY <1>1, EmptyProfile DEF IsSession
<1>6. Objects'
  BY <1>1, <1>2, <1>4, <1>5 DEF Objects, At, truth
<1>7. Renumbered' /\ PredictionsCover' /\ RenumberingInvisible' /\ HotRowsExact'
  BY <1>4, NothingShown
<1> QED
  BY <1>4, <1>6, <1>7 DEF LibraryInv

LEMMA StartSpecLibrary ==
    ASSUME LibraryInv, NEW slot \in 1 .. MAXSLOT + 1, NEW stable \in BOOLEAN, NEW garbage,
           StartSpec(slot, stable, garbage)
    PROVE  LibraryInv'
<1>1. DOMAIN fsm = Fields /\ At({"verified"}) /\ ~At({"none", "exited"})
  BY DEF LibraryInv, StartSpec, At
<1>2. /\ IsSession(fsm.table, fsm.run, fsm.streams) /\ IsProfile(fsm.table, fsm.hot)
      /\ fsm.truth = GroundTruth(fsm.table, fsm.run, fsm.streams)
  BY <1>1 DEF LibraryInv, Objects
<1> DEFINE predicted(tid) == Predicted(fsm.table, fsm.run, tid, NumSlots(fsm.table, slot),
                                       stable, garbage)
           slots == [tid \in Chunks(fsm.run) |-> predicted(tid)]
<1>3. fsm' = [fsm EXCEPT !.step = "predicted", !.slots = slots]
  BY DEF StartSpec
<1> HIDE DEF slots
<1>4. /\ DOMAIN fsm' = Fields /\ fsm'.step = "predicted" /\ fsm'.slots = slots
      /\ fsm'.table = fsm.table /\ fsm'.run = fsm.run /\ fsm'.streams = fsm.streams
      /\ fsm'.truth = fsm.truth /\ fsm'.hot = fsm.hot
  BY <1>1, <1>3 DEF Fields
<1>5. Objects'
  BY <1>2, <1>4 DEF Objects, At
<1>6. ASSUME fsm.streams = 1, NEW tid \in Chunks(fsm.run) \ {0},
             ChunkLength(fsm.run) * tid >= LOOKBACK, tid % fsm.run.threads # 0
      PROVE  LET end == ChunkLength(fsm.run) * tid
             IN  Covered(fsm.table, ToSet(slots[tid]),
                         SubSeq(fsm.run.input, end - LOOKBACK + 1, end), fsm.truth[tid - 1])
  <2>1. slots[tid] = predicted(tid)
    BY DEF slots
  <2>2. slot \in Nat \ {0}
    BY FSMAssumption
  <2>3. IsSession(fsm.table, fsm.run, 1) /\ fsm.truth = GroundTruth(fsm.table, fsm.run, 1)
    BY <1>2, <1>6
  <2> HIDE DEF predicted
  <2> QED
    BY <1>6, <2>1, <2>2, <2>3, PredictedFacts DEF predicted
<1>7. PredictionsCover'
  <2> SUFFICES ASSUME fsm.streams = 1, NEW tid \in Chunks(fsm.run) \ {0},
                      ChunkLength(fsm.run) * tid >= LOOKBACK, tid % fsm.run.threads # 0
               PROVE  LET end == ChunkLength(fsm.run) * tid
                      IN  Covered(fsm.table, ToSet(slots[tid]),
                                  SubSeq(fsm.run.input, end - LOOKBACK + 1, end),
                                  fsm.truth[tid - 1])
    BY <1>4, Zenon DEF PredictionsCover, Covered
  <2> QED
    BY <1>6
<1>8. ~At({"renumbered"})' /\ ~At({"replayed"})' /\ ~At({"loaded"})'
  BY <1>4 DEF At
<1> QED
  BY <1>4, <1>5, <1>7, <1>8, Zenon DEF LibraryInv, Renumbered, RenumberingInvisible, HotRowsExact

\* What the two ways of profiling do.
LEMMA ProfileLibrary ==
    ASSUME LibraryInv, At({"verified", "profiled"}), NEW stable \in BOOLEAN,
           NEW visits \in [States(fsm.table) -> Nat],
           fsm' = [fsm EXCEPT !.step = "profiled",
                              !.hot = Profiled(@, fsm.table, visits, stable)]
    PROVE  LibraryInv'
<1>1. DOMAIN fsm = Fields /\ ~At({"none", "exited"})
  BY DEF LibraryInv, At
<1>2. /\ IsSession(fsm.table, fsm.run, fsm.streams) /\ IsProfile(fsm.table, fsm.hot)
      /\ fsm.truth = GroundTruth(fsm.table, fsm.run, fsm.streams)
  BY <1>1 DEF LibraryInv, Objects
<1> DEFINE hot == Profiled(fsm.hot, fsm.table, visits, stable)
<1>3. fsm' = [fsm EXCEPT !.step = "profiled", !.hot = hot]
  OBVIOUS
<1>4. IsProfile(fsm.table, hot)
  BY <1>2, ProfiledFacts DEF IsSession
<1> HIDE DEF hot
<1>5. /\ DOMAIN fsm' = Fields /\ fsm'.step = "profiled" /\ fsm'.hot = hot
      /\ fsm'.table = fsm.table /\ fsm'.run = fsm.run /\ fsm'.streams = fsm.streams
      /\ fsm'.truth = fsm.truth
  BY <1>1, <1>3 DEF Fields
<1>6. Objects'
  BY <1>2, <1>4, <1>5 DEF Objects, At
<1>7. Renumbered' /\ PredictionsCover' /\ RenumberingInvisible' /\ HotRowsExact'
  BY <1>5, NothingShown
<1> QED
  BY <1>5, <1>6, <1>7 DEF LibraryInv


\* The list fits, so the translation that is read off it is one of all the states.
LEMMA RenumberLibrary ==
    ASSUME LibraryInv, NEW slots \in Nat \ {0}, Renumber(slots)
    PROVE  LibraryInv'
<1> DEFINE original == NewToOriginal(fsm.hot, slots)
           new == OriginalToNew(original)
           moved == TransformTable(fsm.table, original)
           todo == [k \in Chunks(fsm.run) |-> new[Todo[k]]]
<1>1. DOMAIN fsm = Fields /\ ~At({"none", "exited"})
  BY DEF LibraryInv, Renumber, At
<1>2. /\ IsSession(fsm.table, fsm.run, fsm.streams) /\ IsProfile(fsm.table, fsm.hot)
      /\ fsm.truth = GroundTruth(fsm.table, fsm.run, fsm.streams)
  BY <1>1 DEF LibraryInv, Objects
<1>3. CASE fsm' = [NoSession EXCEPT !.step = "exited"]
  <2>1. DOMAIN fsm' = Fields /\ fsm'.step = "exited"
    BY <1>3 DEF NoSession, Fields
  <2>2. Objects'
    BY <2>1 DEF Objects, At
  <2>3. Renumbered' /\ PredictionsCover' /\ RenumberingInvisible' /\ HotRowsExact'
    BY <2>1, NothingShown
  <2> QED
    BY <2>1, <2>2, <2>3 DEF LibraryInv
<1>4. CASE /\ Len(fsm.hot) = Len(fsm.table.next)
           /\ fsm' = [fsm EXCEPT !.step = "renumbered", !.original = original,
                                 !.renumbered = moved, !.todo = todo]
  <2>1. Translates(fsm.table, original, new)
    <3>1. IsArrangement(fsm.hot, fsm.table) /\ fsm.hot \in Seq(Records(fsm.table))
      BY <1>2, <1>4 DEF IsProfile
    <3>2. IsTable(fsm.table)
      BY <1>2 DEF IsSession
    <3>3. /\ original \in [States(fsm.table) -> States(fsm.table)]
          /\ \A p, q \in States(fsm.table) : original[p] = original[q] => p = q
      BY <3>1, <3>2, NewToOriginalFacts DEF Records
    <3> HIDE DEF original
    <3> QED
      BY <3>2, <3>3, TranslationFacts
  <2> HIDE DEF original, moved, todo
  <2>2. /\ DOMAIN fsm' = Fields /\ fsm'.step = "renumbered" /\ fsm'.original = original
        /\ fsm'.renumbered = moved /\ fsm'.todo = todo /\ fsm'.table = fsm.table
        /\ fsm'.run = fsm.run /\ fsm'.streams = fsm.streams /\ fsm'.truth = fsm.truth
        /\ fsm'.hot = fsm.hot
    BY <1>1, <1>4 DEF Fields
  <2>3. Objects'
    BY <1>2, <2>2 DEF Objects, At
  <2>4. Todo' = Todo
    BY <2>2 DEF Todo
  <2>5. Renumbered'
    BY <2>1, <2>2, <2>4 DEF Renumbered, moved, todo
  <2>6. ~At({"predicted"})' /\ ~At({"replayed"})' /\ ~At({"loaded"})'
    BY <2>2 DEF At
  <2> QED
    BY <2>2, <2>3, <2>5, <2>6, Zenon
    DEF LibraryInv, PredictionsCover, RenumberingInvisible, HotRowsExact
<1> QED
  BY <1>3, <1>4, Zenon DEF Renumber

\* Translated back, the chunks end where those of the sequential run end.
LEMMA ReplayLibrary ==
    ASSUME LibraryInv, Replay
    PROVE  LibraryInv'
<1> DEFINE result(k) == fsm.original[Reached(fsm.renumbered, fsm.todo[k], Chunk(fsm.run, k))]
           results == [k \in Chunks(fsm.run) |-> result(k)]
<1>1. DOMAIN fsm = Fields /\ At({"renumbered"}) /\ ~At({"none", "exited"})
  BY DEF LibraryInv, Replay, At
<1>2. /\ IsSession(fsm.table, fsm.run, fsm.streams) /\ IsProfile(fsm.table, fsm.hot)
      /\ fsm.truth = GroundTruth(fsm.table, fsm.run, fsm.streams)
      /\ IsTable(fsm.table)
  BY <1>1 DEF LibraryInv, Objects, IsSession
<1>3. /\ Translates(fsm.table, fsm.original, OriginalToNew(fsm.original))
      /\ fsm.renumbered = TransformTable(fsm.table, fsm.original)
      /\ fsm.todo = [k \in Chunks(fsm.run) |-> OriginalToNew(fsm.original)[Todo[k]]]
  BY <1>1 DEF LibraryInv, Renumbered
<1>4. ASSUME NEW k \in Chunks(fsm.run) PROVE result(k) = fsm.truth[k]
  <2>1. /\ Todo[k] \in States(fsm.table)
        /\ fsm.truth[k] = Reached(fsm.table, Todo[k], Chunk(fsm.run, k))
        /\ Chunk(fsm.run, k) \in Seq(Columns(fsm.table))
    BY <1>1, TodoFacts DEF LibraryInv
  <2>2. fsm.todo[k] = OriginalToNew(fsm.original)[Todo[k]]
    BY <1>3
  <2>3. fsm.original[Reached(TransformTable(fsm.table, fsm.original),
                             OriginalToNew(fsm.original)[Todo[k]], Chunk(fsm.run, k))]
            = Reached(fsm.table, Todo[k], Chunk(fsm.run, k))
    BY <1>2, <1>3, <2>1, RenumberedPath
  <2> QED
    BY <1>3, <2>1, <2>2, <2>3
<1>5. results = fsm.truth
  <2>1. fsm.truth \in [Chunks(fsm.run) -> States(fsm.table)]
    BY <1>2, TruthFacts
  <2> HIDE DEF result
  <2> QED
    BY <1>4, <2>1
<1>6. fsm' = [fsm EXCEPT !.step = "replayed", !.results = results]
  BY DEF Replay
<1> HIDE DEF results
<1>7. /\ DOMAIN fsm' = Fields /\ fsm'.step = "replayed" /\ fsm'.results = results
      /\ fsm'.table = fsm.table /\ fsm'.run = fsm.run /\ fsm'.streams = fsm.streams
      /\ fsm'.truth = fsm.truth /\ fsm'.hot = fsm.hot
  BY <1>1, <1>6 DEF Fields
<1>8. Objects'
  BY <1>2, <1>7 DEF Objects, At
<1>9. RenumberingInvisible'
  BY <1>5, <1>7 DEF RenumberingInvisible
<1>10. ~At({"predicted"})' /\ ~At({"renumbered"})' /\ ~At({"loaded"})'
  BY <1>7 DEF At
<1> QED
  BY <1>7, <1>8, <1>9, <1>10, Zenon DEF LibraryInv, PredictionsCover, Renumbered, HotRowsExact

LEMMA LoadHotLibrary ==
    ASSUME LibraryInv, NEW threshold \in Nat \ {0}, NEW scalevar \in Nat,
           LoadHot(threshold, scalevar)
    PROVE  LibraryInv'
<1> DEFINE entries == LoadHotArea(fsm.table, fsm.hot, threshold, scalevar)
<1>1. DOMAIN fsm = Fields /\ ~At({"none", "exited"})
  BY DEF LibraryInv, LoadHot, At
<1>2. /\ IsSession(fsm.table, fsm.run, fsm.streams) /\ IsProfile(fsm.table, fsm.hot)
      /\ fsm.truth = GroundTruth(fsm.table, fsm.run, fsm.streams)
      /\ IsTable(fsm.table)
  BY <1>1 DEF LibraryInv, Objects, IsSession
<1>3. fsm' = [fsm EXCEPT !.step = "loaded", !.threshold = threshold, !.scalevar = scalevar,
                         !.entries = entries]
  BY DEF LoadHot
<1>4. ASSUME NEW cur \in ToSet(fsm.hot)
      PROVE  Exact(fsm.table, fsm.hot, cur, entries[HashOf(cur.state, threshold, scalevar)])
  <2>1. Sorted(fsm.hot) /\ fsm.hot \in Seq([state : States(fsm.table), times : Nat])
    BY <1>2 DEF IsProfile, Records
  <2>2. States(fsm.table) \subseteq Nat
    BY <1>2, TableFacts
  <2> QED
    BY <2>1, <2>2, LoadFacts
<1> HIDE DEF entries
<1>5. /\ DOMAIN fsm' = Fields /\ fsm'.step = "loaded" /\ fsm'.entries = entries
      /\ fsm'.threshold = threshold /\ fsm'.scalevar = scalevar
      /\ fsm'.table = fsm.table /\ fsm'.run = fsm.run /\ fsm'.streams = fsm.streams
      /\ fsm'.truth = fsm.truth /\ fsm'.hot = fsm.hot
  BY <1>1, <1>3 DEF Fields
<1>6. Objects'
  BY <1>2, <1>5 DEF Objects, At
<1>7. HotRowsExact'
  BY <1>4, <1>5, Zenon DEF HotRowsExact, Exact
<1>8. ~At({"predicted"})' /\ ~At({"renumbered"})' /\ ~At({"replayed"})'
  BY <1>5 DEF At
<1> QED
  BY <1>5, <1>6, <1>7, <1>8, Zenon
  DEF LibraryInv, PredictionsCover, Renumbered, RenumberingInvisible

\* A step of the library preserves all of it.
LEMMA NextLibrary ==
    ASSUME LibraryInv, FSMNext
    PROVE  LibraryInv'
<1>1. ASSUME At({"verified"}), NEW slot \in 1 .. MAXSLOT + 1, NEW stable \in BOOLEAN,
             NEW garbage \in Garbage, StartSpec(slot, stable, garbage)
      PROVE  LibraryInv'
  BY <1>1, StartSpecLibrary
<1>2. ASSUME At({"verified", "profiled"})
      PROVE  IsTable(fsm.table) /\ IsSession(fsm.table, fsm.run, fsm.streams)
  BY <1>2 DEF LibraryInv, Objects, At, IsSession
<1>3. ASSUME NEW stable \in BOOLEAN, OfflineHotArea(stable) PROVE LibraryInv'
  <2> DEFINE visits == [q \in States(fsm.table) |-> ArrowsTo(fsm.table, q)]
  <2>1. /\ At({"verified", "profiled"})
        /\ fsm' = [fsm EXCEPT !.step = "profiled",
                              !.hot = Profiled(@, fsm.table, visits, stable)]
    BY <1>3, Zenon DEF OfflineHotArea
  <2>2. visits \in [States(fsm.table) -> Nat]
    BY <1>2, <2>1, ArrowsToFacts
  <2> HIDE DEF visits
  <2> QED
    BY <2>1, <2>2, ProfileLibrary
<1>4. ASSUME NEW stable \in BOOLEAN, OfflineHotAreaWithInput(stable) PROVE LibraryInv'
  <2> DEFINE visits == [q \in States(fsm.table) |-> ReadIn(fsm.table, fsm.run, Todo, q)]
  <2>1. /\ At({"verified", "profiled"})
        /\ fsm' = [fsm EXCEPT !.step = "profiled",
                              !.hot = Profiled(@, fsm.table, visits, stable)]
    BY <1>4, Zenon DEF OfflineHotAreaWithInput
  <2>2. visits \in [States(fsm.table) -> Nat]
    BY <1>2, <2>1, ReadInFacts
  <2> HIDE DEF visits
  <2> QED
    BY <2>1, <2>2, ProfileLibrary
<1>5. ASSUME At({"profiled"}), NEW slots \in {MAXSLOT, Len(fsm.table.next)}, Renumber(slots)
      PROVE  LibraryInv'
  <2>1. IsTable(fsm.table)
    BY <1>2, <1>5 DEF At
  <2>2. slots \in Nat \ {0}
    BY <2>1, TableFacts, FSMAssumption
  <2> QED
    BY <1>5, <2>2, RenumberLibrary
<1>6. ASSUME Replay PROVE LibraryInv'
  BY <1>6, ReplayLibrary
<1>7. ASSUME NEW scalevar \in {1, MAXSLOT}, LoadHot(MAXSLOT, scalevar) PROVE LibraryInv'
  <2>1. scalevar \in Nat /\ MAXSLOT \in Nat \ {0}
    BY FSMAssumption
  <2> QED
    BY <1>7, <2>1, LoadHotLibrary
<1> QED
  BY <1>1, <1>3, <1>4, <1>5, <1>6, <1>7, Zenon DEF FSMNext

\* What an idle step leaves alone.
LEMMA IdleLibrary ==
    ASSUME LibraryInv, UNCHANGED fsm
    PROVE  LibraryInv'
BY DEF LibraryInv, Objects, Renumbered, PredictionsCover, RenumberingInvisible, HotRowsExact,
       At, Todo, Profiles

\* The invariant holds in every session with any table of a DFA and any input.
THEOREM SpecLibrary == FSMSpec => []LibraryInv
<1>1. FSMInit => LibraryInv
  BY InitLibrary
<1>2. LibraryInv /\ [Opens \/ FSMNext]_fsm => LibraryInv'
  BY OpensLibrary, NextLibrary, IdleLibrary
<1> QED
  BY <1>1, <1>2, PTL DEF FSMSpec

\* What the library predicts, renumbers and hashes agrees with the sequential run.
THEOREM SpecLibraryAgrees == FSMSpec => []LibraryAgrees
<1>1. LibraryInv => LibraryAgrees
  BY Zenon DEF LibraryInv, Objects, LibraryAgrees, TablesClosed
<1> QED
  BY <1>1, SpecLibrary, PTL

-----------------------------------------------------------------------------
(* Counting in sequences. *)

\* The elements of q that hold thread t.
Holding(q, t) == {k \in DOMAIN q : q[k].t = t}
HeldIn(q, t) == Cardinality(Holding(q, t))

\* The elements of a queue that hold a thread are finitely many.
LEMMA HoldingFacts ==
    ASSUME NEW S, NEW q \in Seq(S), NEW t
    PROVE  /\ IsFiniteSet(Holding(q, t)) /\ HeldIn(q, t) \in Nat
           /\ Holding(q, t) \in SUBSET (1 .. Len(q))
<1>1. Len(q) \in Nat /\ DOMAIN q = 1 .. Len(q)
  BY LenProperties
<1>2. IsFiniteSet(1 .. Len(q))
  BY <1>1, FS_Interval
<1>3. Holding(q, t) \in SUBSET (1 .. Len(q))
  BY <1>1 DEF Holding
<1> QED
  BY <1>2, <1>3, FS_Subset, FS_CardinalityType DEF HeldIn

\* What two sequences hold, one after the other.
LEMMA HeldInCat ==
    ASSUME NEW S, NEW a \in Seq(S), NEW b \in Seq(S), NEW t
    PROVE  HeldIn(a \o b, t) = HeldIn(a, t) + HeldIn(b, t)
<1> DEFINE m == Len(a)
           n == Len(b)
           A == Holding(a, t)
           B == Holding(b, t)
           C == {k \in m + 1 .. m + n : (a \o b)[k].t = t}
<1>1. /\ m \in Nat /\ n \in Nat /\ DOMAIN a = 1 .. m /\ DOMAIN b = 1 .. n
      /\ a \o b \in Seq(S) /\ DOMAIN (a \o b) = 1 .. m + n
      /\ \A k \in 1 .. m : (a \o b)[k] = a[k]
      /\ \A k \in m + 1 .. m + n : (a \o b)[k] = b[k - m]
  <2>1. m \in Nat /\ n \in Nat /\ DOMAIN a = 1 .. m /\ DOMAIN b = 1 .. n
    BY LenProperties
  <2>2. /\ a \o b \in Seq(S) /\ Len(a \o b) = m + n
        /\ \A k \in 1 .. m + n : (a \o b)[k] = IF k <= m THEN a[k] ELSE b[k - m]
    BY ConcatProperties
  <2>3. DOMAIN (a \o b) = 1 .. m + n
    BY <2>2, LenProperties
  <2> HIDE DEF m, n
  <2>4. \A k \in 1 .. m : k \in 1 .. m + n /\ k <= m
    BY <2>1, SMT
  <2>5. \A k \in m + 1 .. m + n : k \in 1 .. m + n /\ ~(k <= m)
    BY <2>1, SMT
  <2> QED
    BY <2>1, <2>2, <2>3, <2>4, <2>5
<1> HIDE DEF m, n
<1>2. Holding(a \o b, t) = A \union C /\ A \intersect C = {}
  <2>1. /\ 1 .. m + n = (1 .. m) \union (m + 1 .. m + n)
        /\ (1 .. m) \intersect (m + 1 .. m + n) = {}
    BY <1>1, SMT
  <2> QED
    BY <1>1, <2>1 DEF Holding
<1>3. IsFiniteSet(C) /\ Cardinality(C) = Cardinality(B)
  <2> DEFINE f == [k \in B |-> k + m]
  <2>1. B \in SUBSET (1 .. n) /\ IsFiniteSet(B)
    BY HoldingFacts DEF n
  <2>2. \A k \in B : k \in Nat /\ k + m \in m + 1 .. m + n /\ k + m - m = k
    BY <1>1, <2>1, SMT
  <2>3. \A k \in B : k + m \in C
    <3> SUFFICES ASSUME NEW k \in B PROVE k + m \in C
      OBVIOUS
    <3>1. (a \o b)[k + m] = b[k]
      BY <1>1, <2>2
    <3> QED
      BY <2>2, <3>1 DEF Holding
  <2>4. \A j \in C : j - m \in B /\ j - m + m = j
    <3> SUFFICES ASSUME NEW j \in C PROVE j - m \in B /\ j - m + m = j
      OBVIOUS
    <3>1. j \in m + 1 .. m + n /\ (a \o b)[j].t = t /\ (a \o b)[j] = b[j - m]
      BY <1>1
    <3>2. j - m \in 1 .. n /\ j - m + m = j
      BY <1>1, <3>1, SMT
    <3> QED
      BY <1>1, <3>1, <3>2 DEF Holding
  <2> HIDE DEF B, C
  <2>5. f \in Bijection(B, C)
    <3>1. f \in [B -> C]
      BY <2>3
    <3>2. ASSUME NEW j \in B, NEW k \in B, f[j] = f[k] PROVE j = k
      <4>1. j + m = k + m
        BY <3>2
      <4> QED
        BY <1>1, <2>2, <4>1
    <3>3. \A j \in C : \E k \in B : f[k] = j
      BY <2>4
    <3> HIDE DEF f
    <3> QED
      BY <3>1, <3>2, <3>3 DEF Bijection, Injection, Surjection, IsInjective
  <2> QED
    BY <2>1, <2>5, FS_Bijection DEF ExistsBijection
<1>4. IsFiniteSet(A) /\ Cardinality(A) \in Nat /\ Cardinality(B) \in Nat
  BY HoldingFacts DEF HeldIn
<1>5. Cardinality(A \union C) = Cardinality(A) + Cardinality(C) - Cardinality(A \intersect C)
  <2> HIDE DEF A, C
  <2> QED
    BY <1>3, <1>4, FS_Union
<1>6. Cardinality(A \intersect C) = 0
  BY <1>2, FS_EmptySet
<1> HIDE DEF A, B, C
<1>7. Cardinality(A \union C) = Cardinality(A) + Cardinality(B)
  BY <1>3, <1>4, <1>5, <1>6, SMT
<1> QED
  BY <1>2, <1>7 DEF HeldIn, A, B

\* What one entry holds.
LEMMA HeldInOne ==
    ASSUME NEW e, NEW t
    PROVE  HeldIn(<<e>>, t) = IF e.t = t THEN 1 ELSE 0
<1>1. DOMAIN <<e>> = {1} /\ <<e>>[1] = e
  BY SMT
<1>2. Holding(<<e>>, t) = IF e.t = t THEN {1} ELSE {}
  BY <1>1 DEF Holding
<1> QED
  BY <1>2, FS_EmptySet, FS_Singleton DEF HeldIn

\* A queue without the thread does not hold it.
LEMMA HeldInNone ==
    ASSUME NEW S, NEW q \in Seq(S), NEW t, \A k \in 1 .. Len(q) : q[k].t # t
    PROVE  HeldIn(q, t) = 0
<1>1. Holding(q, t) = {}
  BY LenProperties DEF Holding
<1> QED
  BY <1>1, FS_EmptySet DEF HeldIn

\* What is appended, or on top.
LEMMA HeldInAppend ==
    ASSUME NEW S, NEW q \in Seq(S), NEW e \in S, NEW t
    PROVE  HeldIn(Append(q, e), t) = HeldIn(q, t) + (IF e.t = t THEN 1 ELSE 0)
<1> DEFINE one == <<e>>
<1>1. one \in Seq(S) /\ HeldIn(one, t) = IF e.t = t THEN 1 ELSE 0
  BY HeldInOne
<1>2. Append(q, e) = q \o one
  BY SMT
<1> HIDE DEF one
<1>3. HeldIn(q \o one, t) = HeldIn(q, t) + HeldIn(one, t)
  BY <1>1, HeldInCat
<1> QED
  BY <1>1, <1>2, <1>3

\* What a queue holds is what its head and its tail hold.
LEMMA HeldInTail ==
    ASSUME NEW S, NEW q \in Seq(S), q # <<>>, NEW t
    PROVE  HeldIn(q, t) = HeldIn(Tail(q), t) + (IF Head(q).t = t THEN 1 ELSE 0)
<1> DEFINE e == Head(q)
           rest == Tail(q)
           one == <<e>>
<1>1. e \in S /\ rest \in Seq(S)
  BY HeadTailProperties
<1>2. q = one \o rest
  BY SMT
<1> HIDE DEF e, rest
<1>3. one \in Seq(S) /\ HeldIn(one, t) = IF e.t = t THEN 1 ELSE 0
  BY <1>1, HeldInOne
<1> HIDE DEF one
<1>4. HeldIn(q, t) = HeldIn(one, t) + HeldIn(rest, t)
  BY <1>1, <1>2, <1>3, HeldInCat
<1>5. HeldIn(rest, t) \in Nat
  BY <1>1, HoldingFacts
<1>6. HeldIn(q, t) = HeldIn(rest, t) + (IF e.t = t THEN 1 ELSE 0)
  BY <1>3, <1>4, <1>5, SMT
<1> QED
  BY <1>6 DEF e, rest

-----------------------------------------------------------------------------
(* Threads. *)

Threads == Nat \ {NoThread}

NFAFields == {"ref", "capture", "freelist", "q", "t0", "nstack", "match", "matched", "id", "p"}

RefOf(s, t) == IF t \in DOMAIN s.ref THEN s.ref[t] ELSE 0

\* The free list has each of the threads that nobody holds once.
Pool(s) ==
    /\ NFAFields \subseteq DOMAIN s
    /\ \E n \in Nat : DOMAIN s.ref = 1 .. n
    /\ \A t \in DOMAIN s.ref : s.ref[t] \in Nat
    /\ s.freelist \in Seq(DOMAIN s.ref)
    /\ \A j, k \in 1 .. Len(s.freelist) : s.freelist[j] = s.freelist[k] => j = k
    /\ \A t \in DOMAIN s.ref : s.ref[t] = 0 <=> Contains(s.freelist, t)

\* What the operations on threads leave as it is.
Same(r, s) ==
    DOMAIN r = DOMAIN s /\ r.q = s.q /\ r.t0 = s.t0 /\ r.nstack = s.nstack

\* Only an allocated thread has references.
LEMMA RefFacts ==
    ASSUME NEW s, Pool(s), NEW t
    PROVE  RefOf(s, t) \in Nat /\ (RefOf(s, t) > 0 => t \in DOMAIN s.ref /\ t \in Threads)
<1>1. \A n \in Nat : t \in 1 .. n => t \in Threads
  BY SMT DEF Threads, NoThread
<1> QED
  BY <1>1, SMT DEF Pool, RefOf

\* What is on top of a free list that has an element more.
LEMMA TopFacts ==
    ASSUME NEW S, NEW l \in Seq(S), NEW e \in S,
           \A j, k \in 1 .. Len(l) : l[j] = l[k] => j = k
    PROVE  /\ <<e>> \o l \in Seq(S)
           /\ \A u : Contains(<<e>> \o l, u) <=> u = e \/ Contains(l, u)
           /\ ~Contains(l, e) =>
                \A j, k \in 1 .. Len(<<e>> \o l) :
                    (<<e>> \o l)[j] = (<<e>> \o l)[k] => j = k
<1> DEFINE m == <<e>> \o l
<1>1. /\ m \in Seq(S) /\ Len(m) = Len(l) + 1 /\ m[1] = e /\ Len(l) \in Nat
      /\ \A k \in 1 .. Len(l) : m[k + 1] = l[k]
  BY SMT
<1> HIDE DEF m
<1>2. \A k \in 1 .. Len(m) : k = 1 \/ (k - 1 \in 1 .. Len(l) /\ m[k] = l[k - 1])
  <2> SUFFICES ASSUME NEW k \in 1 .. Len(m), k # 1
               PROVE  k - 1 \in 1 .. Len(l) /\ m[k] = l[k - 1]
    OBVIOUS
  <2>1. k - 1 \in 1 .. Len(l) /\ k - 1 + 1 = k
    BY <1>1, SMT
  <2> QED
    BY <1>1, <2>1
<1>3. \A u : Contains(m, u) <=> u = e \/ Contains(l, u)
  <2>1. 1 \in 1 .. Len(m) /\ \A k \in 1 .. Len(l) : k + 1 \in 1 .. Len(m)
    BY <1>1, SMT
  <2>2. ASSUME NEW u, NEW k \in 1 .. Len(l), l[k] = u PROVE Contains(m, u)
    BY <1>1, <2>1, <2>2 DEF Contains
  <2>3. ASSUME NEW u, NEW k \in 1 .. Len(m), m[k] = u PROVE u = e \/ Contains(l, u)
    BY <1>1, <1>2, <2>3 DEF Contains
  <2>4. Contains(m, e)
    BY <1>1, <2>1 DEF Contains
  <2> QED
    BY <2>2, <2>3, <2>4 DEF Contains
<1>4. ASSUME ~Contains(l, e), NEW j \in 1 .. Len(m), NEW k \in 1 .. Len(m), m[j] = m[k]
      PROVE  j = k
  <2>1. CASE j = 1 /\ k = 1
    BY <2>1
  <2>2. CASE j # 1 /\ k # 1
    <3>1. j - 1 = k - 1
      BY <1>2, <1>4, <2>2
    <3> QED
      BY <1>1, <3>1, SMT
  <2>3. CASE j = 1 /\ k # 1
    <3>1. l[k - 1] = e /\ k - 1 \in 1 .. Len(l)
      BY <1>1, <1>2, <1>4, <2>3
    <3> QED
      BY <1>4, <3>1 DEF Contains
  <2>4. CASE j # 1 /\ k = 1
    <3>1. l[j - 1] = e /\ j - 1 \in 1 .. Len(l)
      BY <1>1, <1>2, <1>4, <2>4
    <3> QED
      BY <1>4, <3>1 DEF Contains
  <2> QED
    BY <2>1, <2>2, <2>3, <2>4
<1> QED
  BY <1>1, <1>3, <1>4 DEF m

\* Decref takes one reference, also when it frees the thread.
LEMMA DecrefFacts ==
    ASSUME NEW s, Pool(s), NEW t, RefOf(s, t) > 0, NEW r, r = Decref(s, t)
    PROVE  /\ Pool(r) /\ Same(r, s)
           /\ \A u : RefOf(r, u) = IF u = t THEN RefOf(s, u) - 1 ELSE RefOf(s, u)
<1> DEFINE ref == s.ref
           free == s.freelist
<1>1. /\ NFAFields \subseteq DOMAIN s /\ (\E n \in Nat : DOMAIN ref = 1 .. n)
      /\ \A u \in DOMAIN ref : ref[u] \in Nat
      /\ free \in Seq(DOMAIN ref)
      /\ \A j, k \in 1 .. Len(free) : free[j] = free[k] => j = k
      /\ \A u \in DOMAIN ref : ref[u] = 0 <=> Contains(free, u)
  BY DEF Pool
<1>2. t \in DOMAIN ref /\ ref[t] \in Nat /\ ref[t] > 0
  BY <1>1, RefFacts DEF RefOf
<1>3. /\ DOMAIN r = DOMAIN s /\ Same(r, s)
      /\ r.ref = [ref EXCEPT ![t] = ref[t] - 1]
      /\ r.freelist = IF ref[t] > 1 THEN free ELSE <<t>> \o free
  BY <1>1 DEF Decref, NFAFields, Same
<1>4. /\ DOMAIN r.ref = DOMAIN ref
      /\ \A u \in DOMAIN ref : r.ref[u] = IF u = t THEN ref[u] - 1 ELSE ref[u]
  BY <1>3
<1>5. \A u : RefOf(r, u) = IF u = t THEN RefOf(s, u) - 1 ELSE RefOf(s, u)
  BY <1>2, <1>4 DEF RefOf
<1>6. ref[t] # 0 /\ ~Contains(free, t)
  BY <1>1, <1>2, SMT
<1> HIDE DEF ref, free
<1>7. \A u \in DOMAIN ref : r.ref[u] \in Nat
  <2> SUFFICES ASSUME NEW u \in DOMAIN ref PROVE r.ref[u] \in Nat
    OBVIOUS
  <2>1. ref[u] \in Nat /\ r.ref[u] = IF u = t THEN ref[u] - 1 ELSE ref[u]
    BY <1>1, <1>4
  <2> QED
    BY <1>2, <2>1, SMT
<1>8. CASE ref[t] > 1
  <2>1. r.ref[t] # 0 /\ r.freelist = free
    BY <1>2, <1>3, <1>4, <1>8, SMT
  <2>2. \A u \in DOMAIN ref : r.ref[u] = 0 <=> Contains(free, u)
    BY <1>1, <1>4, <1>6, <2>1
  <2> QED
    BY <1>1, <1>3, <1>4, <1>5, <1>7, <2>1, <2>2 DEF Pool
<1>9. CASE ~(ref[t] > 1)
  <2>1. r.ref[t] = 0 /\ r.freelist = <<t>> \o free
    <3>1. ref[t] - 1 = 0
      BY <1>2, <1>9, SMT
    <3> QED
      BY <1>2, <1>3, <1>4, <1>9, <3>1
  <2>2. /\ r.freelist \in Seq(DOMAIN ref)
        /\ \A u : Contains(r.freelist, u) <=> u = t \/ Contains(free, u)
        /\ \A j, k \in 1 .. Len(r.freelist) : r.freelist[j] = r.freelist[k] => j = k
    BY <1>1, <1>2, <1>6, <2>1, TopFacts
  <2>3. \A u \in DOMAIN ref : r.ref[u] = 0 <=> Contains(r.freelist, u)
    BY <1>1, <1>4, <2>1, <2>2
  <2>4. NFAFields \subseteq DOMAIN r /\ \E n \in Nat : DOMAIN r.ref = 1 .. n
    BY <1>1, <1>3, <1>4
  <2>5. /\ r.freelist \in Seq(DOMAIN r.ref)
        /\ \A u \in DOMAIN r.ref : r.ref[u] \in Nat /\ (r.ref[u] = 0 <=> Contains(r.freelist, u))
    BY <1>4, <1>7, <2>2, <2>3
  <2> QED
    BY <1>3, <1>5, <2>2, <2>4, <2>5, Zenon DEF Pool
<1> QED
  BY <1>8, <1>9

\* Incref adds one reference.
LEMMA IncrefFacts ==
    ASSUME NEW s, Pool(s), NEW t, RefOf(s, t) > 0, NEW r, r = Incref(s, t)
    PROVE  /\ Pool(r) /\ Same(r, s)
           /\ \A u : RefOf(r, u) = IF u = t THEN RefOf(s, u) + 1 ELSE RefOf(s, u)
<1>1. t \in DOMAIN s.ref /\ s.ref[t] \in Nat /\ s.ref[t] > 0
  BY RefFacts DEF RefOf, Pool
<1>2. /\ DOMAIN r = DOMAIN s /\ Same(r, s) /\ r.freelist = s.freelist
      /\ r.ref = [s.ref EXCEPT ![t] = s.ref[t] + 1]
  BY DEF Incref, NFAFields, Same, Pool
<1>3. /\ DOMAIN r.ref = DOMAIN s.ref
      /\ \A u \in DOMAIN s.ref : r.ref[u] = IF u = t THEN s.ref[u] + 1 ELSE s.ref[u]
  BY <1>2
<1>4. \A u : RefOf(r, u) = IF u = t THEN RefOf(s, u) + 1 ELSE RefOf(s, u)
  BY <1>1, <1>3 DEF RefOf
<1>5. \A u \in DOMAIN s.ref : r.ref[u] \in Nat /\ (r.ref[u] = 0 <=> s.ref[u] = 0)
  <2> SUFFICES ASSUME NEW u \in DOMAIN s.ref
               PROVE  r.ref[u] \in Nat /\ (r.ref[u] = 0 <=> s.ref[u] = 0)
    OBVIOUS
  <2>1. s.ref[u] \in Nat
    BY DEF Pool
  <2> QED
    BY <1>1, <1>3, <2>1, SMT
<1>6. /\ \E n \in Nat : DOMAIN r.ref = 1 .. n
      /\ r.freelist \in Seq(DOMAIN r.ref)
      /\ \A j, k \in 1 .. Len(r.freelist) : r.freelist[j] = r.freelist[k] => j = k
  BY <1>2, <1>3 DEF Pool
<1>7. \A u \in DOMAIN r.ref :
          r.ref[u] \in Nat /\ (r.ref[u] = 0 <=> Contains(r.freelist, u))
  BY <1>2, <1>3, <1>5 DEF Pool
<1>8. NFAFields \subseteq DOMAIN r
  BY <1>2 DEF Pool
<1> QED
  BY <1>2, <1>4, <1>6, <1>7, <1>8, Zenon DEF Pool

\* AllocThread hands out a thread nobody refers to, with one reference.
LEMMA AllocFacts ==
    ASSUME NEW s, Pool(s), NEW capture, NEW r, r = AllocThread(s, capture),
           NEW t, t = NewThread(s)
    PROVE  /\ Pool(r) /\ Same(r, s) /\ t \in Threads /\ RefOf(s, t) = 0
           /\ \A u : RefOf(r, u) = IF u = t THEN 1 ELSE RefOf(s, u)
<1> DEFINE ref == s.ref
           free == s.freelist
<1>1. /\ NFAFields \subseteq DOMAIN s /\ (\E n \in Nat : DOMAIN ref = 1 .. n)
      /\ \A u \in DOMAIN ref : ref[u] \in Nat
      /\ free \in Seq(DOMAIN ref)
      /\ \A j, k \in 1 .. Len(free) : free[j] = free[k] => j = k
      /\ \A u \in DOMAIN ref : ref[u] = 0 <=> Contains(free, u)
  BY DEF Pool
<1>2. /\ DOMAIN r = DOMAIN s /\ Same(r, s)
      /\ r.ref = [u \in DOMAIN ref \union {t} |-> IF u = t THEN 1 ELSE ref[u]]
      /\ r.freelist = IF free = <<>> THEN free ELSE Tail(free)
  BY <1>1 DEF AllocThread, NFAFields, Same
<1>3. /\ DOMAIN r.ref = DOMAIN ref \union {t}
      /\ \A u \in DOMAIN ref \union {t} : r.ref[u] = IF u = t THEN 1 ELSE ref[u]
  BY <1>2
<1>4. \A u : RefOf(r, u) = IF u = t THEN 1 ELSE RefOf(s, u)
  BY <1>3 DEF RefOf
<1>5. \A u \in DOMAIN r.ref : r.ref[u] \in Nat
  BY <1>1, <1>3
<1> HIDE DEF ref, free
<1>6. CASE free = <<>>
  <2>1. PICK n \in Nat : DOMAIN ref = 1 .. n
    BY <1>1
  <2>2. Cardinality(1 .. n) = n
    <3>1. n + 1 - 1 = n /\ n + 1 \in Nat
      BY <2>1, SMT
    <3>2. n \in Int /\ 1 \in Int
      BY SMT
    <3>3. Cardinality(1 .. n) = IF 1 > n THEN 0 ELSE n - 1 + 1
      BY <3>2, FS_Interval
    <3> QED
      BY <2>1, <3>3, SMT
  <2>3. t = n + 1
    BY <1>6, <2>1, <2>2 DEF NewThread, ref, free
  <2>4. t \notin 1 .. n /\ (1 .. n) \union {t} = 1 .. n + 1 /\ n + 1 \in Nat /\ t \in Threads
    BY <2>3, SMT DEF Threads, NoThread
  <2>5. RefOf(s, t) = 0
    BY <2>1, <2>4 DEF RefOf, ref
  <2>6. r.freelist = <<>> /\ \A u : ~Contains(<<>>, u)
    BY <1>2, <1>6 DEF Contains
  <2>7. \A u \in DOMAIN r.ref : r.ref[u] # 0
    BY <1>1, <1>3, <1>6, <2>6, SMT
  <2>8. r.freelist \in Seq(DOMAIN r.ref) /\ 1 .. Len(r.freelist) = {}
    BY <2>6, SMT
  <2>9. DOMAIN r.ref = 1 .. n + 1 /\ n + 1 \in Nat
    BY <1>3, <2>1, <2>4
  <2>10. \A j, k \in 1 .. Len(r.freelist) : r.freelist[j] = r.freelist[k] => j = k
    BY <2>8
  <2>11. \A u \in DOMAIN r.ref : r.ref[u] = 0 <=> Contains(r.freelist, u)
    BY <2>6, <2>7
  <2>12. Pool(r)
    BY <1>1, <1>2, <1>5, <2>8, <2>9, <2>10, <2>11 DEF Pool
  <2> QED
    BY <1>2, <1>4, <2>4, <2>5, <2>12
<1>7. CASE free # <<>>
  <2>1. t = Head(free)
    BY <1>7 DEF NewThread, free
  <2>2. /\ Head(free) \in DOMAIN ref /\ Tail(free) \in Seq(DOMAIN ref)
        /\ free = <<Head(free)>> \o Tail(free) /\ Len(free) \in Nat
        /\ Len(free) = Len(Tail(free)) + 1 /\ Len(Tail(free)) \in Nat
        /\ free[1] = t /\ 1 \in 1 .. Len(free)
        /\ \A k \in 1 .. Len(Tail(free)) : k + 1 \in 1 .. Len(free) /\ k + 1 # 1
                                           /\ Tail(free)[k] = free[k + 1]
    BY <1>1, <1>7, <2>1, SMT
  <2>3. r.freelist = Tail(free)
    BY <1>2, <1>7
  <2>4. Contains(free, t) /\ ref[t] = 0 /\ t \in DOMAIN ref /\ ~Contains(Tail(free), t)
    BY <1>1, <2>1, <2>2 DEF Contains
  <2>5. \A j, k \in 1 .. Len(Tail(free)) : Tail(free)[j] = Tail(free)[k] => j = k
    <3> SUFFICES ASSUME NEW j \in 1 .. Len(Tail(free)), NEW k \in 1 .. Len(Tail(free)),
                        Tail(free)[j] = Tail(free)[k]
                 PROVE  j = k
      OBVIOUS
    <3>1. j + 1 = k + 1
      BY <1>1, <2>2
    <3> QED
      BY <2>2, <3>1, SMT
  <2>6. \A u : Contains(free, u) <=> u = t \/ Contains(Tail(free), u)
    <3>1. \A u : Contains(<<Head(free)>> \o Tail(free), u)
                    <=> u = Head(free) \/ Contains(Tail(free), u)
      <4> DEFINE h == Head(free)
                 l == Tail(free)
                 S == DOMAIN ref
      <4>1. h \in S /\ l \in Seq(S) /\ \A j, k \in 1 .. Len(l) : l[j] = l[k] => j = k
        BY <2>2, <2>5
      <4> HIDE DEF h, l, S
      <4> QED
        BY <4>1, TopFacts DEF h, l
    <3> QED
      BY <2>1, <2>2, <3>1
  <2>7. \A u \in DOMAIN ref : r.ref[u] = 0 <=> Contains(r.freelist, u)
    BY <1>1, <1>3, <2>3, <2>4, <2>6, SMT
  <2>8. DOMAIN r.ref = DOMAIN ref /\ RefOf(s, t) = 0 /\ t \in Threads
    <3>1. \A n \in Nat : t \in 1 .. n => t \in Threads
      BY SMT DEF Threads, NoThread
    <3> QED
      BY <1>1, <1>3, <2>4, <3>1 DEF RefOf, ref
  <2>9. Pool(r)
    <3>1. r.freelist \in Seq(DOMAIN r.ref) /\ NFAFields \subseteq DOMAIN r
      BY <1>1, <1>2, <2>2, <2>3, <2>8
    <3>2. \A j, k \in 1 .. Len(r.freelist) : r.freelist[j] = r.freelist[k] => j = k
      BY <2>3, <2>5
    <3>3. \E n \in Nat : DOMAIN r.ref = 1 .. n
      BY <1>1, <2>8
    <3>4. \A u \in DOMAIN r.ref : r.ref[u] = 0 <=> Contains(r.freelist, u)
      BY <2>7, <2>8
    <3> HIDE DEF NFAFields
    <3> QED
      BY <1>5, <3>1, <3>2, <3>3, <3>4 DEF Pool
  <2> QED
    BY <1>2, <1>4, <2>8, <2>9
<1> QED
  BY <1>6, <1>7

-----------------------------------------------------------------------------
(* Programs and queues. *)

Ids == DOMAIN prog.inst
Jobbed == [id : Ids, t : Nat]       \* what a queue or the stack has

\* The ids of a flat program are 0 .. ProgSize - 1.
LEMMA FlatFacts ==
    ASSUME IsFlat(prog)
    PROVE  /\ ProgSize \in Nat /\ ProgSize > 0 /\ Ids = 0 .. ProgSize - 1
           /\ IsFiniteSet(Ids) /\ 0 \in Ids /\ Ids \in SUBSET Nat
           /\ Process(0) \in Jobbed
<1>1. Ids # {} /\ Ids = 0 .. ProgSize - 1 /\ IsFiniteSet(Ids)
  BY DEF IsFlat, Ids, ProgSize
<1>2. ProgSize \in Nat /\ (ProgSize = 0 <=> Ids = {})
  BY <1>1, FS_CardinalityType, FS_EmptySet DEF Ids, ProgSize
<1> QED
  BY <1>1, <1>2, SMT DEF Process, NoThread, Jobbed

\* The jobs that Explore pushes carry no thread.
LEMMA JobsFacts ==
    ASSUME IsFlat(prog), NEW ids \in Seq(Ids), NEW J, J = Jobs(ids)
    PROVE  /\ J \in Seq(Jobbed) /\ Len(J) = Len(ids)
           /\ \A k \in 1 .. Len(J) : J[k].t = NoThread
<1>1. Len(ids) \in Nat /\ DOMAIN ids = 1 .. Len(ids) /\ \A k \in 1 .. Len(ids) : ids[k] \in Ids
  BY SMT
<1>2. \A id \in Ids : Process(id) \in Jobbed /\ Process(id).t = NoThread
  BY SMT DEF Process, NoThread, Jobbed
<1>3. J = [k \in 1 .. Len(ids) |-> Process(ids[k])]
  BY <1>1 DEF Jobs
<1>4. J \in [1 .. Len(ids) -> Jobbed]
  BY <1>1, <1>2, <1>3
<1> DEFINE n == Len(ids)
           S == Jobbed
<1>5. J \in Seq(S) /\ Len(J) = n
  <2>1. n \in Nat /\ J \in [1 .. n -> S]
    BY <1>1, <1>4
  <2> HIDE DEF n, S
  <2> QED
    BY <2>1, SMT
<1> QED
  BY <1>1, <1>2, <1>3, <1>5

Waits == {"AltMatch", "ByteRange", "Match"}

IsQueue(q) ==
    /\ q \in Seq(Jobbed)
    /\ \A k \in 1 .. Len(q) : q[k].t # NoThread => prog.inst[q[k].id].op \in Waits

\* The instructions that a queue has, and those of them with one of the ops.
IdsOf(q) == {q[k].id : k \in 1 .. Len(q)}
OpsOf(q, ops) == {id \in IdsOf(q) : prog.inst[id].op \in ops}
Nops == {"EmptyWidth", "Nop"}

\* A queue holds no more instructions of some kinds than the program has.
LEMMA OpsFacts ==
    ASSUME IsFlat(prog), NEW q \in Seq(Jobbed), NEW ops
    PROVE  /\ IdsOf(q) \in SUBSET Ids /\ Cardinality(IdsOf(q)) \in 0 .. ProgSize
           /\ IsFiniteSet(OpsOf(q, ops)) /\ Cardinality(OpsOf(q, ops)) \in Nat
           /\ InstCount(ops) \in Nat /\ Cardinality(OpsOf(q, ops)) <= InstCount(ops)
           /\ IsFiniteSet(IdsOf(q)) /\ Cardinality(IdsOf(q)) \in Nat
<1>1. IsFiniteSet(Ids) /\ Cardinality(Ids) = ProgSize
  BY FlatFacts DEF Ids, ProgSize
<1>2. IdsOf(q) \in SUBSET Ids
  <2>1. \A k \in 1 .. Len(q) : q[k] \in Jobbed
    BY ElementOfSeq
  <2>2. \A k \in 1 .. Len(q) : q[k].id \in Ids
    BY <2>1 DEF Jobbed
  <2> QED
    BY <2>2 DEF IdsOf
<1>3. /\ IsFiniteSet(IdsOf(q)) /\ Cardinality(IdsOf(q)) <= Cardinality(Ids)
      /\ Cardinality(IdsOf(q)) \in Nat /\ Cardinality(Ids) \in Nat
  BY <1>1, <1>2, FS_Subset, FS_CardinalityType
<1>4. Cardinality(IdsOf(q)) \in 0 .. ProgSize
  BY <1>1, <1>3, SMT
<1> DEFINE C == {id \in Ids : prog.inst[id].op \in ops}
<1>5. C \in SUBSET Ids /\ OpsOf(q, ops) \in SUBSET C
  BY <1>2 DEF OpsOf
<1>6. IsFiniteSet(C) /\ Cardinality(C) \in Nat
  BY <1>1, <1>5, FS_Subset, FS_CardinalityType
<1>7. /\ IsFiniteSet(OpsOf(q, ops)) /\ Cardinality(OpsOf(q, ops)) <= Cardinality(C)
      /\ Cardinality(OpsOf(q, ops)) \in Nat
  BY <1>5, <1>6, FS_Subset, FS_CardinalityType
<1>8. InstCount(ops) = Cardinality(C)
  BY DEF InstCount, Ids
<1> QED
  BY <1>2, <1>3, <1>4, <1>6, <1>7, <1>8

Queued(q, e) == Append(q, e)

\* A new entry counts for what it is.
LEMMA OpsGrow ==
    ASSUME IsFlat(prog), NEW q \in Seq(Jobbed), NEW e \in Jobbed, e.id \notin IdsOf(q),
           NEW r, r = Queued(q, e)
    PROVE  /\ r \in Seq(Jobbed) /\ IdsOf(r) = IdsOf(q) \union {e.id}
           /\ Cardinality(IdsOf(r)) = Cardinality(IdsOf(q)) + 1
           /\ \A ops : Cardinality(OpsOf(r, ops)) =
                Cardinality(OpsOf(q, ops)) + (IF prog.inst[e.id].op \in ops THEN 1 ELSE 0)
<1>1. /\ r \in Seq(Jobbed) /\ Len(r) = Len(q) + 1 /\ Len(q) \in Nat
      /\ \A k \in 1 .. Len(q) : r[k] = q[k]
      /\ r[Len(q) + 1] = e
  BY SMT DEF Queued
<1>2. 1 .. Len(q) + 1 = (1 .. Len(q)) \union {Len(q) + 1}
  BY <1>1, SMT
<1>3. IdsOf(r) = IdsOf(q) \union {e.id}
  BY <1>1, <1>2 DEF IdsOf
<1>4. IsFiniteSet(IdsOf(q))
  BY OpsFacts
<1>5. Cardinality(IdsOf(r)) = Cardinality(IdsOf(q)) + 1
  BY <1>3, <1>4, FS_AddElement
<1>6. ASSUME NEW ops
      PROVE  Cardinality(OpsOf(r, ops)) =
                Cardinality(OpsOf(q, ops)) + (IF prog.inst[e.id].op \in ops THEN 1 ELSE 0)
  <2>1. IsFiniteSet(OpsOf(q, ops)) /\ Cardinality(OpsOf(q, ops)) \in Nat
    BY OpsFacts
  <2>2. OpsOf(r, ops) =
            OpsOf(q, ops) \union (IF prog.inst[e.id].op \in ops THEN {e.id} ELSE {})
    BY <1>3 DEF OpsOf
  <2>3. e.id \notin OpsOf(q, ops)
    BY DEF OpsOf
  <2>4. CASE prog.inst[e.id].op \in ops
    BY <2>1, <2>2, <2>3, <2>4, FS_AddElement
  <2>5. CASE prog.inst[e.id].op \notin ops
    <3>1. OpsOf(r, ops) = OpsOf(q, ops)
      BY <2>2, <2>5
    <3> QED
      BY <2>1, <2>5, <3>1, SMT
  <2> QED
    BY <2>4, <2>5
<1> QED
  BY <1>1, <1>3, <1>5, <1>6

-----------------------------------------------------------------------------
(* AddToThreadq. *)

\* The thread that is current when the stack is empty again.
GoesBack(t0, todo, t) ==
    \/ t0 = t /\ \A j \in 1 .. Len(todo) : todo[j].t = NoThread
    \/ \E k \in 1 .. Len(todo) :
        todo[k].t = t /\ \A j \in k + 1 .. Len(todo) : todo[j].t = NoThread

\* A job that restores t0 and is popped leaves t at the bottom of the stack.
LEMMA BackAfterPop ==
    ASSUME NEW todo \in Seq(Jobbed), todo # <<>>, NEW t0, NEW t \in Threads,
           GoesBack(t0, todo, t)
    PROVE  GoesBack(IF Head(todo).t = NoThread THEN t0 ELSE Head(todo).t, Tail(todo), t)
<1> DEFINE stk == Tail(todo)
           n == Len(todo)
<1>1. /\ n \in Nat /\ n > 0 /\ Len(stk) = n - 1 /\ Head(todo) = todo[1]
      /\ \A k \in 1 .. n - 1 : stk[k] = todo[k + 1]
  BY SMT
<1> HIDE DEF stk, n
<1>2. /\ 1 \in 1 .. n
      /\ \A k \in 1 .. n - 1 : k + 1 \in 2 .. n /\ k + 1 \in 1 .. n
      /\ \A k \in 1 .. n : k # 1 => k - 1 \in 1 .. n - 1 /\ k - 1 + 1 = k
  BY <1>1, SMT
<1>3. CASE t0 = t /\ \A j \in 1 .. n : todo[j].t = NoThread
  BY <1>1, <1>2, <1>3 DEF GoesBack, stk
<1>4. ASSUME NEW k \in 1 .. n, todo[k].t = t, \A j \in k + 1 .. n : todo[j].t = NoThread
      PROVE  GoesBack(IF Head(todo).t = NoThread THEN t0 ELSE Head(todo).t, stk, t)
  <2>1. CASE k = 1
    <3>1. \A j \in 1 .. n - 1 : stk[j].t = NoThread
      BY <1>1, <1>2, <1>4, <2>1
    <3>2. Head(todo).t = t /\ t # NoThread
      BY <1>1, <1>4, <2>1 DEF Threads
    <3> QED
      BY <1>1, <3>1, <3>2 DEF GoesBack
  <2>2. CASE k # 1
    <3>1. k - 1 \in 1 .. n - 1 /\ stk[k - 1].t = t
      BY <1>1, <1>2, <1>4, <2>2
    <3>2. \A j \in k - 1 + 1 .. n - 1 : j \in 1 .. n - 1 /\ j + 1 \in k + 1 .. n
      BY <1>1, <2>2, SMT
    <3>3. \A j \in k - 1 + 1 .. n - 1 : stk[j].t = NoThread
      BY <1>1, <1>4, <3>2
    <3> QED
      BY <1>1, <3>1, <3>3 DEF GoesBack
  <2> QED
    BY <2>1, <2>2
<1>5. n = Len(todo)
  BY DEF n
<1>6. CASE \E k \in 1 .. n : todo[k].t = t /\ \A j \in k + 1 .. n : todo[j].t = NoThread
  BY <1>4, <1>6 DEF stk
<1> QED
  BY <1>3, <1>5, <1>6 DEF GoesBack, stk

\* Jobs without a thread, pushed, leave t at the bottom of the stack.
LEMMA BackWithJobs ==
    ASSUME NEW J \in Seq(Jobbed), NEW stk \in Seq(Jobbed), NEW t0, NEW t \in Threads,
           GoesBack(t0, stk, t), \A k \in 1 .. Len(J) : J[k].t = NoThread
    PROVE  GoesBack(t0, J \o stk, t)
<1> DEFINE m == Len(J)
           n == Len(stk)
           c == J \o stk
<1>1. /\ m \in Nat /\ n \in Nat /\ Len(c) = m + n
      /\ \A k \in 1 .. m : c[k] = J[k]
      /\ \A k \in 1 .. n : c[m + k] = stk[k]
  BY SMT
<1> HIDE DEF m, n, c
<1>2. /\ \A k \in 1 .. n : m + k \in 1 .. m + n
      /\ \A k \in 1 .. m + n : k \in 1 .. m \/ (k - m \in 1 .. n /\ m + (k - m) = k)
  BY <1>1, SMT
<1>3. CASE t0 = t /\ \A j \in 1 .. n : stk[j].t = NoThread
  <2>1. ASSUME NEW j \in 1 .. m + n PROVE c[j].t = NoThread
    <3>1. CASE j \in 1 .. m
      BY <1>1, <3>1 DEF m
    <3>2. CASE j - m \in 1 .. n /\ m + (j - m) = j
      <4>1. c[m + (j - m)] = stk[j - m]
        BY <1>1, <3>2
      <4> QED
        BY <1>3, <3>2, <4>1
    <3> QED
      BY <1>2, <3>1, <3>2
  <2> QED
    BY <1>1, <1>3, <2>1 DEF GoesBack, c
<1>4. ASSUME NEW k \in 1 .. n, stk[k].t = t, \A j \in k + 1 .. n : stk[j].t = NoThread
      PROVE  GoesBack(t0, c, t)
  <2>1. \A j \in m + k + 1 .. m + n : j - m \in k + 1 .. n /\ m + (j - m) = j /\ j - m \in 1 .. n
    BY <1>1, SMT
  <2>2. ASSUME NEW j \in m + k + 1 .. m + n PROVE c[j].t = NoThread
    <3>1. c[m + (j - m)] = stk[j - m] /\ m + (j - m) = j
      BY <1>1, <2>1
    <3> QED
      BY <1>4, <2>1, <3>1
  <2>3. m + k \in 1 .. m + n /\ c[m + k].t = t
    BY <1>1, <1>2, <1>4
  <2> QED
    BY <1>1, <2>2, <2>3 DEF GoesBack
<1>5. CASE \E k \in 1 .. n : stk[k].t = t /\ \A j \in k + 1 .. n : stk[j].t = NoThread
  BY <1>4, <1>5 DEF c
<1> QED
  BY <1>3, <1>5 DEF GoesBack, n

\* A thread that is put on the stack is where it goes back to.
LEMMA BackRestored ==
    ASSUME NEW stk \in Seq(Jobbed), NEW t0 \in Threads, NEW t1, NEW t \in Threads,
           GoesBack(t0, stk, t), Restore(t0) \in Jobbed
    PROVE  GoesBack(t1, <<Restore(t0)>> \o stk, t)
<1> DEFINE n == Len(stk)
           c == <<Restore(t0)>> \o stk
<1>1. /\ n \in Nat /\ Len(c) = n + 1 /\ c[1] = Restore(t0)
      /\ \A k \in 1 .. n : c[k + 1] = stk[k]
  BY SMT
<1>2. Restore(t0).t = t0
  BY DEF Restore
<1> HIDE DEF n, c
<1>3. CASE t0 = t /\ \A j \in 1 .. n : stk[j].t = NoThread
  <2>1. /\ 1 \in 1 .. n + 1
        /\ \A j \in 1 + 1 .. n + 1 : j - 1 \in 1 .. n /\ j - 1 + 1 = j
    BY <1>1, SMT
  <2>2. \A j \in 1 + 1 .. n + 1 : c[j].t = NoThread
    BY <1>1, <1>3, <2>1
  <2> QED
    BY <1>1, <1>2, <1>3, <2>1, <2>2 DEF GoesBack, c
<1>4. ASSUME NEW k \in 1 .. n, stk[k].t = t, \A j \in k + 1 .. n : stk[j].t = NoThread
      PROVE  GoesBack(t1, c, t)
  <2>1. /\ \A j \in k + 1 + 1 .. n + 1 : j - 1 \in k + 1 .. n /\ j - 1 + 1 = j /\ j - 1 \in 1 .. n
        /\ k + 1 \in 1 .. n + 1
    BY <1>1, SMT
  <2>2. ASSUME NEW j \in k + 1 + 1 .. n + 1 PROVE c[j].t = NoThread
    <3>1. c[j - 1 + 1] = stk[j - 1] /\ j - 1 + 1 = j
      BY <1>1, <2>1
    <3> QED
      BY <1>4, <2>1, <3>1
  <2>3. k + 1 \in 1 .. n + 1 /\ c[k + 1].t = t
    BY <1>1, <1>4, <2>1
  <2> QED
    BY <1>1, <2>2, <2>3 DEF GoesBack
<1>5. CASE \E k \in 1 .. n : stk[k].t = t /\ \A j \in k + 1 .. n : stk[j].t = NoThread
  BY <1>4, <1>5 DEF c
<1> QED
  BY <1>3, <1>5 DEF GoesBack, n

One(a, b) == IF a = b THEN 1 ELSE 0

\* Every reference is counted: those of the queue and of the stack, that of the current
\* thread, and o[u] that others have to thread u.
Paused(s, stk, t, o) ==
    /\ Pool(s) /\ s.t0 \in Threads /\ IsQueue(s.q) /\ stk \in Seq(Jobbed)
    /\ \A u \in Threads :
        RefOf(s, u) = HeldIn(s.q, u) + HeldIn(stk, u) + One(s.t0, u) + o[u]
    /\ GoesBack(s.t0, stk, t)
    /\ s.nstack \in Nat /\ s.nstack <= NStack

\* Not more jobs are on the stack than the instructions in the queue have put there,
\* and they, with those still to come, are done in the turns left.
Fits(q, n) ==
    n <= 1 + 2 * Cardinality(OpsOf(q, {"Capture"})) + Cardinality(OpsOf(q, Nops))
Left(q, n) == 3 * (ProgSize - Cardinality(IdsOf(q))) + n

Exploring(x, t, o, n) ==
    /\ Paused(x.s, x.todo, t, o)
    /\ Fits(x.s.q, Len(x.todo))
    /\ x.todo = <<>> \/ Left(x.s.q, Len(x.todo)) <= MaxJobs - n

\* A job that is popped and restores t0 gives back the reference of the thread of a Capture.
LEMMA Popped ==
    ASSUME IsFlat(prog), NEW t \in Threads, NEW o \in [Threads -> Nat],
           NEW s0, NEW todo, todo # <<>>, Paused(s0, todo, t, o),
           NEW a, a = Head(todo),
           NEW r, r = IF a.t = NoThread THEN s0 ELSE [Decref(s0, s0.t0) EXCEPT !.t0 = a.t]
    PROVE  /\ Paused(r, Tail(todo), t, o) /\ r.q = s0.q
           /\ a.id \in Ids /\ Len(todo) = Len(Tail(todo)) + 1 /\ Len(Tail(todo)) \in Nat
<1> DEFINE stk == Tail(todo)
<1>1. /\ todo \in Seq(Jobbed) /\ Pool(s0) /\ s0.t0 \in Threads /\ IsQueue(s0.q)
      /\ \A u \in Threads :
            RefOf(s0, u) = HeldIn(s0.q, u) + HeldIn(todo, u) + One(s0.t0, u) + o[u]
      /\ GoesBack(s0.t0, todo, t)
      /\ s0.nstack \in Nat /\ s0.nstack <= NStack
  BY DEF Paused
<1>2. a \in Jobbed /\ stk \in Seq(Jobbed) /\ Len(todo) = Len(stk) + 1 /\ Len(stk) \in Nat
  BY <1>1, SMT
<1>3. a.id \in Ids /\ a.t \in Nat /\ (a.t # NoThread => a.t \in Threads)
  BY <1>2 DEF Jobbed, Threads
<1>4. GoesBack(IF a.t = NoThread THEN s0.t0 ELSE a.t, stk, t)
  BY <1>1, BackAfterPop
<1>5. \A u \in Threads :
        /\ HeldIn(todo, u) = HeldIn(stk, u) + One(a.t, u)
        /\ HeldIn(s0.q, u) \in Nat /\ HeldIn(stk, u) \in Nat /\ o[u] \in Nat
  BY <1>1, <1>2, HeldInTail, HoldingFacts DEF One, IsQueue
<1> HIDE DEF stk
<1>6. CASE a.t = NoThread
  <2>1. r = s0 /\ \A u \in Threads : One(a.t, u) = 0
    BY <1>6 DEF One, Threads
  <2>2. \A u \in Threads : HeldIn(todo, u) = HeldIn(stk, u)
    BY <1>5, <2>1, SMT
  <2>3. Paused(s0, stk, t, o)
    BY <1>1, <1>2, <1>4, <1>6, <2>2 DEF Paused
  <2> QED
    BY <1>2, <1>3, <2>1, <2>3 DEF stk
<1>7. CASE a.t # NoThread
  <2> DEFINE d == Decref(s0, s0.t0)
  <2>1. RefOf(s0, s0.t0) > 0
    <3>1. RefOf(s0, s0.t0) = HeldIn(s0.q, s0.t0) + HeldIn(todo, s0.t0) + 1 + o[s0.t0]
      BY <1>1 DEF One
    <3>2. HeldIn(todo, s0.t0) \in Nat
      BY <1>1, HoldingFacts
    <3> QED
      BY <1>1, <1>5, <3>1, <3>2, SMT
  <2>2. /\ Pool(d) /\ Same(d, s0)
        /\ \A u : RefOf(d, u) = IF u = s0.t0 THEN RefOf(s0, u) - 1 ELSE RefOf(s0, u)
    BY <1>1, <2>1, DecrefFacts
  <2> HIDE DEF d
  <2>3. /\ r = [d EXCEPT !.t0 = a.t] /\ DOMAIN r = DOMAIN d /\ NFAFields \subseteq DOMAIN d
        /\ r.t0 = a.t /\ r.q = s0.q /\ r.nstack = s0.nstack
        /\ r.ref = d.ref /\ r.freelist = d.freelist
    BY <1>7, <2>2 DEF d, Same, Pool, NFAFields
  <2>4. Pool(r) /\ \A u : RefOf(r, u) = RefOf(d, u)
    BY <2>2, <2>3 DEF Pool, RefOf
  <2>5. ASSUME NEW u \in Threads
        PROVE  RefOf(r, u) = HeldIn(s0.q, u) + HeldIn(stk, u) + One(a.t, u) + o[u]
    <3>1. RefOf(r, u) = RefOf(s0, u) - One(s0.t0, u)
      <4>1. RefOf(s0, u) \in Nat
        BY <1>1, RefFacts
      <4> QED
        BY <2>2, <2>4, <4>1 DEF One
    <3>2. One(s0.t0, u) \in Nat /\ One(a.t, u) \in Nat
      BY DEF One
    <3>3. /\ RefOf(s0, u) = HeldIn(s0.q, u) + HeldIn(todo, u) + One(s0.t0, u) + o[u]
          /\ HeldIn(todo, u) = HeldIn(stk, u) + One(a.t, u)
          /\ HeldIn(s0.q, u) \in Nat /\ HeldIn(stk, u) \in Nat /\ o[u] \in Nat
      BY <1>1, <1>5
    <3> QED
      BY <3>1, <3>2, <3>3, SMT
  <2>6. Paused(r, stk, t, o)
    BY <1>1, <1>2, <1>3, <1>4, <1>7, <2>3, <2>4, <2>5 DEF Paused
  <2> QED
    BY <1>2, <1>3, <2>3, <2>6 DEF stk
<1> QED
  BY <1>6, <1>7

\* How many jobs an instruction leaves besides the one to go on with.
Stacks(op) == IF op = "Capture" THEN 2 ELSE IF op \in Nops THEN 1 ELSE 0

\* An instruction that is queued makes room on the stack for the jobs it pushes.
LEMMA StackFits ==
    ASSUME IsFlat(prog), NEW q \in Seq(Jobbed), NEW e \in Jobbed, e.id \notin IdsOf(q),
           NEW r, r = Queued(q, e), NEW n \in Nat, NEW k \in Nat, NEW m \in Int,
           Fits(q, n + 1), Left(q, n + 1) <= MaxJobs - m,
           k <= 1 + Stacks(prog.inst[e.id].op)
    PROVE  /\ Fits(r, k + n) /\ Left(r, k + n) <= MaxJobs - (m + 1)
           /\ Stacks(prog.inst[e.id].op) + n <= NStack /\ NStack \in Nat
<1>0. /\ r \in Seq(Jobbed) /\ Cardinality(IdsOf(r)) = Cardinality(IdsOf(q)) + 1
      /\ \A ops : Cardinality(OpsOf(r, ops)) =
                Cardinality(OpsOf(q, ops)) + (IF prog.inst[e.id].op \in ops THEN 1 ELSE 0)
  BY OpsGrow
<1> DEFINE op == prog.inst[e.id].op
           C == Cardinality(OpsOf(q, {"Capture"}))
           N == Cardinality(OpsOf(q, Nops))
           I == Cardinality(IdsOf(q))
           C1 == Cardinality(OpsOf(r, {"Capture"}))
           N1 == Cardinality(OpsOf(r, Nops))
           I1 == Cardinality(IdsOf(r))
           c == InstCount({"Capture"})
           d == InstCount(Nops)
<1>1. /\ r \in Seq(Jobbed) /\ I1 = I + 1
      /\ C1 = C + (IF op \in {"Capture"} THEN 1 ELSE 0)
      /\ N1 = N + (IF op \in Nops THEN 1 ELSE 0)
  <2>1. /\ \A ops : Cardinality(OpsOf(r, ops)) =
                Cardinality(OpsOf(q, ops)) + (IF op \in ops THEN 1 ELSE 0)
    BY <1>0
  <2> HIDE DEF op
  <2> QED
    BY <1>0, <2>1
<1>2. /\ C \in Nat /\ N \in Nat /\ I \in Nat /\ I1 <= ProgSize /\ ProgSize \in Nat
      /\ C1 <= c /\ N1 <= d /\ c \in Nat /\ d \in Nat /\ C1 \in Nat /\ N1 \in Nat /\ I1 \in Nat
  <2>1. C \in Nat /\ C1 \in Nat /\ C1 <= c /\ c \in Nat
    BY <1>1, OpsFacts
  <2>2. N \in Nat /\ N1 \in Nat /\ N1 <= d /\ d \in Nat
    BY <1>1, OpsFacts
  <2>3. I \in Nat /\ I1 \in Nat /\ I1 \in 0 .. ProgSize /\ ProgSize \in Nat
    BY <1>1, OpsFacts, FlatFacts
  <2>4. I1 <= ProgSize
    BY <2>3, SMT
  <2> QED
    BY <2>1, <2>2, <2>3, <2>4
<1>3. "Capture" \notin Nops
  BY DEF Nops
<1>4. /\ n + 1 <= 1 + 2 * C + N
      /\ 3 * (ProgSize - I) + (n + 1) <= MaxJobs - m
      /\ MaxJobs \in Int
      /\ NStack = 2 * c + d + 1
  <2>1. n + 1 <= 1 + 2 * C + N
    BY DEF Fits
  <2>2. 3 * (ProgSize - I) + (n + 1) <= MaxJobs - m
    BY DEF Left
  <2>3. MaxJobs \in Int
    BY <1>2, SMT DEF MaxJobs
  <2>4. NStack = 2 * c + d + 1
    BY DEF NStack, Nops
  <2> QED
    BY <2>1, <2>2, <2>3, <2>4
<1> DEFINE l == Stacks(op)
<1> HIDE DEF C, N, I, C1, N1, I1, c, d
<1>5. l \in 0 .. 2 /\ l = 2 * (C1 - C) + (N1 - N) /\ k <= 1 + l
  <2>1. CASE op = "Capture"
    BY <1>1, <1>2, <1>3, <2>1, SMT DEF Stacks
  <2>2. CASE op # "Capture" /\ op \in Nops
    BY <1>1, <1>2, <1>3, <2>2, SMT DEF Stacks
  <2>3. CASE op # "Capture" /\ op \notin Nops
    BY <1>1, <1>2, <1>3, <2>3, SMT DEF Stacks
  <2> QED
    BY <2>1, <2>2, <2>3
<1> HIDE DEF op, l
<1>6. k + n <= 1 + 2 * C1 + N1
  <2>1. n <= 2 * C + N
    BY <1>2, <1>4, SMT
  <2>2. k <= 1 + 2 * (C1 - C) + (N1 - N)
    BY <1>2, <1>5, SMT
  <2>3. C \in Int /\ N \in Int /\ C1 \in Int /\ N1 \in Int /\ n \in Int /\ k \in Int
    BY <1>2
  <2> DEFINE A == 2 * C
             A1 == 2 * C1
  <2>4. n <= A + N /\ A \in Int /\ A1 \in Int /\ 2 * (C1 - C) = A1 - A
    BY <2>1, <2>3, SMT
  <2> HIDE DEF A, A1
  <2>5. k <= 1 + (A1 - A) + (N1 - N)
    BY <2>2, <2>4
  <2>6. k + n <= 1 + A1 + N1
    BY <2>3, <2>4, <2>5, SMT
  <2> QED
    BY <2>6 DEF A1
<1>7. 3 * (ProgSize - I1) + (k + n) <= MaxJobs - (m + 1)
  BY <1>1, <1>2, <1>4, <1>5, SMT
<1>8. l + n <= NStack /\ NStack \in Nat
  BY <1>2, <1>4, <1>5, SMT
<1> QED
  BY <1>6, <1>7, <1>8 DEF Fits, Left, C1, N1, I1, l, op

\* What only the counts and the free list matter for.
LEMMA Pooled ==
    ASSUME NEW s, Pool(s), NEW r, NFAFields \subseteq DOMAIN r,
           r.ref = s.ref, r.freelist = s.freelist
    PROVE  Pool(r) /\ \A u : RefOf(r, u) = RefOf(s, u)
<1> USE DEF Pool
<1>1. \A u : RefOf(r, u) = RefOf(s, u)
  BY DEF RefOf
<1> HIDE DEF NFAFields
<1>2. Pool(r)
  BY DEF Pool
<1> QED
  BY <1>1, <1>2

\* Concatenation.
LEMMA CatFacts ==
    ASSUME NEW S, NEW a \in Seq(S), NEW b \in Seq(S), NEW c \in Seq(S)
    PROVE  /\ a \o b \in Seq(S) /\ Len(a \o b) = Len(a) + Len(b)
           /\ (a \o b) \o c = a \o (b \o c) /\ Len(a) \in Nat /\ Len(b) \in Nat
<1>1. a \o b \in Seq(S) /\ Len(a \o b) = Len(a) + Len(b) /\ Len(a) \in Nat /\ Len(b) \in Nat
  BY SMT
<1>2. (a \o b) \o c = a \o (b \o c)
  BY SMT
<1> QED
  BY <1>1, <1>2

\* Concatenation of jobs.
LEMMA JobCat ==
    \A a, b, c \in Seq(Jobbed) :
        /\ a \o b \in Seq(Jobbed) /\ Len(a \o b) = Len(a) + Len(b)
        /\ Len(a) \in Nat /\ Len(b) \in Nat /\ (a \o b) \o c = a \o (b \o c)
BY CatFacts

\* Concatenation of jobs is associative.
LEMMA JobAssoc ==
    ASSUME NEW a \in Seq(Jobbed), NEW b \in Seq(Jobbed), NEW c \in Seq(Jobbed)
    PROVE  (a \o b) \o c = a \o (b \o c)
BY CatFacts

\* What a turn leaves: the jobs J on top of stk.
Turn(r, J, stk) == [s |-> r, todo |-> J \o stk]

\* A turn that appends the entry e and leaves the jobs J.
Entering(s, stk, t, o, n, e, J, r) ==
    /\ t \in Threads /\ o \in [Threads -> Nat] /\ n \in Nat
    /\ Paused(s, stk, t, o)
    /\ Fits(s.q, Len(stk) + 1) /\ Left(s.q, Len(stk) + 1) <= MaxJobs - n
    /\ e \in Jobbed /\ e.id \notin IdsOf(s.q)
    /\ e.t # NoThread => prog.inst[e.id].op \in Waits
    /\ J \in Seq(Jobbed) /\ Len(J) <= 1 + Stacks(prog.inst[e.id].op)
    /\ Pool(r) /\ r.q = Queued(s.q, e) /\ r.t0 \in Threads
    /\ GoesBack(r.t0, J \o stk, t)
    /\ \A u \in Threads :
           RefOf(r, u) = RefOf(s, u) + One(e.t, u) + HeldIn(J, u)
                            + One(r.t0, u) - One(s.t0, u)
    /\ r.nstack \in Nat /\ r.nstack <= NStack

\* A turn that queues one instruction and pushes at most the jobs of its kind.
LEMMA Entered ==
    ASSUME IsFlat(prog), NEW t, NEW o, NEW n, NEW s, NEW stk, NEW e, NEW J, NEW r,
           Entering(s, stk, t, o, n, e, J, r)
    PROVE  Exploring(Turn(r, J, stk), t, o, n + 1)
<1> SUFFICES
        ASSUME t \in Threads, o \in [Threads -> Nat], n \in Nat, Paused(s, stk, t, o),
               Fits(s.q, Len(stk) + 1), Left(s.q, Len(stk) + 1) <= MaxJobs - n,
               e \in Jobbed, e.id \notin IdsOf(s.q),
               e.t # NoThread => prog.inst[e.id].op \in Waits,
               J \in Seq(Jobbed), Len(J) <= 1 + Stacks(prog.inst[e.id].op),
               Pool(r), r.q = Queued(s.q, e), r.t0 \in Threads,
               GoesBack(r.t0, J \o stk, t),
               \A u \in Threads :
                   RefOf(r, u) = RefOf(s, u) + One(e.t, u) + HeldIn(J, u)
                                    + One(r.t0, u) - One(s.t0, u),
               r.nstack \in Nat, r.nstack <= NStack
        PROVE  Exploring(Turn(r, J, stk), t, o, n + 1)
  BY Zenon DEF Entering
<1> DEFINE q == s.q
           all == J \o stk
<1>1. /\ Pool(s) /\ s.t0 \in Threads /\ IsQueue(q) /\ stk \in Seq(Jobbed)
      /\ q \in Seq(Jobbed)
      /\ \A u \in Threads :
            RefOf(s, u) = HeldIn(q, u) + HeldIn(stk, u) + One(s.t0, u) + o[u]
  BY DEF Paused, IsQueue
<1>2. /\ Len(stk) \in Nat /\ Len(J) \in Nat /\ Len(all) = Len(J) + Len(stk)
      /\ all \in Seq(Jobbed)
  BY <1>1, CatFacts
<1>3. r.q = Queued(q, e)
  OBVIOUS
<1>4. Fits(r.q, Len(all)) /\ Left(r.q, Len(all)) <= MaxJobs - (n + 1)
  <2> HIDE DEF q, all
  <2>1. n \in Int /\ Fits(q, Len(stk) + 1) /\ Left(q, Len(stk) + 1) <= MaxJobs - n
    BY DEF q
  <2>2. e.id \notin IdsOf(q)
    BY DEF q
  <2>3. Fits(r.q, Len(J) + Len(stk)) /\ Left(r.q, Len(J) + Len(stk)) <= MaxJobs - (n + 1)
    BY <1>1, <1>2, <1>3, <2>1, <2>2, StackFits
  <2> QED
    BY <1>2, <2>3
<1>5. IsQueue(r.q)
  <2>1. /\ r.q \in Seq(Jobbed) /\ Len(r.q) = Len(q) + 1 /\ Len(q) \in Nat
        /\ \A k \in 1 .. Len(q) : r.q[k] = q[k]
        /\ r.q[Len(q) + 1] = e
    BY <1>1, AppendProperties, LenProperties DEF Queued
  <2>2. 1 .. Len(q) + 1 = (1 .. Len(q)) \union {Len(q) + 1}
    BY <2>1, SMT
  <2> QED
    BY <1>1, <2>1, <2>2 DEF IsQueue
<1>6. ASSUME NEW u \in Threads
      PROVE  RefOf(r, u) = HeldIn(r.q, u) + HeldIn(all, u) + One(r.t0, u) + o[u]
  <2>1. HeldIn(r.q, u) = HeldIn(q, u) + One(e.t, u)
    <3>1. q \in Seq(Jobbed) /\ r.q = Append(q, e)
      BY <1>1 DEF Queued
    <3> HIDE DEF q
    <3>2. HeldIn(Append(q, e), u) = HeldIn(q, u) + One(e.t, u)
      BY <3>1, HeldInAppend DEF One
    <3> QED
      BY <3>1, <3>2
  <2>2. HeldIn(all, u) = HeldIn(J, u) + HeldIn(stk, u)
    BY <1>1, HeldInCat
  <2>3. /\ RefOf(r, u) = RefOf(s, u) + One(e.t, u) + HeldIn(J, u)
                                + One(r.t0, u) - One(s.t0, u)
        /\ RefOf(s, u) = HeldIn(q, u) + HeldIn(stk, u) + One(s.t0, u) + o[u]
    BY <1>1
  <2>4. /\ HeldIn(q, u) \in Nat /\ HeldIn(stk, u) \in Nat /\ HeldIn(J, u) \in Nat
        /\ One(e.t, u) \in Nat /\ One(s.t0, u) \in Nat /\ One(r.t0, u) \in Nat /\ o[u] \in Nat
    BY <1>1, HoldingFacts DEF One
  <2> DEFINE a1 == HeldIn(q, u)
             a2 == HeldIn(stk, u)
             a3 == HeldIn(J, u)
             b1 == One(e.t, u)
             b2 == One(s.t0, u)
             b3 == One(r.t0, u)
             ou == o[u]
  <2>5. /\ a1 \in Nat /\ a2 \in Nat /\ a3 \in Nat /\ b1 \in Nat /\ b2 \in Nat /\ b3 \in Nat
        /\ ou \in Nat /\ RefOf(s, u) = a1 + a2 + b2 + ou
        /\ RefOf(r, u) = RefOf(s, u) + b1 + a3 + b3 - b2
    BY <2>3, <2>4
  <2> HIDE DEF a1, a2, a3, b1, b2, b3, ou
  <2> DEFINE R == RefOf(s, u)
             R1 == RefOf(r, u)
  <2>6. R1 = R + b1 + a3 + b3 - b2 /\ R = a1 + a2 + b2 + ou /\ R \in Int
    BY <2>5
  <2> HIDE DEF R, R1
  <2>7. R1 = (a1 + b1) + (a3 + a2) + b3 + ou
    BY <2>5, <2>6, Z3
  <2> QED
    BY <2>1, <2>2, <2>7 DEF R1, a1, a2, a3, b1, b2, b3, ou
<1>7. Paused(r, all, t, o)
  BY <1>2, <1>5, <1>6 DEF Paused
<1> HIDE DEF all
<1>8. Exploring([s |-> r, todo |-> all], t, o, n + 1)
  BY <1>4, <1>7 DEF Exploring
<1> QED
  BY <1>8 DEF all, Turn

\* The jobs of a list of at most one instruction.
LEMMA OneJob ==
    ASSUME IsFlat(prog), NEW ids \in Seq(Ids), Len(ids) <= 1, NEW J, J = Jobs(ids)
    PROVE  /\ J \in Seq(Jobbed) /\ Len(J) \in Nat /\ Len(J) <= 1
           /\ \A k \in 1 .. Len(J) : J[k].t = NoThread
           /\ \A u \in Threads : HeldIn(J, u) = 0
<1>1. J \in Seq(Jobbed) /\ Len(J) = Len(ids) /\ \A k \in 1 .. Len(J) : J[k].t = NoThread
  BY JobsFacts
<1>2. ASSUME NEW u \in Threads PROVE HeldIn(J, u) = 0
  <2>1. \A k \in 1 .. Len(J) : J[k].t # u
    BY <1>1 DEF Threads
  <2> QED
    BY <1>1, <2>1, HeldInNone
<1> QED
  BY <1>1, <1>2, LenProperties

Blank(s, id, b) ==
    [[s EXCEPT !.q = Append(@, [id |-> id, t |-> NoThread])] EXCEPT !.nstack = b]

\* An entry without a thread, and jobs for instructions.
LEMMA EnteredEmpty ==
    ASSUME IsFlat(prog), NEW t \in Threads, NEW o \in [Threads -> Nat], NEW n \in Nat,
           NEW s, NEW stk, Paused(s, stk, t, o),
           Fits(s.q, Len(stk) + 1), Left(s.q, Len(stk) + 1) <= MaxJobs - n,
           NEW id \in Ids, id \notin IdsOf(s.q),
           NEW J \in Seq(Jobbed), Len(J) <= 1 + Stacks(prog.inst[id].op),
           \A k \in 1 .. Len(J) : J[k].t = NoThread,
           NEW b \in Nat, b <= NStack,
           NEW r, r = Blank(s, id, b)
    PROVE  Exploring(Turn(r, J, stk), t, o, n + 1)
<1> DEFINE e == [id |-> id, t |-> NoThread]
<1>1. /\ Pool(s) /\ s.t0 \in Threads /\ stk \in Seq(Jobbed) /\ GoesBack(s.t0, stk, t)
      /\ NFAFields \subseteq DOMAIN s
  BY DEF Paused, Pool
<1>2. e \in Jobbed /\ e.id = id /\ e.t = NoThread
  BY SMT DEF Jobbed, NoThread
<1>3. /\ NFAFields \subseteq DOMAIN r /\ r.ref = s.ref /\ r.freelist = s.freelist
      /\ r.t0 = s.t0 /\ r.q = Queued(s.q, e) /\ r.nstack = b
  BY <1>1 DEF NFAFields, Queued, Blank
<1>4. Pool(r) /\ \A u : RefOf(r, u) = RefOf(s, u)
  BY <1>1, <1>3, Pooled
<1>5. GoesBack(r.t0, J \o stk, t)
  BY <1>1, <1>3, BackWithJobs
<1>6. ASSUME NEW u \in Threads
      PROVE  RefOf(r, u) = RefOf(s, u) + One(e.t, u) + HeldIn(J, u)
                                + One(r.t0, u) - One(s.t0, u)
  <2>1. One(e.t, u) = 0 /\ One(r.t0, u) = One(s.t0, u) /\ One(s.t0, u) \in Nat
    BY <1>2, <1>3 DEF One, Threads
  <2>2. HeldIn(J, u) = 0
    <3>1. \A k \in 1 .. Len(J) : J[k].t # u
      BY DEF Threads
    <3> QED
      BY <3>1, HeldInNone
  <2>3. RefOf(s, u) \in Nat /\ RefOf(r, u) = RefOf(s, u)
    BY <1>1, <1>4, RefFacts
  <2> HIDE DEF e
  <2> QED
    BY <2>1, <2>2, <2>3, SMT
<1>7. /\ e.id \notin IdsOf(s.q) /\ Len(J) <= 1 + Stacks(prog.inst[e.id].op)
      /\ (e.t # NoThread => prog.inst[e.id].op \in Waits)
      /\ r.t0 \in Threads /\ r.nstack \in Nat /\ r.nstack <= NStack /\ Pool(r)
      /\ J \in Seq(Jobbed) /\ r.q = Queued(s.q, e)
  BY <1>1, <1>2, <1>3, <1>4
<1> HIDE DEF e
<1>8. Entering(s, stk, t, o, n, e, J, r)
  BY <1>2, <1>5, <1>6, <1>7, Zenon DEF Entering
<1> QED
  BY <1>8, Entered, Zenon

Holds(s, id) == Incref([s EXCEPT !.q = Append(@, [id |-> id, t |-> s.t0])], s.t0)

\* An entry with the current thread.
LEMMA EnteredHeld ==
    ASSUME IsFlat(prog), NEW t \in Threads, NEW o \in [Threads -> Nat], NEW n \in Nat,
           NEW s, NEW stk, Paused(s, stk, t, o),
           Fits(s.q, Len(stk) + 1), Left(s.q, Len(stk) + 1) <= MaxJobs - n,
           NEW id \in Ids, id \notin IdsOf(s.q), prog.inst[id].op \in Waits,
           NEW ids \in Seq(Ids), Len(ids) <= 1,
           NEW r, r = Holds(s, id)
    PROVE  Exploring(Turn(r, Jobs(ids), stk), t, o, n + 1)
<1> DEFINE e == [id |-> id, t |-> s.t0]
           m == [s EXCEPT !.q = Append(@, [id |-> id, t |-> s.t0])]
           J == Jobs(ids)
<1>1. /\ Pool(s) /\ s.t0 \in Threads /\ stk \in Seq(Jobbed) /\ GoesBack(s.t0, stk, t)
      /\ NFAFields \subseteq DOMAIN s /\ IsQueue(s.q)
      /\ s.nstack \in Nat /\ s.nstack <= NStack
      /\ RefOf(s, s.t0) = HeldIn(s.q, s.t0) + HeldIn(stk, s.t0) + One(s.t0, s.t0) + o[s.t0]
  BY DEF Paused, Pool
<1>2. e \in Jobbed /\ e.id = id /\ e.t = s.t0
  BY <1>1, SMT DEF Jobbed, Threads
<1>3. /\ NFAFields \subseteq DOMAIN m /\ m.ref = s.ref /\ m.freelist = s.freelist
      /\ m.t0 = s.t0 /\ m.q = Queued(s.q, e) /\ m.nstack = s.nstack
  BY <1>1 DEF NFAFields, Queued
<1>4. Pool(m) /\ \A u : RefOf(m, u) = RefOf(s, u)
  <2> HIDE DEF m
  <2> QED
    BY <1>1, <1>3, Pooled
<1>5. RefOf(s, s.t0) > 0
  <2>1. /\ HeldIn(s.q, s.t0) \in Nat /\ HeldIn(stk, s.t0) \in Nat /\ o[s.t0] \in Nat
        /\ One(s.t0, s.t0) = 1
    BY <1>1, HoldingFacts DEF One, IsQueue
  <2> QED
    BY <1>1, <2>1, SMT
<1>6. r = Incref(m, s.t0) /\ RefOf(m, s.t0) > 0
  BY <1>4, <1>5 DEF Holds
<1> HIDE DEF m
<1>7. /\ Pool(r) /\ Same(r, m)
      /\ \A u : RefOf(r, u) = IF u = s.t0 THEN RefOf(m, u) + 1 ELSE RefOf(m, u)
  <2>1. \A z : z = Incref(m, s.t0) =>
            /\ Pool(z) /\ Same(z, m)
            /\ \A u : RefOf(z, u) = IF u = s.t0 THEN RefOf(m, u) + 1 ELSE RefOf(m, u)
    BY <1>4, <1>6, IncrefFacts
  <2> QED
    BY <1>6, <2>1
<1>8. r.t0 = s.t0 /\ r.q = Queued(s.q, e) /\ r.nstack = s.nstack
  BY <1>3, <1>7 DEF Same
<1>9. /\ J \in Seq(Jobbed) /\ Len(J) \in Nat /\ Len(J) <= 1
      /\ (\A k \in 1 .. Len(J) : J[k].t = NoThread)
      /\ \A u \in Threads : HeldIn(J, u) = 0
  BY OneJob
<1> HIDE DEF J
<1>10. GoesBack(r.t0, J \o stk, t)
  BY <1>1, <1>8, <1>9, BackWithJobs
<1>11. ASSUME NEW u \in Threads
      PROVE  RefOf(r, u) = RefOf(s, u) + One(e.t, u) + HeldIn(J, u)
                                + One(r.t0, u) - One(s.t0, u)
  <2>1. One(e.t, u) = One(s.t0, u) /\ One(r.t0, u) = One(s.t0, u) /\ One(s.t0, u) \in Nat
    BY <1>2, <1>8 DEF One
  <2>2. RefOf(s, u) \in Nat /\ RefOf(r, u) = RefOf(s, u) + One(s.t0, u)
    <3>1. RefOf(s, u) \in Nat
      BY <1>1, RefFacts
    <3>2. RefOf(r, u) = IF u = s.t0 THEN RefOf(s, u) + 1 ELSE RefOf(s, u)
      BY <1>4, <1>7
    <3>3. CASE u = s.t0
      BY <3>1, <3>2, <3>3 DEF One
    <3>4. CASE u # s.t0
      <4>1. One(s.t0, u) = 0 /\ RefOf(r, u) = RefOf(s, u)
        BY <3>2, <3>4 DEF One
      <4> QED
        BY <3>1, <4>1, SMT
    <3> QED
      BY <3>3, <3>4
  <2>3. HeldIn(J, u) = 0
    BY <1>9
  <2> HIDE DEF e
  <2> QED
    BY <2>1, <2>2, <2>3, SMT
<1>12. Len(J) <= 1 + Stacks(prog.inst[id].op)
  <2>1. Stacks(prog.inst[id].op) = 0
    BY DEF Waits, Stacks, Nops
  <2> QED
    BY <1>9, <2>1
<1>13. /\ e.id \notin IdsOf(s.q) /\ Len(J) <= 1 + Stacks(prog.inst[e.id].op)
      /\ (e.t # NoThread => prog.inst[e.id].op \in Waits)
      /\ r.t0 \in Threads /\ r.nstack \in Nat /\ r.nstack <= NStack /\ Pool(r)
      /\ J \in Seq(Jobbed) /\ r.q = Queued(s.q, e)
  BY <1>1, <1>2, <1>7, <1>8, <1>9, <1>12
<1> HIDE DEF e
<1>14. Entering(s, stk, t, o, n, e, J, r)
  BY <1>2, <1>10, <1>11, <1>13, Zenon DEF Entering
<1>15. Exploring(Turn(r, J, stk), t, o, n + 1)
  BY <1>14, Entered, Zenon
<1> QED
  BY <1>15 DEF J

Entry(s, id) == [s EXCEPT !.q = Append(@, [id |-> id, t |-> NoThread])]

Captured(s, id, capture, b) ==
    [[AllocThread(Entry(s, id), capture) EXCEPT !.t0 = NewThread(Entry(s, id))]
        EXCEPT !.nstack = b]

\* An entry without a thread, a new current thread, and jobs to go back to the old one.
LEMMA EnteredCaptured ==
    ASSUME IsFlat(prog), NEW t \in Threads, NEW o \in [Threads -> Nat], NEW n \in Nat,
           NEW s, NEW stk, Paused(s, stk, t, o),
           Fits(s.q, Len(stk) + 1), Left(s.q, Len(stk) + 1) <= MaxJobs - n,
           NEW id \in Ids, id \notin IdsOf(s.q), prog.inst[id].op = "Capture",
           NEW J \in Seq(Jobbed), Len(J) <= 1, \A k \in 1 .. Len(J) : J[k].t = NoThread,
           NEW R \in Seq(Jobbed), Len(R) <= 1, \A k \in 1 .. Len(R) : R[k].t = NoThread,
           NEW b \in Nat, b <= NStack, NEW capture,
           NEW r, r = Captured(s, id, capture, b)
    PROVE  Exploring(Turn(r, J \o (<<Restore(s.t0)>> \o R), stk), t, o, n + 1)
<1> DEFINE e == [id |-> id, t |-> NoThread]
           m == Entry(s, id)
           a == AllocThread(m, capture)
           new == NewThread(m)
           top == <<Restore(s.t0)>>
           K == J \o (top \o R)
<1>1. /\ Pool(s) /\ s.t0 \in Threads /\ stk \in Seq(Jobbed) /\ GoesBack(s.t0, stk, t)
      /\ NFAFields \subseteq DOMAIN s
  BY DEF Paused, Pool
<1>2. e \in Jobbed /\ e.id = id /\ e.t = NoThread
  BY SMT DEF Jobbed, NoThread
<1>3. /\ NFAFields \subseteq DOMAIN m /\ m.ref = s.ref /\ m.freelist = s.freelist
      /\ m.t0 = s.t0 /\ m.q = Queued(s.q, e)
  BY <1>1 DEF NFAFields, Queued, Entry
<1>4. Pool(m) /\ \A u : RefOf(m, u) = RefOf(s, u)
  <2> HIDE DEF m
  <2> QED
    BY <1>1, <1>3, Pooled
<1>5. /\ Pool(a) /\ Same(a, m) /\ new \in Threads /\ RefOf(m, new) = 0
      /\ \A u : RefOf(a, u) = IF u = new THEN 1 ELSE RefOf(m, u)
  <2> HIDE DEF m
  <2>1. \A z : z = AllocThread(m, capture) => \A w : w = NewThread(m) =>
            /\ Pool(z) /\ Same(z, m) /\ w \in Threads /\ RefOf(m, w) = 0
            /\ \A u : RefOf(z, u) = IF u = w THEN 1 ELSE RefOf(m, u)
    BY <1>4, AllocFacts
  <2> QED
    BY <2>1
<1>6. r = [[a EXCEPT !.t0 = new] EXCEPT !.nstack = b]
  BY DEF Captured
<1> HIDE DEF m, a, new
<1>7. /\ NFAFields \subseteq DOMAIN r /\ r.ref = a.ref /\ r.freelist = a.freelist
      /\ r.t0 = new /\ r.q = Queued(s.q, e) /\ r.nstack = b
  <2>1. NFAFields \subseteq DOMAIN a
    BY <1>5 DEF Pool
  <2>2. a.q = m.q
    BY <1>5 DEF Same
  <2> QED
    BY <1>3, <1>6, <2>1, <2>2 DEF NFAFields
<1>8. Pool(r) /\ \A u : RefOf(r, u) = RefOf(a, u)
  BY <1>5, <1>7, Pooled
<1>9. /\ top \in Seq(Jobbed) /\ Len(top) = 1 /\ Restore(s.t0) \in Jobbed
      /\ \A u \in Threads : HeldIn(top, u) = One(s.t0, u)
  <2>1. Restore(s.t0) \in Jobbed /\ Restore(s.t0).t = s.t0
    <3>1. 0 \in Ids
      BY FlatFacts
    <3>2. s.t0 \in Nat
      BY <1>1 DEF Threads
    <3> QED
      BY <3>1, <3>2 DEF Restore, Jobbed
  <2>2. \A u \in Threads : HeldIn(top, u) = One(s.t0, u)
    BY <2>1, HeldInOne DEF One
  <2> QED
    BY <2>1, <2>2
<1> HIDE DEF top, e
<1> DEFINE D == top \o R
<1>10. /\ K \in Seq(Jobbed) /\ Len(K) <= 3 /\ D \in Seq(Jobbed) /\ K = J \o D
       /\ K \o stk = J \o (top \o (R \o stk)) /\ R \o stk \in Seq(Jobbed)
       /\ top \o (R \o stk) \in Seq(Jobbed)
  <2> HIDE DEF K, D
  <2>1. D \in Seq(Jobbed) /\ Len(D) = Len(top) + Len(R) /\ Len(R) \in Nat
    BY <1>9, JobCat DEF D
  <2>2. D \o stk = top \o (R \o stk)
    <3>1. top \in Seq(Jobbed) /\ R \in Seq(Jobbed) /\ stk \in Seq(Jobbed)
      BY <1>1, <1>9
    <3>2. (top \o R) \o stk = top \o (R \o stk)
      BY <3>1, JobAssoc, Zenon
    <3> QED
      BY <3>2 DEF D
  <2>3. K = J \o D
    BY DEF K, D
  <2>4. K \in Seq(Jobbed) /\ Len(K) = Len(J) + Len(D) /\ Len(J) \in Nat
    BY <2>1, <2>3, JobCat
  <2>5. K \o stk = J \o (D \o stk)
    BY <1>1, <2>1, <2>3, JobCat
  <2>6. R \o stk \in Seq(Jobbed)
    BY <1>1, JobCat
  <2>7. top \o (R \o stk) \in Seq(Jobbed)
    BY <1>9, <2>6, JobCat
  <2>8. Len(K) <= 3
    BY <1>9, <2>1, <2>4, SMT
  <2> QED
    BY <2>1, <2>2, <2>3, <2>4, <2>5, <2>6, <2>7, <2>8
<1> HIDE DEF K, D
<1>11. GoesBack(r.t0, K \o stk, t)
  <2>1. GoesBack(s.t0, R \o stk, t)
    BY <1>1, BackWithJobs
  <2>2. GoesBack(new, top \o (R \o stk), t)
    BY <1>1, <1>9, <1>10, <2>1, BackRestored DEF top
  <2>3. GoesBack(new, J \o (top \o (R \o stk)), t)
    BY <1>10, <2>2, BackWithJobs
  <2> QED
    BY <1>7, <1>10, <2>3
<1>12. ASSUME NEW u \in Threads PROVE HeldIn(K, u) = One(s.t0, u)
  <2>1. HeldIn(J, u) = 0
    <3>1. \A k \in 1 .. Len(J) : J[k].t # u
      BY DEF Threads
    <3> QED
      BY <3>1, HeldInNone
  <2>2. HeldIn(R, u) = 0
    <3>1. \A k \in 1 .. Len(R) : R[k].t # u
      BY DEF Threads
    <3> QED
      BY <3>1, HeldInNone
  <2>3. HeldIn(D, u) = HeldIn(top, u) + HeldIn(R, u)
    BY <1>9, HeldInCat DEF D
  <2>4. HeldIn(K, u) = HeldIn(J, u) + HeldIn(D, u)
    BY <1>10, HeldInCat
  <2>5. One(s.t0, u) \in Nat
    BY DEF One
  <2> QED
    BY <1>9, <2>1, <2>2, <2>3, <2>4, <2>5
<1>13. ASSUME NEW u \in Threads
      PROVE  RefOf(r, u) = RefOf(s, u) + One(e.t, u) + HeldIn(K, u)
                                + One(r.t0, u) - One(s.t0, u)
  <2>1. One(e.t, u) = 0 /\ HeldIn(K, u) = One(s.t0, u) /\ One(s.t0, u) \in Nat
    BY <1>2, <1>12 DEF One, Threads
  <2>2. RefOf(s, u) \in Nat
    BY <1>1, RefFacts
  <2>3. RefOf(r, u) = RefOf(s, u) + One(r.t0, u) /\ One(r.t0, u) \in Nat
    <3>1. RefOf(r, u) = IF u = new THEN 1 ELSE RefOf(s, u)
      BY <1>4, <1>5, <1>8
    <3>2. CASE u = new
      <4>1. RefOf(s, u) = 0 /\ One(r.t0, u) = 1
        BY <1>4, <1>5, <1>7, <3>2 DEF One
      <4> QED
        BY <3>1, <3>2, <4>1, SMT
    <3>3. CASE u # new
      <4>1. One(r.t0, u) = 0
        BY <1>7, <3>3 DEF One
      <4> QED
        BY <2>2, <3>1, <3>3, <4>1, SMT
    <3> QED
      BY <3>2, <3>3
  <2> QED
    BY <2>1, <2>2, <2>3, SMT
<1>14. /\ e.id \notin IdsOf(s.q) /\ Len(K) <= 1 + Stacks(prog.inst[e.id].op)
      /\ (e.t # NoThread => prog.inst[e.id].op \in Waits)
      /\ r.t0 \in Threads /\ r.nstack \in Nat /\ r.nstack <= NStack /\ Pool(r)
      /\ K \in Seq(Jobbed) /\ r.q = Queued(s.q, e)
  <2>1. 1 + Stacks(prog.inst[e.id].op) = 3
    BY <1>2, SMT DEF Stacks
  <2> QED
    BY <1>2, <1>5, <1>7, <1>8, <1>10, <2>1
<1>15. Entering(s, stk, t, o, n, e, K, r)
  BY <1>2, <1>11, <1>13, <1>14, Zenon DEF Entering
<1>16. Exploring(Turn(r, K, stk), t, o, n + 1)
  BY <1>15, Entered, Zenon
<1> QED
  BY <1>16 DEF K, top

\* What a flattened program promises of an instruction.
LEMMA InstFacts ==
    ASSUME IsFlat(prog), NEW id \in Ids, NEW i, i = prog.inst[id]
    PROVE  /\ i.op \in {"Fail", "AltMatch", "Nop", "Capture", "ByteRange", "Match", "EmptyWidth"}
           /\ <<i.out>> \in Seq(Ids) /\ IdsAfter(id) \in Seq(Ids) /\ Len(IdsAfter(id)) <= 1
           /\ i.op = "AltMatch" => <<id + 1>> \in Seq(Ids)
           /\ <<id + i.hint>> \in Seq(Ids)
<1>1. /\ i.op \in {"Fail", "AltMatch", "Nop", "Capture", "ByteRange", "Match", "EmptyWidth"}
      /\ i.out \in Ids /\ (~i.last \/ i.op = "AltMatch" => id + 1 \in Ids) /\ id + i.hint \in Ids
  BY DEF IsFlat, Ids
<1>2. \A x \in Ids : <<x>> \in Seq(Ids) /\ Len(<<x>>) = 1
  BY SMT
<1>3. <<>> \in Seq(Ids) /\ Len(<<>>) = 0
  BY SMT
<1>4. IdsAfter(id) \in Seq(Ids) /\ Len(IdsAfter(id)) <= 1
  <2>1. CASE i.last
    BY <1>3, <2>1 DEF IdsAfter
  <2>2. CASE ~i.last
    <3>1. id + 1 \in Ids /\ IdsAfter(id) = <<id + 1>>
      BY <1>1, <2>2 DEF IdsAfter
    <3> QED
      BY <1>2, <3>1
  <2> QED
    BY <2>1, <2>2
<1> QED
  BY <1>1, <1>2, <1>4

\* The turn pops a job, and either has nothing to do for it, or enters its instruction.
LEMMA ExploreSkips ==
    ASSUME IsFlat(prog), NEW t \in Threads, NEW o \in [Threads -> Nat], NEW n \in Nat,
           NEW s, NEW stk, Paused(s, stk, t, o), Len(stk) \in Nat,
           Fits(s.q, Len(stk) + 1), Left(s.q, Len(stk) + 1) <= MaxJobs - n
    PROVE  Exploring(Turn(s, Jobs(<<>>), stk), t, o, n + 1)
<1> DEFINE q == s.q
           l == Len(stk)
           x == Turn(s, Jobs(<<>>), stk)
<1>1. x.s = s /\ x.todo = stk
  <2>1. Jobs(<<>>) = <<>>
    BY DEF Jobs
  <2>2. stk \in Seq(Jobbed)
    BY DEF Paused
  <2>3. <<>> \o stk = stk
    BY <2>2, SMT
  <2> QED
    BY <2>1, <2>3 DEF Turn
<1>2. l \in Nat /\ Fits(q, l + 1) /\ Left(q, l + 1) <= MaxJobs - n
  OBVIOUS
<1>3. q \in Seq(Jobbed)
  BY DEF Paused, IsQueue
<1> HIDE DEF q, l
<1>4. /\ Cardinality(OpsOf(q, {"Capture"})) \in Nat /\ Cardinality(OpsOf(q, Nops)) \in Nat
      /\ Cardinality(IdsOf(q)) \in Nat /\ ProgSize \in Nat
  BY <1>3, OpsFacts, FlatFacts
<1>5. Fits(q, l)
  BY <1>2, <1>4 DEF Fits
<1>6. Left(q, l) <= MaxJobs - (n + 1)
  <2> DEFINE I == Cardinality(IdsOf(q))
  <2>1. I \in Nat /\ 3 * (ProgSize - I) + (l + 1) <= 3 * ProgSize + 1 - n
    BY <1>2, <1>4 DEF Left, MaxJobs
  <2> HIDE DEF I
  <2>2. 3 * (ProgSize - I) + l <= 3 * ProgSize + 1 - (n + 1)
    BY <1>2, <1>4, <2>1
  <2>3. Left(q, l) = 3 * (ProgSize - I) + l
    BY Zenon DEF Left, I
  <2>4. MaxJobs = 3 * ProgSize + 1
    BY Zenon DEF MaxJobs
  <2> QED
    BY <1>2, <1>4, <2>1, <2>2, <2>3, <2>4
<1> HIDE DEF x
<1>7. Exploring(x, t, o, n + 1)
  BY <1>1, <1>5, <1>6 DEF Exploring, q, l
<1> QED
  BY <1>7 DEF x

\* How high the stack got.
Top(b, st) == IF b < Len(st) THEN Len(st) ELSE b

\* The highest the stack has been is within it.
LEMMA TopFits ==
    ASSUME IsFlat(prog), NEW n \in Nat, NEW q \in Seq(Jobbed), NEW stk \in Seq(Jobbed),
           Fits(q, Len(stk) + 1), Left(q, Len(stk) + 1) <= MaxJobs - n,
           NEW id \in Ids, id \notin IdsOf(q),
           NEW jobs \in Seq(Jobbed), Len(jobs) <= Stacks(prog.inst[id].op),
           NEW b \in Nat, b <= NStack
    PROVE  Top(b, jobs \o stk) \in Nat /\ Top(b, jobs \o stk) <= NStack
<1> DEFINE l == Len(stk)
           j == Len(jobs)
           e == [id |-> id, t |-> NoThread]
           sum == Len(jobs \o stk)
<1>1. l \in Nat /\ j \in Nat /\ sum = j + l
  BY JobCat
<1>2. e \in Jobbed /\ e.id = id
  BY SMT DEF Jobbed, NoThread
<1>3. Fits(q, l + 1) /\ Left(q, l + 1) <= MaxJobs - n /\ e.id \notin IdsOf(q)
  BY <1>2
<1> HIDE DEF l, j, e
<1>4. \A r : r = Queued(q, e) => Stacks(prog.inst[e.id].op) + l <= NStack /\ NStack \in Nat
  <2>1. 0 <= 1 + Stacks(prog.inst[e.id].op)
    BY SMT DEF Stacks
  <2>2. 0 \in Nat /\ n \in Int
    BY SMT
  <2> QED
    BY <1>1, <1>2, <1>3, <2>1, <2>2, StackFits
<1>5. Stacks(prog.inst[id].op) + l <= NStack /\ NStack \in Nat
  BY <1>2, <1>4
<1>6. Stacks(prog.inst[id].op) \in Nat /\ j <= Stacks(prog.inst[id].op)
  BY SMT DEF Stacks, j
<1>7. sum \in Nat /\ sum <= NStack
  <2> HIDE DEF sum
  <2> QED
    BY <1>1, <1>5, <1>6, SMT
<1> QED
  BY <1>5, <1>7 DEF Top

\* A turn whose jobs are pushed in two parts.
LEMMA TurnOver ==
    ASSUME NEW J \in Seq(Jobbed), NEW R \in Seq(Jobbed), NEW stk \in Seq(Jobbed), NEW r
    PROVE  Turn(r, J, R \o stk) = Turn(r, J \o R, stk)
BY JobAssoc DEF Turn

\* Jobs without a thread, after jobs without one.
LEMMA NoThreads ==
    ASSUME NEW J \in Seq(Jobbed), NEW R \in Seq(Jobbed),
           \A k \in 1 .. Len(J) : J[k].t = NoThread,
           \A k \in 1 .. Len(R) : R[k].t = NoThread
    PROVE  \A k \in 1 .. Len(J \o R) : (J \o R)[k].t = NoThread
<1>1. /\ Len(J \o R) = Len(J) + Len(R) /\ Len(J) \in Nat /\ Len(R) \in Nat
      /\ \A k \in 1 .. Len(J) + Len(R) : (J \o R)[k] = IF k <= Len(J) THEN J[k] ELSE R[k - Len(J)]
  BY ConcatProperties, LenProperties
<1> SUFFICES ASSUME NEW k \in 1 .. Len(J) + Len(R) PROVE (J \o R)[k].t = NoThread
  BY <1>1
<1>2. k \in 1 .. Len(J) \/ (~(k <= Len(J)) /\ k - Len(J) \in 1 .. Len(R))
  BY <1>1, SMT
<1>3. k \in 1 .. Len(J) => k <= Len(J)
  BY <1>1, SMT
<1> QED
  BY <1>1, <1>2, <1>3

\* A new thread leaves the mark of the stack as it is.
LEMMA CapturedTop ==
    ASSUME NEW s, Pool(s), NEW id, NEW capture
    PROVE  [AllocThread(Entry(s, id), capture) EXCEPT !.t0 = NewThread(Entry(s, id))].nstack
                = s.nstack
<1> DEFINE m == Entry(s, id)
           a == AllocThread(m, capture)
<1>1. /\ NFAFields \subseteq DOMAIN m /\ m.ref = s.ref /\ m.freelist = s.freelist
      /\ m.nstack = s.nstack
  BY DEF NFAFields, Entry, Pool
<1> HIDE DEF m
<1>2. Pool(m)
  BY <1>1, Pooled
<1>3. Same(a, m) /\ Pool(a)
  <2>1. \A z : z = AllocThread(m, capture) => \A w : w = NewThread(m) =>
            /\ Pool(z) /\ Same(z, m)
    BY <1>2, AllocFacts
  <2> QED
    BY <2>1
<1> HIDE DEF a
<1>4. NFAFields \subseteq DOMAIN a /\ a.nstack = s.nstack
  BY <1>1, <1>3 DEF Same, Pool
<1>5. [a EXCEPT !.t0 = NewThread(m)].nstack = s.nstack
  BY <1>4 DEF NFAFields
<1> QED
  BY <1>5 DEF a, m

\* One turn of AddToThreadq (nfa.cc 207-322) keeps every reference counted and the stack
\* within NStack.
LEMMA ExploreFacts ==
    ASSUME IsFlat(prog), NEW t \in Threads, NEW o \in [Threads -> Nat], NEW n \in Nat,
           n < MaxJobs, NEW x, x.todo # <<>>, Exploring(x, t, o, n),
           NEW c, NEW p
    PROVE  Exploring(Explore(x, c, p), t, o, n + 1)
<1> DEFINE a == Head(x.todo)
           stk == Tail(x.todo)
           i == prog.inst[a.id]
           s == IF a.t = NoThread THEN x.s ELSE [Decref(x.s, x.s.t0) EXCEPT !.t0 = a.t]
           empty == [s EXCEPT !.q = Append(@, [id |-> a.id, t |-> NoThread])]
           held == Incref([s EXCEPT !.q = Append(@, [id |-> a.id, t |-> s.t0])], s.t0)
           capture == [s.capture[s.t0] EXCEPT ![i.arg] = p]
           captured == [AllocThread(empty, capture) EXCEPT !.t0 = NewThread(empty)]
           rest == Jobs(IdsAfter(a.id))
           y == Explore(x, c, p)
<1>1. Paused(x.s, x.todo, t, o) /\ Fits(x.s.q, Len(x.todo)) /\ Left(x.s.q, Len(x.todo)) <= MaxJobs - n
  BY DEF Exploring
<1>2. /\ Paused(s, stk, t, o) /\ s.q = x.s.q
      /\ a.id \in Ids /\ Len(x.todo) = Len(stk) + 1 /\ Len(stk) \in Nat
  <2>1. \A b : b = Head(x.todo) =>
            \A r : r = (IF b.t = NoThread THEN x.s ELSE [Decref(x.s, x.s.t0) EXCEPT !.t0 = b.t]) =>
                /\ Paused(r, stk, t, o) /\ r.q = x.s.q
                /\ b.id \in Ids /\ Len(x.todo) = Len(stk) + 1 /\ Len(stk) \in Nat
    BY <1>1, Popped
  <2> QED
    BY <2>1
<1>3. Fits(s.q, Len(stk) + 1) /\ Left(s.q, Len(stk) + 1) <= MaxJobs - n
  BY <1>1, <1>2
<1>4. ASSUME a.id = 0 \/ HasIndex(s.q, a.id) PROVE Exploring(y, t, o, n + 1)
  <2>1. y = Turn(s, Jobs(<<>>), stk)
    BY <1>4, Zenon DEF Explore, Turn
  <2> HIDE DEF s, stk, y
  <2> QED
    BY <1>2, <1>3, <2>1, ExploreSkips, Zenon
<1>5. ASSUME ~(a.id = 0 \/ HasIndex(s.q, a.id)) PROVE Exploring(y, t, o, n + 1)
  <2> DEFINE Went(r, ids) == Turn(r, Jobs(ids), stk)
             Pushed(r, jobs, ids) ==
                Turn([r EXCEPT !.nstack = Top(r.nstack, jobs \o stk)], Jobs(ids), jobs \o stk)
             flags == EmptyFlags(search.context, p)
  <2>1. y = CASE i.op = "Fail" -> Went(empty, <<>>)
              [] i.op = "AltMatch" -> Went(held, <<a.id + 1>>)
              [] i.op = "Nop" -> Pushed(empty, rest, <<i.out>>)
              [] i.op = "Capture" ->
                    IF i.arg < s.ncapture
                    THEN Pushed(captured, <<Restore(s.t0)>> \o rest, <<i.out>>)
                    ELSE Pushed(empty, rest, <<i.out>>)
              [] i.op = "ByteRange" ->
                    IF ~Matches(i, c) THEN Went(empty, IdsAfter(a.id))
                    ELSE Went(held, IF i.hint = 0 THEN <<>> ELSE <<a.id + i.hint>>)
              [] i.op = "Match" -> Went(held, IdsAfter(a.id))
              [] i.op = "EmptyWidth" ->
                    Pushed(empty, rest, IF i.arg \in flags THEN <<i.out>> ELSE <<>>)
    BY <1>5, Zenon DEF Explore, Turn, Top
  <2>8. /\ a.id \notin IdsOf(s.q) /\ s.nstack \in Nat /\ s.nstack <= NStack /\ s.q \in Seq(Jobbed)
        /\ stk \in Seq(Jobbed) /\ s.t0 \in Threads /\ Pool(s)
    <3> HIDE DEF s, stk
    <3>1. /\ s.nstack \in Nat /\ s.nstack <= NStack /\ s.q \in Seq(Jobbed)
          /\ stk \in Seq(Jobbed) /\ s.t0 \in Threads /\ Pool(s)
      BY <1>2 DEF Paused, IsQueue
    <3>2. a.id \notin IdsOf(s.q)
      <4>1. DOMAIN s.q = 1 .. Len(s.q)
        BY <3>1, LenProperties
      <4> QED
        BY <1>5, <4>1 DEF HasIndex, IdsOf
    <3> QED
      BY <3>1, <3>2
  <2>9. /\ i.op \in {"Fail", "AltMatch", "Nop", "Capture", "ByteRange", "Match", "EmptyWidth"}
        /\ <<i.out>> \in Seq(Ids) /\ IdsAfter(a.id) \in Seq(Ids) /\ Len(IdsAfter(a.id)) <= 1
        /\ (i.op = "AltMatch" => <<a.id + 1>> \in Seq(Ids))
        /\ <<a.id + i.hint>> \in Seq(Ids)
        /\ <<>> \in Seq(Ids)
    BY <1>2, InstFacts
  <2>10. /\ Len(<<i.out>>) <= 1 /\ Len(<<a.id + 1>>) <= 1 /\ Len(<<a.id + i.hint>>) <= 1
         /\ Len(<<>>) <= 1
    <3>1. \A z : Len(<<z>>) = 1
      BY SMT
    <3> QED
      BY <3>1, SMT
  <2> DEFINE id == a.id
             top == <<Restore(s.t0)>>
  <2>11. empty = Blank(s, id, s.nstack) /\ empty = Entry(s, id)
    BY <2>8, Zenon DEF Blank, Pool, Entry, NFAFields
  <2>12. \A b : [empty EXCEPT !.nstack = b] = Blank(s, id, b)
    BY DEF Blank
  <2>13. \A b : [captured EXCEPT !.nstack = b] = Captured(s, id, capture, b)
    BY DEF Captured, Entry
  <2>14. held = Holds(s, id)
    BY DEF Holds
  <2>15. captured.nstack = s.nstack
    <3>1. captured.nstack = [AllocThread(Entry(s, id), capture)
                                EXCEPT !.t0 = NewThread(Entry(s, id))].nstack
      BY DEF Entry
    <3> HIDE DEF s, id, captured, capture
    <3> QED
      BY <2>8, <3>1, CapturedTop
  <2> DEFINE op == i.op
  <2>16. op = prog.inst[id].op
    OBVIOUS
  <2>17. id \in Ids /\ id \notin IdsOf(s.q)
    BY <1>2, <2>8
  <2>18. /\ rest \in Seq(Jobbed) /\ Len(rest) \in Nat /\ Len(rest) <= 1
         /\ \A k \in 1 .. Len(rest) : rest[k].t = NoThread
    <3> HIDE DEF a
    <3> QED
      BY <2>9, OneJob
  <2>2. empty.nstack = s.nstack
    BY <2>8 DEF Pool, NFAFields
  <2> HIDE DEF a, stk, s, empty, held, capture, captured, rest, y, id, op, i
  <2> HIDE DEF flags
  <2>3. /\ i.op = "Fail" => y = Turn(empty, Jobs(<<>>), stk)
        /\ i.op = "AltMatch" => y = Turn(held, Jobs(<<a.id + 1>>), stk)
        /\ i.op = "Match" => y = Turn(held, rest, stk)
    BY <2>1, Zenon DEF rest
  <2>4. i.op = "Nop" \/ (i.op = "Capture" /\ ~(i.arg < s.ncapture)) =>
            y = Turn([empty EXCEPT !.nstack = Top(s.nstack, rest \o stk)], Jobs(<<i.out>>), rest \o stk)
    BY <2>1, <2>2, Zenon
  <2>5. i.op = "Capture" /\ i.arg < s.ncapture =>
            y = Turn([captured EXCEPT !.nstack = Top(captured.nstack, (<<Restore(s.t0)>> \o rest) \o stk)],
                     Jobs(<<i.out>>), (<<Restore(s.t0)>> \o rest) \o stk)
    BY <2>1, Zenon
  <2>6. i.op = "ByteRange" =>
            \/ y = Turn(empty, rest, stk)
            \/ y = Turn(held, Jobs(<<>>), stk)
            \/ y = Turn(held, Jobs(<<a.id + i.hint>>), stk)
    BY <2>1, Zenon DEF rest
  <2>7. i.op = "EmptyWidth" =>
            \/ y = Turn([empty EXCEPT !.nstack = Top(s.nstack, rest \o stk)], Jobs(<<i.out>>), rest \o stk)
            \/ y = Turn([empty EXCEPT !.nstack = Top(s.nstack, rest \o stk)], Jobs(<<>>), rest \o stk)
    BY <2>1, <2>2, Zenon
  <2>19. ASSUME NEW b \in Nat, b <= NStack, NEW J \in Seq(Jobbed), Len(J) <= 1 + Stacks(op),
                \A k \in 1 .. Len(J) : J[k].t = NoThread
         PROVE  Exploring(Turn(Blank(s, id, b), J, stk), t, o, n + 1)
    BY <1>2, <1>3, <2>16, <2>17, <2>19, EnteredEmpty
  <2>20. ASSUME NEW ids \in Seq(Ids), Len(ids) <= 1
         PROVE  Exploring(Turn(empty, Jobs(ids), stk), t, o, n + 1)
    <3>1. /\ Jobs(ids) \in Seq(Jobbed) /\ Len(Jobs(ids)) \in Nat /\ Len(Jobs(ids)) <= 1
          /\ \A k \in 1 .. Len(Jobs(ids)) : Jobs(ids)[k].t = NoThread
      BY <2>20, OneJob
    <3>2. Len(Jobs(ids)) <= 1 + Stacks(op)
      BY <3>1, SMT DEF Stacks
    <3> QED
      BY <2>8, <2>11, <2>19, <3>1, <3>2
  <2>21. ASSUME NEW ids \in Seq(Ids), Len(ids) <= 1, op \in Waits
         PROVE  Exploring(Turn(held, Jobs(ids), stk), t, o, n + 1)
    BY <1>2, <1>3, <2>14, <2>16, <2>17, <2>21, EnteredHeld
  <2> DEFINE st == rest \o stk
             b1 == Top(s.nstack, st)
  <2>22. ASSUME NEW ids \in Seq(Ids), Len(ids) <= 1, op \in {"Nop", "EmptyWidth", "Capture"}
         PROVE  Exploring(Turn([empty EXCEPT !.nstack = b1], Jobs(ids), st), t, o, n + 1)
    <3> DEFINE J == Jobs(ids)
               K == J \o rest
    <3>1. /\ J \in Seq(Jobbed) /\ Len(J) \in Nat /\ Len(J) <= 1
          /\ \A k \in 1 .. Len(J) : J[k].t = NoThread
      BY <2>22, OneJob
    <3>2. Stacks(op) \in Nat /\ Stacks(op) >= 1
      BY <2>22, SMT DEF Stacks, Nops
    <3> HIDE DEF J
    <3>3. K \in Seq(Jobbed) /\ Len(K) = Len(J) + Len(rest)
      BY <2>18, <3>1, JobCat
    <3>4. \A k \in 1 .. Len(K) : K[k].t = NoThread
      BY <2>18, <3>1, NoThreads
    <3>5. Turn([empty EXCEPT !.nstack = b1], J, st) = Turn([empty EXCEPT !.nstack = b1], K, stk)
      <4> HIDE DEF b1
      <4> QED
        BY <2>8, <2>18, <3>1, TurnOver
    <3>6. b1 \in Nat /\ b1 <= NStack
      <4>1. Len(rest) <= Stacks(prog.inst[id].op)
        BY <2>16, <2>18, <3>2, SMT
      <4> QED
        BY <1>3, <2>8, <2>17, <2>18, <4>1, TopFits
    <3> HIDE DEF b1, K, st
    <3>7. Len(K) <= 1 + Stacks(op)
      BY <2>18, <3>1, <3>2, <3>3, SMT
    <3>8. Exploring(Turn(Blank(s, id, b1), K, stk), t, o, n + 1)
      BY <2>19, <3>3, <3>4, <3>6, <3>7
    <3>9. [empty EXCEPT !.nstack = b1] = Blank(s, id, b1)
      BY <2>12
    <3> QED
      BY <3>5, <3>8, <3>9 DEF J
  <2> DEFINE tops == top \o rest
             b2 == Top(captured.nstack, tops \o stk)
  <2>23. ASSUME NEW ids \in Seq(Ids), Len(ids) <= 1, op = "Capture"
         PROVE  Exploring(Turn([captured EXCEPT !.nstack = b2], Jobs(ids), tops \o stk), t, o, n + 1)
    <3> DEFINE J == Jobs(ids)
    <3>1. /\ J \in Seq(Jobbed) /\ Len(J) \in Nat /\ Len(J) <= 1
          /\ \A k \in 1 .. Len(J) : J[k].t = NoThread
      BY <2>23, OneJob
    <3>2. top \in Seq(Jobbed) /\ Len(top) = 1
      <4>1. 0 \in Ids
        BY FlatFacts
      <4>2. s.t0 \in Nat
        BY <2>8 DEF Threads
      <4>3. Restore(s.t0) \in Jobbed
        BY <4>1, <4>2 DEF Restore, Jobbed
      <4> QED
        BY <4>3
    <3> HIDE DEF J, top
    <3>3. tops \in Seq(Jobbed) /\ Len(tops) = 1 + Len(rest)
      BY <2>18, <3>2, JobCat
    <3>4. Turn([captured EXCEPT !.nstack = b2], J, tops \o stk)
                = Turn([captured EXCEPT !.nstack = b2], J \o tops, stk)
      <4> HIDE DEF b2, tops
      <4> QED
        BY <2>8, <3>1, <3>3, TurnOver
    <3>5. b2 \in Nat /\ b2 <= NStack
      <4> HIDE DEF tops
      <4>1. Len(tops) <= Stacks(prog.inst[id].op)
        <5>1. Stacks(prog.inst[id].op) = 2
          BY <2>16, <2>23 DEF Stacks
        <5> QED
          BY <2>18, <3>3, <5>1, SMT
      <4> QED
        BY <1>3, <2>8, <2>15, <2>17, <3>3, <4>1, TopFits
    <3> HIDE DEF b2
    <3>6. [captured EXCEPT !.nstack = b2] = Captured(s, id, capture, b2)
      BY <2>13
    <3>7. Exploring(Turn(Captured(s, id, capture, b2), J \o (<<Restore(s.t0)>> \o rest), stk), t, o, n + 1)
      <4>1. prog.inst[id].op = "Capture"
        BY <2>16, <2>23
      <4>2. /\ Paused(s, stk, t, o) /\ Fits(s.q, Len(stk) + 1)
            /\ Left(s.q, Len(stk) + 1) <= MaxJobs - n
        BY <1>2, <1>3
      <4> QED
        BY <2>17, <2>18, <3>1, <3>5, <4>1, <4>2, EnteredCaptured
    <3> QED
      BY <3>4, <3>6, <3>7 DEF J, top
  <2> HIDE DEF b1, b2, top
  <2>24. CASE op = "Fail"
    BY <2>3, <2>9, <2>10, <2>20, <2>24 DEF op
  <2>25. CASE op = "AltMatch"
    <3>1. op \in Waits
      BY <2>25 DEF Waits
    <3> QED
      BY <2>3, <2>9, <2>10, <2>21, <2>25, <3>1 DEF op
  <2>26. CASE op = "Nop"
    BY <2>4, <2>9, <2>10, <2>22, <2>26 DEF op, b1
  <2>27. CASE op = "Capture"
    <3>1. CASE i.arg < s.ncapture
      BY <2>5, <2>9, <2>10, <2>23, <2>27, <3>1 DEF op, b2, top
    <3>2. CASE ~(i.arg < s.ncapture)
      BY <2>4, <2>9, <2>10, <2>22, <2>27, <3>2 DEF op, b1
    <3> QED
      BY <3>1, <3>2
  <2>28. CASE op = "ByteRange"
    <3>1. op \in Waits
      BY <2>28 DEF Waits
    <3> QED
      BY <2>6, <2>9, <2>10, <2>18, <2>20, <2>21, <2>28, <3>1 DEF op, rest
  <2>29. CASE op = "Match"
    <3>1. op \in Waits
      BY <2>29 DEF Waits
    <3> QED
      BY <2>3, <2>9, <2>21, <2>29, <3>1 DEF op, rest
  <2>30. CASE op = "EmptyWidth"
    BY <2>7, <2>9, <2>10, <2>22, <2>30 DEF op, b1
  <2> QED
    BY <2>9, <2>24, <2>25, <2>26, <2>27, <2>28, <2>29, <2>30 DEF op
<1> QED
  BY <1>4, <1>5

-----------------------------------------------------------------------------
(* The loops of the engines: turns n = 1, 2, .. of the loop that how names. *)

OneMore(how, x, n) ==
    CASE how.loop = "AddToThreadq" ->
            IF x.todo = <<>> THEN x ELSE Explore(x, how.c, how.p)
      [] how.loop = "DecrefAll" ->
            IF how.q[n].t = NoThread THEN x ELSE Decref(x, how.q[n].t)
      [] how.loop = "Step" -> StepThread(x, how.q[n], n = 1, how.c, how.p)
      [] how.loop = "ShortCircuit" -> Shorten(x)
      [] how.loop = "FloodNode" ->
            IF x.todo = <<>> \/ x.s.failed THEN x ELSE FloodInst(x, how.n)
      [] how.loop = "AddToQueue" ->
            IF x.todo = <<>> THEN x ELSE Enqueue(x, how.flag, how.matchkind)
      [] how.loop = "AddAll" -> AddToQueue(x, how.q[n], how.flag, how.matchkind)
      [] how.loop = "RunOnByte" -> RunEntry(x, how.q, n, how.c, how.flag, how.matchkind)
      [] how.loop = "Keep" -> KeepEntry(x, how.q, n, how.flag, how.matchkind)
      [] how.loop = "MatchIdsIn" ->
            IF how.q[n] # MarkId /\ prog.inst[how.q[n]].op = "Match"
            THEN Append(x, prog.inst[how.q[n]].arg) ELSE x
      [] how.loop = "WithRow" -> WithState(x, how.r[Inputs[n]].state)

\* g[n] is what n turns make of x.
Turns(g, how, x, N) == g = [n \in 0 .. N |-> IF n = 0 THEN x ELSE OneMore(how, g[n - 1], n)]

\* The turns of a loop exist: a recursive function on 0 .. N.
LEMMA TurnsExist ==
    ASSUME NEW N \in Nat, NEW how, NEW x
    PROVE  \E g : Turns(g, how, x, N)
<1> DEFINE Runs(g, m) == /\ g = [k \in 0 .. m |-> g[k]]
                           /\ g[0] = x /\ \A k \in 1 .. m : g[k] = OneMore(how, g[k - 1], k)
           P == {m \in 0 .. N : \E g : Runs(g, m)}
<1>1. 0 \in P
  <2> DEFINE g == [k \in 0 .. 0 |-> x]
  <2>1. 0 \in 0 .. 0 /\ 1 .. 0 = {} /\ 0 \in 0 .. N
    BY SMT
  <2>2. g = [k \in 0 .. 0 |-> g[k]] /\ g[0] = x
    BY <2>1
  <2> HIDE DEF g
  <2>3. Runs(g, 0)
    BY <2>1, <2>2
  <2> QED
    BY <2>1, <2>3
<1>2. ASSUME NEW m \in 1 .. N, m - 1 \in P PROVE m \in P
  <2>1. PICK g : Runs(g, m - 1)
    BY <1>2
  <2> DEFINE f == [k \in 0 .. m |-> IF k = m THEN OneMore(how, g[m - 1], m) ELSE g[k]]
  <2>2. /\ m \in Nat /\ m \in 0 .. N /\ 0 \in 0 .. m /\ 0 # m /\ m \in 0 .. m
        /\ \A k \in 1 .. m : /\ k \in 0 .. m /\ k - 1 \in 0 .. m /\ k - 1 # m
                             /\ (k # m => k \in 1 .. m - 1)
    BY SMT
  <2>3. f[0] = x
    BY <2>1, <2>2
  <2>4. ASSUME NEW k \in 1 .. m PROVE f[k] = OneMore(how, f[k - 1], k)
    <3>1. f[k - 1] = g[k - 1]
      BY <2>2
    <3>2. CASE k = m
      BY <2>2, <3>1, <3>2
    <3>3. CASE k # m
      <4>1. f[k] = g[k] /\ g[k] = OneMore(how, g[k - 1], k)
        BY <2>1, <2>2, <3>3
      <4> QED
        BY <3>1, <4>1
    <3> QED
      BY <3>2, <3>3
  <2>5. f = [k \in 0 .. m |-> f[k]]
    OBVIOUS
  <2> HIDE DEF f
  <2>6. Runs(f, m)
    BY <2>3, <2>4, <2>5
  <2> QED
    BY <2>2, <2>6
<1> HIDE DEF P
<1>3. \A m \in 0 .. N : m \in P
  BY <1>1, <1>2, Upward
<1>4. N \in 0 .. N /\ \A k \in 0 .. N : k # 0 => k \in 1 .. N
  BY SMT
<1>5. PICK g : Runs(g, N)
  BY <1>3, <1>4 DEF P
<1>6. \A k \in 0 .. N : g[k] = IF k = 0 THEN x ELSE OneMore(how, g[k - 1], k)
  BY <1>4, <1>5
<1>7. Turns(g, how, x, N)
  BY <1>5, <1>6 DEF Turns
<1> QED
  BY <1>7

\* The turns, one after the other.
LEMMA TurnsFacts ==
    ASSUME NEW N \in Nat, NEW how, NEW x, NEW g, Turns(g, how, x, N)
    PROVE  /\ 0 \in 0 .. N /\ N \in 0 .. N /\ g[0] = x
           /\ \A k \in 1 .. N : /\ g[k] = OneMore(how, g[k - 1], k)
                                /\ k \in 0 .. N /\ k - 1 \in 0 .. N /\ k - 1 \in Nat
                                /\ k \in Nat /\ k - 1 < N /\ k - 1 + 1 = k
<1>1. /\ 0 \in 0 .. N /\ N \in 0 .. N
      /\ \A k \in 1 .. N : /\ k \in 0 .. N /\ k - 1 \in 0 .. N /\ k - 1 \in Nat
                           /\ k \in Nat /\ k - 1 < N /\ k - 1 + 1 = k /\ k # 0
  BY SMT
<1>2. \A k \in 0 .. N : g[k] = IF k = 0 THEN x ELSE OneMore(how, g[k - 1], k)
  BY DEF Turns
<1> QED
  BY <1>1, <1>2

\* AddToThreadq takes MaxJobs turns.
LEMMA AddToThreadqTurns ==
    ASSUME MaxJobs \in Nat, NEW s, NEW id, id # 0, NEW c, NEW p, NEW t, NEW how,
           how = [loop |-> "AddToThreadq", c |-> c, p |-> p],
           NEW x, x = [s |-> [s EXCEPT !.t0 = t], todo |-> <<Process(id)>>]
    PROVE  \E g : Turns(g, how, x, MaxJobs) /\ AddToThreadq(s, id, c, p, t) = g[MaxJobs].s
<1> DEFINE N == MaxJobs
           Is(g) == g = [n \in 0 .. MaxJobs |->
                            IF n = 0 THEN [s |-> [s EXCEPT !.t0 = t], todo |-> <<Process(id)>>]
                            ELSE LET y == g[n - 1] IN
                                 IF y.todo = <<>> THEN y ELSE Explore(y, c, p)]
           a == CHOOSE g : Is(g)
<1>1. \A y, n : OneMore(how, y, n) = IF y.todo = <<>> THEN y ELSE Explore(y, c, p)
  BY DEF OneMore
<1>2. \A g : Is(g) <=> Turns(g, how, x, N)
  BY <1>1, Zenon DEF Turns
<1>3. \E g : Is(g)
  <2> HIDE DEF Is
  <2> QED
    BY <1>2, TurnsExist
<1>4. Is(a)
  BY <1>3, Zenon
<1>5. AddToThreadq(s, id, c, p, t) = a[MaxJobs].s
  BY DEF AddToThreadq
<1> HIDE DEF a, Is
<1> QED
  BY <1>2, <1>4, <1>5

\* Every reference is counted: those of the queue, and o[u] that others have to thread u.
Held(s, o) ==
    /\ Pool(s) /\ IsQueue(s.q)
    /\ \A u \in Threads : RefOf(s, u) = HeldIn(s.q, u) + o[u]
    /\ s.nstack \in Nat /\ s.nstack <= NStack

\* AddToThreadq begins with the one reference it was given.
LEMMA AddToThreadqStarts ==
    ASSUME IsFlat(prog), NEW o \in [Threads -> Nat], NEW s, Held(s, o),
           NEW id \in Ids, NEW t \in Threads, o[t] > 0,
           NEW o1, o1 = [o EXCEPT ![t] = @ - 1],
           NEW x, x = [s |-> [s EXCEPT !.t0 = t], todo |-> <<Process(id)>>]
    PROVE  o1 \in [Threads -> Nat] /\ Exploring(x, t, o1, 0)
<1> DEFINE r == [s EXCEPT !.t0 = t]
           j == <<Process(id)>>
           q == s.q
<1>1. /\ Pool(s) /\ IsQueue(q) /\ q \in Seq(Jobbed) /\ NFAFields \subseteq DOMAIN s
      /\ \A u \in Threads : RefOf(s, u) = HeldIn(q, u) + o[u]
      /\ s.nstack \in Nat /\ s.nstack <= NStack
  BY DEF Held, IsQueue, Pool
<1>2. o[t] \in Nat /\ o[t] - 1 \in Nat
  BY SMT
<1>3. o1 \in [Threads -> Nat] /\ \A u \in Threads : o1[u] = o[u] - One(t, u)
  <2>1. o1 \in [Threads -> Nat]
    BY <1>2
  <2>2. ASSUME NEW u \in Threads PROVE o1[u] = o[u] - One(t, u)
    <3>1. o[u] \in Nat
      OBVIOUS
    <3>2. CASE u = t
      BY <3>2 DEF One
    <3>3. CASE u # t
      <4>1. o1[u] = o[u] /\ One(t, u) = 0
        BY <3>3 DEF One
      <4> QED
        BY <3>1, <4>1, SMT
    <3> QED
      BY <3>2, <3>3
  <2> QED
    BY <2>1, <2>2
<1>4. /\ NFAFields \subseteq DOMAIN r /\ r.ref = s.ref /\ r.freelist = s.freelist
      /\ r.t0 = t /\ r.q = q /\ r.nstack = s.nstack
  BY <1>1 DEF NFAFields
<1>5. x.s = r /\ x.todo = j
  OBVIOUS
<1> HIDE DEF r, q
<1>6. Pool(r) /\ \A u : RefOf(r, u) = RefOf(s, u)
  BY <1>1, <1>4, Pooled
<1>7. /\ j \in Seq(Jobbed) /\ Len(j) = 1
      /\ \A k \in 1 .. Len(j) : j[k].t = NoThread
  <2>1. Process(id) \in Jobbed /\ Process(id).t = NoThread
    BY SMT DEF Process, NoThread, Jobbed
  <2> QED
    BY <2>1
<1> HIDE DEF j
<1>8. GoesBack(t, j, t)
  BY <1>7 DEF GoesBack
<1>9. ASSUME NEW u \in Threads
      PROVE  RefOf(r, u) = HeldIn(q, u) + HeldIn(j, u) + One(t, u) + o1[u]
  <2>1. HeldIn(j, u) = 0
    <3>1. \A k \in 1 .. Len(j) : j[k].t # u
      BY <1>7 DEF Threads
    <3> QED
      BY <1>7, <3>1, HeldInNone
  <2>2. HeldIn(q, u) \in Nat
    BY <1>1, HoldingFacts
  <2>3. RefOf(r, u) = HeldIn(q, u) + o[u] /\ o1[u] = o[u] - One(t, u)
    BY <1>1, <1>3, <1>6
  <2>4. o[u] \in Nat /\ One(t, u) \in Nat
    BY DEF One
  <2> QED
    BY <2>1, <2>2, <2>3, <2>4, SMT
<1>10. Paused(r, j, t, o1)
  BY <1>1, <1>4, <1>6, <1>7, <1>8, <1>9 DEF Paused
<1>11. /\ Cardinality(OpsOf(q, {"Capture"})) \in Nat /\ Cardinality(OpsOf(q, Nops)) \in Nat
       /\ Cardinality(IdsOf(q)) \in Nat /\ ProgSize \in Nat
  BY <1>1, OpsFacts, FlatFacts
<1>12. Fits(q, 1)
  BY <1>11 DEF Fits
<1>13. Left(q, 1) <= MaxJobs - 0
  <2> DEFINE I == Cardinality(IdsOf(q))
  <2>1. I \in Nat
    BY <1>11
  <2> HIDE DEF I
  <2>2. 3 * (ProgSize - I) + 1 <= (3 * ProgSize + 1) - 0
    BY <1>11, <2>1
  <2> QED
    BY <2>2, Zenon DEF Left, MaxJobs, I
<1> QED
  BY <1>3, <1>4, <1>5, <1>7, <1>10, <1>12, <1>13 DEF Exploring

\* After as many turns as it may take, AddToThreadq has an empty stack.
LEMMA AddToThreadqEnds ==
    ASSUME IsFlat(prog), NEW o \in [Threads -> Nat], NEW t \in Threads, o[t] > 0,
           NEW o1, o1 = [o EXCEPT ![t] = @ - 1], o1 \in [Threads -> Nat],
           NEW x, Exploring(x, t, o1, MaxJobs)
    PROVE  Held(x.s, o)
<1> DEFINE q == x.s.q
           r == x.s
           todo == x.todo
<1>1. /\ Pool(r) /\ IsQueue(q) /\ todo \in Seq(Jobbed) /\ q \in Seq(Jobbed)
      /\ \A u \in Threads :
            RefOf(r, u) = HeldIn(q, u) + HeldIn(todo, u) + One(r.t0, u) + o1[u]
      /\ GoesBack(r.t0, todo, t)
      /\ r.nstack \in Nat /\ r.nstack <= NStack
      /\ (todo = <<>> \/ Left(q, Len(todo)) <= MaxJobs - MaxJobs)
  BY DEF Exploring, Paused, IsQueue
<1> HIDE DEF q, r, todo
<1>2. todo = <<>>
  <2> DEFINE I == Cardinality(IdsOf(q))
             l == Len(todo)
  <2>1. I \in Nat /\ I <= ProgSize /\ ProgSize \in Nat
    <3>1. I \in 0 .. ProgSize /\ I \in Nat /\ ProgSize \in Nat
      BY <1>1, OpsFacts, FlatFacts
    <3> HIDE DEF I
    <3> QED
      BY <3>1, SMT
  <2>2. l \in Nat /\ (l = 0 => todo = <<>>)
    BY <1>1, SMT
  <2>3. ASSUME Left(q, l) <= MaxJobs - MaxJobs PROVE l = 0
    <3>1. 3 * (ProgSize - I) + l <= (3 * ProgSize + 1) - (3 * ProgSize + 1)
      BY <2>3, Zenon DEF Left, MaxJobs
    <3> HIDE DEF I, l
    <3> QED
      BY <2>1, <2>2, <3>1, SMT
  <2> HIDE DEF I
  <2> QED
    BY <1>1, <2>2, <2>3
<1>3. r.t0 = t
  <2>1. 1 .. Len(<<>>) = {}
    BY SMT
  <2> QED
    BY <1>1, <1>2, <2>1 DEF GoesBack
<1>4. ASSUME NEW u \in Threads PROVE RefOf(r, u) = HeldIn(q, u) + o[u]
  <2>1. HeldIn(todo, u) = 0
    <3>1. Holding(<<>>, u) = {}
      BY DEF Holding
    <3> QED
      BY <1>2, <3>1, FS_EmptySet DEF HeldIn
  <2>2. o[u] \in Nat /\ o1[u] \in Nat /\ o[t] \in Nat
    OBVIOUS
  <2>3. One(t, u) + o1[u] = o[u]
    <3>1. CASE u = t
      <4>1. o1[u] = o[u] - 1 /\ One(t, u) = 1
        BY <3>1 DEF One
      <4> QED
        BY <2>2, <4>1, SMT
    <3>2. CASE u # t
      <4>1. o1[u] = o[u] /\ One(t, u) = 0
        BY <3>2 DEF One
      <4> QED
        BY <2>2, <4>1, SMT
    <3> QED
      BY <3>1, <3>2
  <2>4. HeldIn(q, u) \in Nat /\ One(t, u) \in Nat
    BY <1>1, HoldingFacts DEF One
  <2>5. RefOf(r, u) = HeldIn(q, u) + HeldIn(todo, u) + One(t, u) + o1[u]
    BY <1>1, <1>3
  <2> QED
    BY <2>1, <2>2, <2>3, <2>4, <2>5, SMT
<1> QED
  BY <1>1, <1>4 DEF Held, q, r

\* AddToThreadq keeps the count of what others hold.
LEMMA AddToThreadqHeld ==
    ASSUME IsFlat(prog), NEW o \in [Threads -> Nat], NEW s, Held(s, o),
           NEW id \in Ids, NEW t \in Threads, o[t] > 0, NEW c, NEW p
    PROVE  Held(AddToThreadq(s, id, c, p, t), o)
<1>1. CASE id = 0
  BY <1>1 DEF AddToThreadq
<1>2. CASE id # 0
  <2> DEFINE x == [s |-> [s EXCEPT !.t0 = t], todo |-> <<Process(id)>>]
             how == [loop |-> "AddToThreadq", c |-> c, p |-> p]
             o1 == [o EXCEPT ![t] = @ - 1]
             N == MaxJobs
  <2>1. N \in Nat
    BY FlatFacts, SMT DEF MaxJobs
  <2>2. o1 \in [Threads -> Nat] /\ Exploring(x, t, o1, 0)
    BY AddToThreadqStarts
  <2>3. PICK g : Turns(g, how, x, N) /\ AddToThreadq(s, id, c, p, t) = g[N].s
    BY <1>2, <2>1, AddToThreadqTurns
  <2>4. \A y, n : OneMore(how, y, n) = IF y.todo = <<>> THEN y ELSE Explore(y, c, p)
    BY DEF OneMore
  <2> HIDE DEF x, how, N
  <2>5. /\ 0 \in 0 .. N /\ N \in 0 .. N /\ g[0] = x
        /\ \A k \in 1 .. N : /\ g[k] = OneMore(how, g[k - 1], k)
                             /\ k \in 0 .. N /\ k - 1 \in 0 .. N /\ k - 1 \in Nat
                             /\ k \in Nat /\ k - 1 < N /\ k - 1 + 1 = k
    BY <2>1, <2>3, TurnsFacts
  <2> DEFINE P == {k \in 0 .. N : Exploring(g[k], t, o1, k)}
  <2>6. 0 \in P
    BY <2>2, <2>5
  <2>7. ASSUME NEW k \in 1 .. N, k - 1 \in P PROVE k \in P
    <3> DEFINE y == g[k - 1]
    <3> HIDE DEF o1
    <3>1. Exploring(y, t, o1, k - 1) /\ g[k] = OneMore(how, y, k)
      BY <2>5, <2>7
    <3>2. k - 1 \in Nat /\ k - 1 < MaxJobs /\ k - 1 + 1 = k
      BY <2>5 DEF N
    <3>3. CASE y.todo = <<>>
      <4>1. g[k] = y
        BY <2>4, <3>1, <3>3
      <4>2. Exploring(y, t, o1, k)
        BY <3>1, <3>3 DEF Exploring
      <4> QED
        BY <2>5, <4>1, <4>2
    <3>4. CASE y.todo # <<>>
      <4>1. g[k] = Explore(y, c, p)
        BY <2>4, <3>1, <3>4
      <4> HIDE DEF y
      <4>2. Exploring(Explore(y, c, p), t, o1, k - 1 + 1)
        BY <2>2, <3>1, <3>2, <3>4, ExploreFacts
      <4> QED
        BY <2>5, <3>2, <4>1, <4>2
    <3> QED
      BY <3>3, <3>4
  <2> HIDE DEF P
  <2>8. \A k \in 0 .. N : k \in P
    BY <2>1, <2>6, <2>7, Upward
  <2>9. Exploring(g[N], t, o1, N)
    BY <2>5, <2>8 DEF P
  <2>10. Held(g[N].s, o)
    BY <2>2, <2>9, AddToThreadqEnds DEF N
  <2> QED
    BY <2>3, <2>10
<1> QED
  BY <1>1, <1>2

\* What only what the count speaks of matters for.
Kept(r, s) ==
    /\ NFAFields \subseteq DOMAIN r
    /\ r.ref = s.ref /\ r.freelist = s.freelist /\ r.q = s.q /\ r.nstack = s.nstack

\* What leaves threads and queue alone leaves them counted.
LEMMA KeptHeld ==
    ASSUME NEW o, NEW s, Held(s, o), NEW r, Kept(r, s)
    PROVE  Held(r, o)
<1>1. NFAFields \subseteq DOMAIN r /\ r.ref = s.ref /\ r.freelist = s.freelist /\ Pool(s)
  BY DEF Kept, Held
<1>2. Pool(r) /\ \A u : RefOf(r, u) = RefOf(s, u)
  BY <1>1, Pooled
<1> QED
  BY <1>2 DEF Kept, Held

\* The count without one of the references to t.
Less(o, t) == [o EXCEPT ![t] = @ - 1]

\* One obligation less.
LEMMA LessFacts ==
    ASSUME NEW o \in [Threads -> Nat], NEW t \in Threads, o[t] > 0
    PROVE  /\ Less(o, t) \in [Threads -> Nat]
           /\ \A u \in Threads : Less(o, t)[u] = o[u] - One(t, u)
<1>1. o[t] \in Nat /\ o[t] - 1 \in Nat
  BY SMT
<1>2. Less(o, t) \in [Threads -> Nat]
  BY <1>1 DEF Less
<1>3. ASSUME NEW u \in Threads PROVE Less(o, t)[u] = o[u] - One(t, u)
  <2>1. o[u] \in Nat
    OBVIOUS
  <2>2. CASE u = t
    BY <2>2 DEF One, Less
  <2>3. CASE u # t
    <3>1. Less(o, t)[u] = o[u] /\ One(t, u) = 0
      BY <2>3 DEF One, Less
    <3> QED
      BY <2>1, <3>1, SMT
  <2> QED
    BY <2>2, <2>3
<1> QED
  BY <1>2, <1>3

\* A reference that was owed and is given back.
LEMMA DecrefHeld ==
    ASSUME NEW o \in [Threads -> Nat], NEW s, Held(s, o), NEW t \in Threads, o[t] > 0
    PROVE  Held(Decref(s, t), Less(o, t)) /\ Decref(s, t).q = s.q
<1> DEFINE r == Decref(s, t)
<1>1. /\ Pool(s) /\ IsQueue(s.q) /\ s.q \in Seq(Jobbed) /\ s.nstack \in Nat /\ s.nstack <= NStack
      /\ \A u \in Threads : RefOf(s, u) = HeldIn(s.q, u) + o[u]
  BY DEF Held, IsQueue
<1>2. \A u \in Threads : HeldIn(s.q, u) \in Nat /\ o[u] \in Nat /\ One(t, u) \in Nat
  BY <1>1, HoldingFacts DEF One
<1>3. RefOf(s, t) > 0
  BY <1>1, <1>2, SMT
<1>4. /\ Pool(r) /\ Same(r, s)
      /\ \A u : RefOf(r, u) = IF u = t THEN RefOf(s, u) - 1 ELSE RefOf(s, u)
  <2>1. \A z : z = Decref(s, t) =>
            /\ Pool(z) /\ Same(z, s)
            /\ \A u : RefOf(z, u) = IF u = t THEN RefOf(s, u) - 1 ELSE RefOf(s, u)
    BY <1>1, <1>3, DecrefFacts
  <2> QED
    BY <2>1
<1> HIDE DEF r
<1>5. r.q = s.q /\ r.nstack = s.nstack
  BY <1>4 DEF Same
<1>6. ASSUME NEW u \in Threads PROVE RefOf(r, u) = HeldIn(r.q, u) + Less(o, t)[u]
  <2>1. Less(o, t)[u] = o[u] - One(t, u)
    BY LessFacts
  <2>2. RefOf(s, u) = HeldIn(s.q, u) + o[u]
    BY <1>1
  <2>3. RefOf(r, u) = RefOf(s, u) - One(t, u)
    <3>1. RefOf(s, u) \in Nat
      BY <1>1, RefFacts
    <3>2. CASE u = t
      BY <1>4, <3>2 DEF One
    <3>3. CASE u # t
      <4>1. RefOf(r, u) = RefOf(s, u) /\ One(t, u) = 0
        BY <1>4, <3>3 DEF One
      <4> QED
        BY <3>1, <4>1, SMT
    <3> QED
      BY <3>2, <3>3
  <2>4. HeldIn(s.q, u) \in Nat /\ o[u] \in Nat /\ One(t, u) \in Nat
    BY <1>2
  <2> QED
    BY <1>5, <2>1, <2>2, <2>3, <2>4, SMT
<1>7. Held(r, Less(o, t)) /\ r.q = s.q
  BY <1>1, <1>4, <1>5, <1>6 DEF Held
<1> QED
  BY <1>7 DEF r

\* How many of the entries after number k hold thread u.
HoldingAfter(q, k, u) == {j \in DOMAIN q : j > k /\ q[j].t = u}
HeldAfter(q, k) == [u \in Threads |-> Cardinality(HoldingAfter(q, k, u))]

\* The references of the entries of a queue that Step has still to visit.
LEMMA HeldAfterFacts ==
    ASSUME NEW S, NEW q \in Seq(S)
    PROVE  /\ \A k \in Nat : HeldAfter(q, k) \in [Threads -> Nat]
           /\ \A u \in Threads : HeldAfter(q, 0)[u] = HeldIn(q, u)
           /\ \A u \in Threads : HeldAfter(q, Len(q))[u] = 0
           /\ \A k \in 1 .. Len(q), u \in Threads :
                HeldAfter(q, k - 1)[u] = HeldAfter(q, k)[u] + One(q[k].t, u)
<1>1. Len(q) \in Nat /\ DOMAIN q = 1 .. Len(q) /\ IsFiniteSet(1 .. Len(q))
  <2>1. Len(q) \in Nat /\ DOMAIN q = 1 .. Len(q)
    BY LenProperties
  <2> QED
    BY <2>1, FS_Interval
<1>2. \A k, u : IsFiniteSet(HoldingAfter(q, k, u)) /\ Cardinality(HoldingAfter(q, k, u)) \in Nat
  <2>1. \A k, u : HoldingAfter(q, k, u) \in SUBSET (1 .. Len(q))
    BY <1>1 DEF HoldingAfter
  <2> QED
    BY <1>1, <2>1, FS_Subset, FS_CardinalityType
<1>3. \A k, u : u \in Threads => HeldAfter(q, k)[u] = Cardinality(HoldingAfter(q, k, u))
  BY DEF HeldAfter
<1>4. \A k : HeldAfter(q, k) \in [Threads -> Nat]
  BY <1>2 DEF HeldAfter
<1>5. ASSUME NEW u \in Threads PROVE HeldAfter(q, 0)[u] = HeldIn(q, u)
  <2>1. \A j \in 1 .. Len(q) : j > 0
    BY SMT
  <2>2. HoldingAfter(q, 0, u) = Holding(q, u)
    BY <1>1, <2>1 DEF HoldingAfter, Holding
  <2> QED
    BY <1>3, <2>2 DEF HeldIn
<1>6. ASSUME NEW u \in Threads PROVE HeldAfter(q, Len(q))[u] = 0
  <2>1. \A j \in 1 .. Len(q) : ~(j > Len(q))
    BY <1>1, SMT
  <2>2. HoldingAfter(q, Len(q), u) = {}
    BY <1>1, <2>1 DEF HoldingAfter
  <2> QED
    BY <1>3, <2>2, FS_EmptySet
<1>7. ASSUME NEW k \in 1 .. Len(q), NEW u \in Threads
      PROVE  HeldAfter(q, k - 1)[u] = HeldAfter(q, k)[u] + One(q[k].t, u)
  <2>1. \A j \in 1 .. Len(q) : j > k - 1 <=> j > k \/ j = k
    BY <1>1, SMT
  <2>2. HoldingAfter(q, k - 1, u)
            = HoldingAfter(q, k, u) \union (IF q[k].t = u THEN {k} ELSE {})
    BY <1>1, <2>1 DEF HoldingAfter
  <2>3. k \notin HoldingAfter(q, k, u)
    <3>1. ~(k > k)
      BY SMT
    <3> QED
      BY <3>1 DEF HoldingAfter
  <2>4. CASE q[k].t = u
    <3>1. Cardinality(HoldingAfter(q, k - 1, u)) = Cardinality(HoldingAfter(q, k, u)) + 1
      BY <1>2, <2>2, <2>3, <2>4, FS_AddElement
    <3> QED
      BY <1>3, <2>4, <3>1 DEF One
  <2>5. CASE q[k].t # u
    <3>1. HoldingAfter(q, k - 1, u) = HoldingAfter(q, k, u)
      BY <2>2, <2>5
    <3>2. One(q[k].t, u) = 0
      BY <2>5 DEF One
    <3>3. /\ HeldAfter(q, k - 1)[u] = Cardinality(HoldingAfter(q, k, u))
          /\ HeldAfter(q, k)[u] = Cardinality(HoldingAfter(q, k, u))
      BY <1>3, <3>1
    <3> QED
      BY <1>2, <3>2, <3>3, SMT
  <2> QED
    BY <2>4, <2>5
<1> QED
  BY <1>4, <1>5, <1>6, <1>7

\* An entry that was handled no longer counts.
LEMMA AfterEntry ==
    ASSUME NEW S, NEW q \in Seq(S), NEW k \in 1 .. Len(q)
    PROVE  /\ q[k].t = NoThread => HeldAfter(q, k) = HeldAfter(q, k - 1)
           /\ q[k].t \in Threads => /\ HeldAfter(q, k - 1)[q[k].t] > 0
                                    /\ HeldAfter(q, k) = Less(HeldAfter(q, k - 1), q[k].t)
<1>1. k \in Nat /\ k - 1 \in Nat
  BY SMT
<1>2. /\ HeldAfter(q, k) \in [Threads -> Nat] /\ HeldAfter(q, k - 1) \in [Threads -> Nat]
      /\ \A u \in Threads : HeldAfter(q, k - 1)[u] = HeldAfter(q, k)[u] + One(q[k].t, u)
  BY <1>1, HeldAfterFacts
<1> DEFINE a == HeldAfter(q, k)
           b == HeldAfter(q, k - 1)
           t == q[k].t
<1> HIDE DEF a, b, t
<1>3. /\ a \in [Threads -> Nat] /\ b \in [Threads -> Nat]
      /\ \A u \in Threads : b[u] = a[u] + One(t, u)
  BY <1>2 DEF a, b, t
<1>4. ASSUME t = NoThread PROVE a = b
  <2>1. \A u \in Threads : One(t, u) = 0
    BY <1>4 DEF One, Threads
  <2>2. \A u \in Threads : a[u] \in Nat
    BY <1>3
  <2>3. \A u \in Threads : b[u] = a[u]
    BY <1>3, <2>1, <2>2, SMT
  <2> QED
    BY <1>3, <2>3
<1>5. ASSUME t \in Threads PROVE b[t] > 0 /\ a = Less(b, t)
  <2>1. b[t] = a[t] + 1 /\ a[t] \in Nat
    BY <1>3, <1>5 DEF One
  <2>2. b[t] > 0
    BY <2>1, SMT
  <2>3. /\ Less(b, t) \in [Threads -> Nat]
        /\ \A u \in Threads : Less(b, t)[u] = b[u] - One(t, u)
    BY <1>3, <1>5, <2>2, LessFacts
  <2>4. ASSUME NEW u \in Threads PROVE a[u] = Less(b, t)[u]
    <3>1. a[u] \in Nat /\ One(t, u) \in Nat
      BY <1>3 DEF One
    <3>2. b[u] = a[u] + One(t, u) /\ Less(b, t)[u] = b[u] - One(t, u)
      BY <1>3, <2>3
    <3> QED
      BY <3>1, <3>2, SMT
  <2> QED
    BY <1>3, <2>2, <2>3, <2>4
<1> QED
  BY <1>4, <1>5 DEF a, b, t

\* The loops of DecrefAll, Step and ShortCircuit.
LEMMA DecrefAllTurns ==
    ASSUME NEW s, NEW q, Len(q) \in Nat, NEW how, how = [loop |-> "DecrefAll", q |-> q]
    PROVE  \E g : Turns(g, how, s, Len(q)) /\ DecrefAll(s, q) = g[Len(q)]
<1> DEFINE N == Len(q)
           Is(g) == g = [k \in 0 .. Len(q) |->
                            IF k = 0 THEN s
                            ELSE IF q[k].t = NoThread THEN g[k - 1]
                            ELSE Decref(g[k - 1], q[k].t)]
           a == CHOOSE g : Is(g)
<1>1. \A y, n : OneMore(how, y, n) = IF q[n].t = NoThread THEN y ELSE Decref(y, q[n].t)
  BY DEF OneMore
<1>2. \A g : Is(g) <=> Turns(g, how, s, N)
  BY <1>1 DEF Turns
<1>3. \E g : Is(g)
  <2> HIDE DEF Is
  <2> QED
    BY <1>2, TurnsExist
<1>4. Is(a)
  BY <1>3
<1>5. DecrefAll(s, q) = a[Len(q)]
  BY DEF DecrefAll
<1> HIDE DEF a, Is
<1> QED
  BY <1>2, <1>4, <1>5

\* Step is its turns.
LEMMA StepTurns ==
    ASSUME NEW s, NEW q, Len(q) \in Nat, NEW c, NEW p,
           NEW how, how = [loop |-> "Step", q |-> q, c |-> c, p |-> p],
           NEW x, x = [s |-> s, cut |-> FALSE]
    PROVE  \E g : Turns(g, how, x, Len(q)) /\ Step(s, q, c, p) = g[Len(q)].s
<1> DEFINE N == Len(q)
           Is(g) == g = [k \in 0 .. Len(q) |->
                            IF k = 0 THEN [s |-> s, cut |-> FALSE]
                            ELSE StepThread(g[k - 1], q[k], k = 1, c, p)]
           a == CHOOSE g : Is(g)
<1>1. \A y, n : OneMore(how, y, n) = StepThread(y, q[n], n = 1, c, p)
  BY DEF OneMore
<1>2. \A g : Is(g) <=> Turns(g, how, x, N)
  BY <1>1 DEF Turns
<1>3. \E g : Is(g)
  <2> HIDE DEF Is
  <2> QED
    BY <1>2, TurnsExist
<1>4. Is(a)
  BY <1>3
<1>5. Step(s, q, c, p) = a[Len(q)].s
  BY DEF Step
<1> HIDE DEF a, Is
<1> QED
  BY <1>2, <1>4, <1>5

\* The short circuit of Step is its turns.
LEMMA ShortCircuitTurns ==
    ASSUME ProgSize \in Nat, NEW s, NEW id, NEW how, how = [loop |-> "ShortCircuit"],
           NEW x, x = [s |-> s, id |-> id]
    PROVE  \E g : Turns(g, how, x, ProgSize) /\ ShortCircuit(s, id) = g[ProgSize].s
<1> DEFINE N == ProgSize
           Is(g) == g = [n \in 0 .. ProgSize |->
                            IF n = 0 THEN [s |-> s, id |-> id] ELSE Shorten(g[n - 1])]
           a == CHOOSE g : Is(g)
<1>1. \A y, n : OneMore(how, y, n) = Shorten(y)
  BY DEF OneMore
<1>2. \A g : Is(g) <=> Turns(g, how, x, N)
  BY <1>1 DEF Turns
<1>3. \E g : Is(g)
  <2> HIDE DEF Is
  <2> QED
    BY <1>2, TurnsExist
<1>4. Is(a)
  BY <1>3
<1>5. ShortCircuit(s, id) = a[ProgSize].s
  BY DEF ShortCircuit
<1> HIDE DEF a, Is
<1> QED
  BY <1>2, <1>4, <1>5

Nobody == [u \in Threads |-> 0]

\* DecrefAll leaves nobody holding a thread.
LEMMA DecrefAllHeld ==
    ASSUME NEW s, Held(s, Nobody),
           NEW r, r = [DecrefAll(s, s.q) EXCEPT !.q = <<>>]
    PROVE  Held(r, Nobody) /\ r.q = <<>>
<1> DEFINE q == s.q
           N == Len(q)
           how == [loop |-> "DecrefAll", q |-> q]
           Drops(x, k) == /\ Held([x EXCEPT !.q = <<>>], HeldAfter(q, k))
                          /\ NFAFields \subseteq DOMAIN x
           d == DecrefAll(s, q)
<1>1. /\ q \in Seq(Jobbed) /\ N \in Nat /\ Pool(s) /\ s.nstack \in Nat /\ s.nstack <= NStack
      /\ \A u \in Threads : RefOf(s, u) = HeldIn(q, u) + Nobody[u]
  BY LenProperties DEF Held, IsQueue
<1>2. \A y, n : OneMore(how, y, n) = IF q[n].t = NoThread THEN y ELSE Decref(y, q[n].t)
  BY DEF OneMore
<1>3. PICK g : Turns(g, how, s, N) /\ d = g[N]
  BY <1>1, DecrefAllTurns
<1> HIDE DEF how, N, d
<1>4. /\ 0 \in 0 .. N /\ N \in 0 .. N /\ g[0] = s
      /\ \A k \in 1 .. N : /\ g[k] = OneMore(how, g[k - 1], k)
                           /\ k \in 0 .. N /\ k - 1 \in 0 .. N /\ k - 1 \in Nat
                           /\ k \in Nat /\ k - 1 < N /\ k - 1 + 1 = k
  BY <1>1, <1>3, TurnsFacts
<1>5. IsQueue(<<>>) /\ \A u : HeldIn(<<>>, u) = 0
  <2>1. IsQueue(<<>>)
    <3>1. <<>> \in Seq(Jobbed) /\ 1 .. Len(<<>>) = {}
      BY SMT
    <3> QED
      BY <3>1 DEF IsQueue
  <2>2. \A u : Holding(<<>>, u) = {}
    BY DEF Holding
  <2> QED
    BY <2>1, <2>2, FS_EmptySet DEF HeldIn
<1> DEFINE P == {k \in 0 .. N : Drops(g[k], k)}
<1>6. 0 \in P
  <2> DEFINE m == [s EXCEPT !.q = <<>>]
  <2>1. /\ NFAFields \subseteq DOMAIN m /\ m.ref = s.ref /\ m.freelist = s.freelist
        /\ m.q = <<>> /\ m.nstack = s.nstack /\ NFAFields \subseteq DOMAIN s
    BY <1>1 DEF Pool, NFAFields
  <2> HIDE DEF m
  <2>2. Pool(m) /\ \A u : RefOf(m, u) = RefOf(s, u)
    BY <1>1, <2>1, Pooled
  <2>3. ASSUME NEW u \in Threads PROVE RefOf(m, u) = HeldIn(<<>>, u) + HeldAfter(q, 0)[u]
    <3>1. HeldAfter(q, 0)[u] = HeldIn(q, u) /\ HeldIn(q, u) \in Nat
      BY <1>1, HeldAfterFacts, HoldingFacts
    <3>2. RefOf(s, u) = HeldIn(q, u) + 0
      BY <1>1 DEF Nobody
    <3> QED
      BY <1>5, <2>2, <3>1, <3>2
  <2>4. Held(m, HeldAfter(q, 0))
    BY <1>1, <1>5, <2>1, <2>2, <2>3 DEF Held
  <2> QED
    BY <1>4, <2>1, <2>4 DEF m
<1>7. ASSUME NEW k \in 1 .. N, k - 1 \in P PROVE k \in P
  <2> DEFINE y == g[k - 1]
             m == [y EXCEPT !.q = <<>>]
             e == q[k]
  <2>1. Held(m, HeldAfter(q, k - 1)) /\ NFAFields \subseteq DOMAIN y
    BY <1>7
  <2>2. g[k] = IF e.t = NoThread THEN y ELSE Decref(y, e.t)
    BY <1>2, <1>4
  <2>3. e \in Jobbed /\ k \in 1 .. Len(q)
    BY <1>1 DEF N
  <2>4. e.t = NoThread \/ e.t \in Threads
    BY <2>3 DEF Jobbed, Threads
  <2>5. CASE e.t = NoThread
    <3>1. HeldAfter(q, k) = HeldAfter(q, k - 1)
      BY <1>1, <2>3, <2>5, AfterEntry
    <3> HIDE DEF P, y
    <3>2. Drops(y, k) /\ g[k] = y
      BY <2>1, <2>2, <2>5, <3>1
    <3> QED
      BY <1>4, <3>2 DEF P
  <2>6. CASE e.t \in Threads
    <3>1. /\ HeldAfter(q, k - 1)[e.t] > 0
          /\ HeldAfter(q, k) = Less(HeldAfter(q, k - 1), e.t)
      BY <1>1, <2>3, <2>6, AfterEntry
    <3>2. HeldAfter(q, k - 1) \in [Threads -> Nat]
      BY <1>1, <1>4, HeldAfterFacts
    <3> DEFINE f == Decref(y, e.t)
    <3>3. g[k] = f
      BY <2>2, <2>6 DEF Threads
    <3>4. Held(Decref(m, e.t), HeldAfter(q, k))
      <4> HIDE DEF m, e
      <4> QED
        BY <2>1, <2>6, <3>1, <3>2, DecrefHeld
    <3>5. Decref(m, e.t) = [f EXCEPT !.q = <<>>] /\ DOMAIN f = DOMAIN y
      BY <2>1 DEF Decref, NFAFields
    <3> HIDE DEF f, y, m, e, P
    <3>6. Drops(f, k)
      BY <2>1, <3>4, <3>5
    <3> QED
      BY <1>4, <3>3, <3>6 DEF P
  <2> QED
    BY <2>4, <2>5, <2>6
<1> HIDE DEF P
<1>8. \A k \in 0 .. N : k \in P
  BY <1>1, <1>6, <1>7, Upward
<1>9. Drops(d, N)
  BY <1>3, <1>4, <1>8 DEF P
<1>10. HeldAfter(q, N) = Nobody
  <2>1. HeldAfter(q, N) \in [Threads -> Nat] /\ \A u \in Threads : HeldAfter(q, N)[u] = 0
    BY <1>1, HeldAfterFacts DEF N
  <2> HIDE DEF q
  <2> QED
    BY <2>1 DEF Nobody
<1>11. Held(r, Nobody)
  BY <1>9, <1>10 DEF d
<1>12. r.q = <<>>
  BY <1>9 DEF d, NFAFields
<1> QED
  BY <1>11, <1>12

\* A thread that waited in runq is given up at the end of its turn.
LEMMA StepThreadHeld ==
    ASSUME IsFlat(prog), NEW x, NEW a, NEW b \in [Threads -> Nat], Held(x.s, b),
           NEW e \in Jobbed, e.t # NoThread => prog.inst[e.id].op \in Waits,
           e.t = NoThread => a = b,
           e.t \in Threads => b[e.t] > 0 /\ a = Less(b, e.t),
           NEW first, NEW c, NEW p
    PROVE  Held(StepThread(x, e, first, c, p).s, a)
<1> DEFINE s == x.s
           t == e.t
           i == prog.inst[e.id]
           y == StepThread(x, e, first, c, p)
<1>1. t = NoThread \/ t \in Threads
  BY DEF Jobbed, Threads
<1>2. CASE t = NoThread
  BY <1>2 DEF StepThread
<1>3. CASE t \in Threads
  <2> DEFINE m1 == [s EXCEPT !.match = s.capture[t], !.matched = TRUE,
                             !.id = IF Greedy(i) THEN i.out1 ELSE i.out]
             m2 == Keeps(s, t, p - 1)
  <2>1. t # NoThread /\ i.op \in Waits
    BY <1>3 DEF Threads
  <2>2. \/ y.s = Decref(s, t)
        \/ i.op = "ByteRange" /\ y.s = Decref(AddToThreadq(s, i.out, c, p, t), t)
        \/ y.s = Decref(m1, t)
        \/ y.s = Decref(m2, t)
    <3>1. i.op = "ByteRange" \/ i.op = "AltMatch" \/ i.op = "Match"
      BY <2>1 DEF Waits
    <3>2. CASE x.cut \/ (s.longest /\ s.matched /\ s.match[0] < s.capture[t][0])
      BY <2>1, <3>2 DEF StepThread
    <3>3. CASE ~(x.cut \/ (s.longest /\ s.matched /\ s.match[0] < s.capture[t][0]))
      <4>1. CASE i.op = "ByteRange"
        BY <2>1, <3>3, <4>1 DEF StepThread
      <4>2. CASE i.op = "AltMatch"
        BY <2>1, <3>3, <4>2 DEF StepThread
      <4>3. CASE i.op = "Match"
        BY <2>1, <3>3, <4>3 DEF StepThread
      <4> QED
        BY <3>1, <4>1, <4>2, <4>3
    <3> QED
      BY <3>2, <3>3
  <2>3. Kept(m1, s) /\ Kept(m2, s)
    <3>1. NFAFields \subseteq DOMAIN s
      BY DEF Held, Pool
    <3> HIDE DEF s
    <3>2. Kept(m1, s)
      BY <3>1 DEF NFAFields, Kept
    <3>3. Kept(m2, s)
      BY <3>1 DEF NFAFields, Kept, Keeps
    <3> QED
      BY <3>2, <3>3
  <2> HIDE DEF s, m1, m2, y, i, t
  <2>4. /\ Held(s, b) /\ Held(m1, b) /\ Held(m2, b)
    <3>1. Held(s, b)
      BY DEF s
    <3> QED
      BY <2>3, <3>1, KeptHeld
  <2>5. b[t] > 0 /\ a = Less(b, t)
    BY <1>3 DEF t
  <2>6. ASSUME i.op = "ByteRange" PROVE Held(AddToThreadq(s, i.out, c, p, t), b)
    <3>1. i.out \in Ids
      BY DEF i, Jobbed, IsFlat, Ids
    <3> QED
      BY <1>3, <2>4, <2>5, <3>1, AddToThreadqHeld
  <2>7. \A r : Held(r, b) => Held(Decref(r, t), a)
    BY <1>3, <2>5, DecrefHeld
  <2> QED
    BY <2>2, <2>4, <2>6, <2>7 DEF y
<1> QED
  BY <1>1, <1>2, <1>3

\* Step moves the references of runq to the queue that it fills.
LEMMA StepHeld ==
    ASSUME IsFlat(prog), NEW s, Held(s, Nobody), NEW c, NEW p
    PROVE  Held(Step([s EXCEPT !.q = <<>>], s.q, c, p), Nobody)
<1> DEFINE q == s.q
           N == Len(q)
           m == [s EXCEPT !.q = <<>>]
           x == [s |-> m, cut |-> FALSE]
           how == [loop |-> "Step", q |-> q, c |-> c, p |-> p]
<1>1. /\ IsQueue(q) /\ q \in Seq(Jobbed) /\ N \in Nat /\ Pool(s)
      /\ s.nstack \in Nat /\ s.nstack <= NStack
      /\ \A u \in Threads : RefOf(s, u) = HeldIn(q, u) + Nobody[u]
  BY LenProperties DEF Held, IsQueue
<1>2. \A y, n : OneMore(how, y, n) = StepThread(y, q[n], n = 1, c, p)
  BY DEF OneMore
<1>3. PICK g : Turns(g, how, x, N) /\ Step(m, q, c, p) = g[N].s
  BY <1>1, StepTurns
<1> HIDE DEF how, N
<1>4. /\ 0 \in 0 .. N /\ N \in 0 .. N /\ g[0] = x
      /\ \A k \in 1 .. N : /\ g[k] = OneMore(how, g[k - 1], k)
                           /\ k \in 0 .. N /\ k - 1 \in 0 .. N /\ k - 1 \in Nat
                           /\ k \in Nat /\ k - 1 < N /\ k - 1 + 1 = k
  <2> HIDE DEF x
  <2> QED
    BY <1>1, <1>3, TurnsFacts
<1>5. IsQueue(<<>>) /\ \A u : HeldIn(<<>>, u) = 0
  <2>1. IsQueue(<<>>)
    <3>1. <<>> \in Seq(Jobbed) /\ 1 .. Len(<<>>) = {}
      BY SMT
    <3> QED
      BY <3>1 DEF IsQueue
  <2>2. \A u : Holding(<<>>, u) = {}
    BY DEF Holding
  <2> QED
    BY <2>1, <2>2, FS_EmptySet DEF HeldIn
<1> DEFINE P == {k \in 0 .. N : Held(g[k].s, HeldAfter(q, k))}
<1>6. 0 \in P
  <2>1. /\ NFAFields \subseteq DOMAIN m /\ m.ref = s.ref /\ m.freelist = s.freelist
        /\ m.q = <<>> /\ m.nstack = s.nstack
    BY <1>1 DEF Pool, NFAFields
  <2>2. g[0].s = m
    BY <1>4
  <2> HIDE DEF m
  <2>3. Pool(m) /\ \A u : RefOf(m, u) = RefOf(s, u)
    BY <1>1, <2>1, Pooled
  <2>4. ASSUME NEW u \in Threads PROVE RefOf(m, u) = HeldIn(<<>>, u) + HeldAfter(q, 0)[u]
    <3>1. HeldAfter(q, 0)[u] = HeldIn(q, u) /\ HeldIn(q, u) \in Nat
      BY <1>1, HeldAfterFacts, HoldingFacts
    <3>2. RefOf(s, u) = HeldIn(q, u) + 0
      BY <1>1 DEF Nobody
    <3> QED
      BY <1>5, <2>3, <3>1, <3>2
  <2>5. Held(m, HeldAfter(q, 0))
    BY <1>1, <1>5, <2>1, <2>3, <2>4 DEF Held
  <2> QED
    BY <1>4, <2>2, <2>5
<1>7. ASSUME NEW k \in 1 .. N, k - 1 \in P PROVE k \in P
  <2> DEFINE y == g[k - 1]
             e == q[k]
             a == HeldAfter(q, k)
             b == HeldAfter(q, k - 1)
  <2>1. Held(y.s, b)
    BY <1>7
  <2>2. g[k] = StepThread(y, e, k = 1, c, p)
    BY <1>2, <1>4
  <2>3. e \in Jobbed /\ k \in 1 .. Len(q) /\ (e.t # NoThread => prog.inst[e.id].op \in Waits)
    BY <1>1 DEF N, IsQueue
  <2>4. /\ e.t = NoThread => a = b
        /\ e.t \in Threads => b[e.t] > 0 /\ a = Less(b, e.t)
    BY <1>1, <2>3, AfterEntry
  <2>5. b \in [Threads -> Nat]
    BY <1>1, <1>4, HeldAfterFacts
  <2> HIDE DEF P, y, e, a, b
  <2>6. Held(StepThread(y, e, k = 1, c, p).s, a)
    BY <2>1, <2>3, <2>4, <2>5, StepThreadHeld
  <2> QED
    BY <1>4, <2>2, <2>6 DEF P, a
<1> HIDE DEF P
<1>8. \A k \in 0 .. N : k \in P
  BY <1>1, <1>6, <1>7, Upward
<1>9. Held(g[N].s, HeldAfter(q, N))
  BY <1>4, <1>8 DEF P
<1>10. HeldAfter(q, N) = Nobody
  <2>1. HeldAfter(q, N) \in [Threads -> Nat] /\ \A u \in Threads : HeldAfter(q, N)[u] = 0
    BY <1>1, HeldAfterFacts DEF N
  <2> HIDE DEF q
  <2> QED
    BY <2>1 DEF Nobody
<1> QED
  BY <1>3, <1>9, <1>10

\* The new thread is held while it is started.
LEMMA StartThreadHeld ==
    ASSUME IsFlat(prog), NEW s, Held(s, Nobody), NEW c, NEW p
    PROVE  Held(StartThread(s, c, p), Nobody)
<1> DEFINE t == NewThread(s)
           m == AllocThread(s, [s.match EXCEPT ![0] = p])
           o == [u \in Threads |-> IF u = t THEN 1 ELSE 0]
           r == AddToThreadq(m, prog.start, c, p, t)
<1>1. /\ Pool(s) /\ IsQueue(s.q) /\ s.q \in Seq(Jobbed) /\ s.nstack \in Nat /\ s.nstack <= NStack
      /\ \A u \in Threads : RefOf(s, u) = HeldIn(s.q, u) + 0
  BY DEF Held, Nobody, IsQueue
<1>2. /\ Pool(m) /\ Same(m, s) /\ t \in Threads /\ RefOf(s, t) = 0
      /\ \A u : RefOf(m, u) = IF u = t THEN 1 ELSE RefOf(s, u)
  <2>1. \A cap, z : z = AllocThread(s, cap) => \A w : w = NewThread(s) =>
            /\ Pool(z) /\ Same(z, s) /\ w \in Threads /\ RefOf(s, w) = 0
            /\ \A u : RefOf(z, u) = IF u = w THEN 1 ELSE RefOf(s, u)
    BY <1>1, AllocFacts
  <2> QED
    BY <2>1
<1>3. StartThread(s, c, p) = Decref(r, t)
  BY DEF StartThread
<1> HIDE DEF t, m
<1>4. o \in [Threads -> Nat] /\ o[t] = 1
  BY <1>2
<1>5. \A u \in Threads : HeldIn(s.q, u) \in Nat
  BY <1>1, HoldingFacts
<1>6. ASSUME NEW u \in Threads PROVE RefOf(m, u) = HeldIn(s.q, u) + o[u]
  <2>1. CASE u = t
    <3>1. HeldIn(s.q, u) = 0 /\ RefOf(m, u) = 1 /\ o[u] = 1
      BY <1>1, <1>2, <1>5, <2>1
    <3> QED
      BY <3>1, SMT
  <2>2. CASE u # t
    BY <1>1, <1>2, <1>5, <2>2
  <2> QED
    BY <2>1, <2>2
<1> HIDE DEF o
<1>7. Held(m, o)
  BY <1>1, <1>2, <1>6 DEF Held, Same
<1>8. prog.start \in Ids
  BY DEF IsFlat, Ids
<1>9. o[t] > 0
  BY <1>4, SMT
<1>10. Held(r, o)
  BY <1>2, <1>4, <1>7, <1>8, <1>9, AddToThreadqHeld
<1>11. Held(Decref(r, t), Less(o, t))
  <2> HIDE DEF r
  <2> QED
    BY <1>2, <1>4, <1>9, <1>10, DecrefHeld
<1>12. Less(o, t) = Nobody
  <2>1. \A u \in Threads : (IF u = t THEN 1 ELSE 0) - One(t, u) = 0
    BY DEF One
  <2>2. \A u \in Threads : o[u] = IF u = t THEN 1 ELSE 0
    BY DEF o
  <2>3. Less(o, t) \in [Threads -> Nat] /\ \A u \in Threads : Less(o, t)[u] = 0
    BY <1>2, <1>4, <1>9, <2>1, <2>2, LessFacts
  <2> QED
    BY <2>3 DEF Nobody
<1> QED
  BY <1>3, <1>11, <1>12

\* The short circuit only sets the match.
LEMMA ShortCircuitHeld ==
    ASSUME IsFlat(prog), NEW s, Held(s, Nobody), NEW id
    PROVE  Held(ShortCircuit(s, id), Nobody)
<1> DEFINE x == [s |-> s, id |-> id]
           how == [loop |-> "ShortCircuit"]
           N == ProgSize
           Short(y) == Kept(y.s, s) /\ {"s", "id"} \subseteq DOMAIN y
<1>1. ProgSize \in Nat
  BY FlatFacts
<1>2. \A y, n : OneMore(how, y, n) = Shorten(y)
  BY DEF OneMore
<1>3. PICK g : Turns(g, how, x, ProgSize) /\ ShortCircuit(s, id) = g[ProgSize].s
  BY <1>1, ShortCircuitTurns
<1>4. x.s = s /\ {"s", "id"} \subseteq DOMAIN x
  OBVIOUS
<1> HIDE DEF how, x
<1>5. /\ 0 \in 0 .. N /\ N \in 0 .. N /\ g[0] = x
      /\ \A k \in 1 .. N : /\ g[k] = OneMore(how, g[k - 1], k)
                           /\ k \in 0 .. N /\ k - 1 \in 0 .. N /\ k - 1 \in Nat
                           /\ k \in Nat /\ k - 1 < N /\ k - 1 + 1 = k
  BY <1>1, <1>3, TurnsFacts
<1>6. ASSUME NEW y, Short(y) PROVE Short(Shorten(y))
  <2> DEFINE i == prog.inst[y.id]
             r == y.s
             m1 == [y.s EXCEPT !.match[i.arg] = search.to]
             m2 == [y EXCEPT !.s.match[1] = search.to, !.s.matched = TRUE]
  <2>1. Kept(r, s) /\ {"s", "id"} \subseteq DOMAIN y /\ NFAFields \subseteq DOMAIN r
    BY <1>6 DEF Kept
  <2>2. Kept(m1, s)
    BY <2>1 DEF Kept, NFAFields
  <2>3. Short(m2)
    BY <2>1 DEF Kept, NFAFields
  <2>4. Short([s |-> m1, id |-> i.out]) /\ Short([s |-> r, id |-> i.out])
    BY <2>1, <2>2
  <2>5. Short([y EXCEPT !.id = i.out])
    BY <2>1
  <2>6. \/ Shorten(y) = [s |-> m1, id |-> i.out]
        \/ Shorten(y) = [s |-> r, id |-> i.out]
        \/ Shorten(y) = [y EXCEPT !.id = i.out]
        \/ Shorten(y) = m2
        \/ Shorten(y) = y
    <3>1. CASE i.op = "Capture"
      BY <3>1 DEF Shorten
    <3>2. CASE i.op = "Nop"
      BY <3>2 DEF Shorten
    <3>3. CASE i.op = "Match"
      BY <3>3 DEF Shorten
    <3>4. CASE i.op \notin {"Capture", "Nop", "Match"}
      BY <3>4 DEF Shorten
    <3> QED
      BY <3>1, <3>2, <3>3, <3>4
  <2> HIDE DEF m1, m2, r, i, Short
  <2> QED
    BY <1>6, <2>3, <2>4, <2>5, <2>6
<1>7. Short(x)
  <2>1. Kept(s, s)
    BY DEF Kept, Held, Pool
  <2> QED
    BY <1>4, <2>1
<1> DEFINE P == {k \in 0 .. N : Short(g[k])}
<1> HIDE DEF Short, N
<1>8. 0 \in P
  BY <1>5, <1>7
<1>9. \A k \in 1 .. N : k - 1 \in P => k \in P
  BY <1>2, <1>5, <1>6
<1> HIDE DEF P
<1>10. \A k \in 0 .. N : k \in P
  BY <1>1, <1>8, <1>9, Upward DEF N
<1>11. Short(g[N])
  BY <1>5, <1>10 DEF P
<1>12. Kept(ShortCircuit(s, id), s)
  BY <1>3, <1>11 DEF Short, N
<1> QED
  BY <1>12, KeptHeld

\* A search begins with no threads.
LEMMA BegunHeld ==
    ASSUME IsFlat(prog), NEW s, NFAFields \subseteq DOMAIN s,
           s.ref = <<>>, s.freelist = <<>>, s.q = <<>>, s.nstack = 1
    PROVE  Held(s, Nobody)
<1> DEFINE e == <<>>
<1>1. e \in Seq(Jobbed) /\ 1 .. Len(e) = {} /\ DOMAIN e = {} /\ e \in Seq(DOMAIN e) /\ DOMAIN e = 1 .. 0
  BY SMT
<1>2. IsQueue(e)
  BY <1>1 DEF IsQueue
<1>3. \A u : HeldIn(e, u) = 0
  <2>1. \A u : Holding(e, u) = {}
    BY DEF Holding
  <2> QED
    BY <2>1, FS_EmptySet DEF HeldIn
<1>4. InstCount({"Capture"}) \in Nat /\ InstCount({"EmptyWidth", "Nop"}) \in Nat
  BY <1>1, OpsFacts
<1>5. NStack \in Nat /\ 1 <= NStack
  BY <1>4, SMT DEF NStack
<1> HIDE DEF e
<1>6. s.ref = e /\ s.freelist = e /\ s.q = e
  BY DEF e
<1>7. Pool(s)
  BY <1>1, <1>6, SMT DEF Pool
<1>8. \A u : RefOf(s, u) = 0
  BY <1>1, <1>6 DEF RefOf
<1>9. \A u \in Threads : RefOf(s, u) = HeldIn(s.q, u) + Nobody[u]
  BY <1>3, <1>6, <1>8 DEF Nobody
<1> QED
  BY <1>2, <1>5, <1>6, <1>7, <1>9 DEF Held

\* A turn of the loop over the text, and what the search returns, leave every reference
\* counted.
LEMMA NFAStepHeld ==
    ASSUME IsFlat(prog), Held(nfa, Nobody), NFAStep
    PROVE  /\ Held(nfa', Nobody)
           /\ nfa'.q = <<>> \/ answer' = Unset
           /\ search' = search /\ search.engine = "NFA"
<1> DEFINE p == nfa.p
           s == Step([nfa EXCEPT !.q = <<>>], nfa.q, ByteAt(search, p), p)
           starts == ~s.matched /\ (~s.anchored \/ p = search.from)
           p1 == IF /\ starts /\ ~s.anchored /\ s.q = <<>>
                    /\ p < search.to /\ CanPrefixAccel
                 THEN SkipToPrefix(search, p) ELSE p
           s1 == IF starts THEN StartThread(s, ByteAt(search, p1), p1) ELSE s
           short == ShortCircuit(s, s.id)
           Ends(r) == nfa' = [DecrefAll(r, r.q) EXCEPT !.q = <<>>] /\ search' = search
<1>1. Held(s, Nobody)
  BY StepHeld, Zenon
<1>2. /\ search.engine = "NFA" /\ answer = Unset
      /\ \/ Ends(short) \/ Ends(s) \/ Ends(s1)
         \/ nfa' = [s1 EXCEPT !.p = p1 + 1] /\ UNCHANGED searchVars
  BY Zenon DEF NFAStep, Searching, Answers, AfterStep, NextPlace, WithThread, StartPlace,
     StartsThread, NFAReturns
<1> HIDE DEF s, p1, p
<1>3. Held(s1, Nobody)
  <2>1. CASE starts
    BY <1>1, <2>1, StartThreadHeld
  <2>2. CASE ~starts
    BY <1>1, <2>2
  <2> QED
    BY <2>1, <2>2
<1>4. Held(short, Nobody)
  BY <1>1, ShortCircuitHeld
<1> HIDE DEF s1, short
<1>5. ASSUME NEW r, Held(r, Nobody), Ends(r)
      PROVE  Held(nfa', Nobody) /\ nfa'.q = <<>> /\ search' = search
  BY <1>5, DecrefAllHeld
<1>6. CASE nfa' = [s1 EXCEPT !.p = p1 + 1] /\ UNCHANGED searchVars
  <2> DEFINE r == [s1 EXCEPT !.p = p1 + 1]
  <2>1. NFAFields \subseteq DOMAIN s1
    BY <1>3 DEF Held, Pool
  <2>2. Kept(r, s1)
    BY <2>1 DEF Kept, NFAFields
  <2> HIDE DEF r
  <2>3. Held(r, Nobody)
    BY <1>3, <2>2, KeptHeld
  <2> QED
    BY <1>2, <1>6, <2>3 DEF r, searchVars
<1> HIDE DEF Ends
<1> QED
  BY <1>1, <1>2, <1>3, <1>4, <1>5, <1>6

-----------------------------------------------------------------------------
(* One search at a time. *)

engineState == <<vars, searchVars, engineVars, fsm>>

\* Nothing is searched before the program is finished, and an engine's object belongs to
\* the one search.
SearchInv ==
    /\ search.engine # "None" \/ onepass # Unset => stage = "flat"
    /\ onepass # Unset => search.engine \in {"None", "OnePass"}
    /\ nfa # Unset => search.engine = "NFA"
    /\ dfa # Unset => search.engine \in {"DFA", "Export", "Library"}

\* A step that no search of the NFA, OnePass or the DFA takes.
Aside ==
    /\ UNCHANGED <<nfa, onepass, dfa>>
    /\ stage = "flat" => UNCHANGED vars
    /\ \/ UNCHANGED searchVars
       \/ /\ search.engine \in {"None", "BitState", "Export"}
          /\ search'.engine \in {"BitState", "Range", "Library"}

\* A step of the search of one engine.
Within(engine) == {search.engine, search'.engine} \subseteq {"None", engine}

\* A search is the search of its engine.
LEMMA EngineName ==
    ASSUME NEW engine, NEW kinds, NEW ns, NEW s \in Searches(engine, kinds, ns)
    PROVE  s.engine = engine
BY DEF Searches

\* Compiling goes on only before the program is flat.
LEMMA CompilesFacts ==
    ASSUME Compiles
    PROVE  stage # "flat" /\ UNCHANGED <<searchVars, engineVars>>
BY DEF Compiles, PipelineNext, Next, VisitLeaf, VisitHaveMatch, VisitParent, Finish, GiveUp,
       Optimizes, Flattens

\* What a step of the NFA leaves alone.
LEMMA NFASearchesFacts ==
    ASSUME NFASearches
    PROVE  /\ UNCHANGED <<vars, bit, onepass, dfa>> /\ onepass = Unset
           /\ \/ stage = "flat" /\ search = NoSearch /\ search'.engine = "NFA"
              \/ search.engine = "NFA" /\ search' = search
<1>1. /\ UNCHANGED <<bit, onepass, dfa>> /\ onepass = Unset
      /\ SearchNFA \/ NFAStep
  BY DEF NFASearches, Others
<1>2. CASE SearchNFA
  BY <1>1, <1>2, EngineName, Zenon DEF SearchNFA, Idle, Begins
<1>3. CASE NFAStep
  BY <1>1, <1>3, Zenon DEF NFAStep, Searching, Answers, AfterStep, NextPlace, NFAReturns,
     searchVars
<1> QED
  BY <1>1, <1>2, <1>3

\* What a step of BitState leaves alone.
LEMMA BitStateSearchesFacts ==
    ASSUME BitStateSearches
    PROVE  /\ UNCHANGED <<vars, nfa, onepass, dfa>> /\ onepass = Unset
           /\ \/ stage = "flat" /\ search = NoSearch /\ search'.engine = "BitState"
              \/ search.engine = "BitState" /\ search' = search
<1>1. /\ UNCHANGED <<nfa, onepass, dfa>> /\ onepass = Unset
      /\ SearchBitState \/ NextAttempt \/ DoJob \/ Report
  BY DEF BitStateSearches, Others
<1>2. CASE SearchBitState
  BY <1>1, <1>2, EngineName DEF SearchBitState, Idle, Begins
<1>3. CASE NextAttempt
  BY <1>1, <1>3 DEF NextAttempt, Searching, Answers, searchVars
<1>4. CASE DoJob
  BY <1>1, <1>4 DEF DoJob, Searching, Answers, searchVars
<1>5. CASE Report
  BY <1>1, <1>5, Zenon DEF Report, Searching, Answers
<1> QED
  BY <1>1, <1>2, <1>3, <1>4, <1>5

\* What a step of OnePass leaves alone.
LEMMA OnePassSearchesFacts ==
    ASSUME OnePassSearches
    PROVE  /\ UNCHANGED <<vars, nfa, bit, dfa>>
           /\ \/ stage = "flat" /\ search = NoSearch
                 /\ (search' = search \/ (onepass # Unset /\ search'.engine = "OnePass"))
              \/ onepass # Unset /\ search' = search
              \/ search.engine = "OnePass" /\ search' = search
<1>1. /\ UNCHANGED <<nfa, bit, dfa>>
      /\ IsOnePass \/ BuildNode \/ SearchOnePass \/ OnePassByte \/ OnePassEnd
  BY DEF OnePassSearches
<1>2. CASE IsOnePass
  BY <1>1, <1>2 DEF IsOnePass, Idle, searchVars
<1>3. CASE BuildNode
  BY <1>1, <1>3 DEF BuildNode, Building, searchVars
<1>4. CASE SearchOnePass
  BY <1>1, <1>4, EngineName DEF SearchOnePass, Built, Idle, Begins
<1>5. CASE OnePassByte
  BY <1>1, <1>5, Zenon DEF OnePassByte, Searching, Answers, searchVars
<1>6. CASE OnePassEnd
  BY <1>1, <1>6, Zenon DEF OnePassEnd, Searching, Answers
<1> QED
  BY <1>1, <1>2, <1>3, <1>4, <1>5, <1>6

\* What a step of a search of the DFA leaves alone.
LEMMA DFASearchesTextFacts ==
    ASSUME DFASearchesText
    PROVE  /\ UNCHANGED <<vars, nfa, bit, onepass>> /\ onepass = Unset
           /\ \/ stage = "flat" /\ search = NoSearch /\ search'.engine = "DFA"
              \/ search.engine = "DFA" /\ search' = search
<1>1. /\ UNCHANGED <<nfa, bit, onepass>> /\ onepass = Unset
      /\ SearchDFA \/ SpecialStart \/ DFAByte \/ DFAEnd
  BY DEF DFASearchesText, Others
<1>2. CASE SearchDFA
  BY <1>1, <1>2, EngineName DEF SearchDFA, DFASearches, Idle, Begins
<1>3. CASE SpecialStart
  BY <1>1, <1>3, Zenon DEF SpecialStart, Searching, Answers, Returns
<1>4. CASE DFAByte
  <2>1. UNCHANGED vars /\ search.engine = "DFA"
    BY <1>4 DEF DFAByte, Searching
  <2>2. ASSUME NEW v, NEW q, NEW r, AfterByte(v, q, r) PROVE search' = search
    BY <2>2 DEF AfterByte, Returns, Answers, searchVars
  <2>3. search' = search
    BY <1>4, <2>2 DEF DFAByte, searchVars
  <2> QED
    BY <1>1, <2>1, <2>3
<1>5. CASE DFAEnd
  <2>1. UNCHANGED vars /\ search.engine = "DFA"
    BY <1>5 DEF DFAEnd, Searching
  <2>2. ASSUME NEW v, NEW r, AfterEnd(v, r) PROVE search' = search
    BY <2>2 DEF AfterEnd, Returns, Answers, searchVars
  <2>3. search' = search
    BY <1>5, <2>2 DEF DFAEnd, searchVars
  <2> QED
    BY <1>1, <2>1, <2>3
<1> QED
  BY <1>1, <1>2, <1>3, <1>4, <1>5

\* What a step of the export of a DFA leaves alone.
LEMMA DFAIsExportedFacts ==
    ASSUME DFAIsExported
    PROVE  /\ UNCHANGED <<vars, nfa, bit, onepass>> /\ onepass = Unset
           /\ \/ stage = "flat" /\ search = NoSearch /\ search'.engine = "Export"
              \/ search.engine = "Export" /\ search' = search
<1>1. /\ UNCHANGED <<nfa, bit, onepass>> /\ onepass = Unset
      /\ BuildAllStates \/ ExpandState \/ Exported
  BY DEF DFAIsExported, Others
<1>2. CASE BuildAllStates
  BY <1>1, <1>2 DEF BuildAllStates, Idle, Begins
<1>3. CASE ExpandState
  BY <1>1, <1>3 DEF ExpandState, Searching, searchVars
<1>4. CASE Exported
  BY <1>1, <1>4, Zenon DEF Exported, Searching, Answers
<1> QED
  BY <1>1, <1>2, <1>3, <1>4

\* What PossibleMatchRange leaves alone.
LEMMA DFAIsBoundedFacts ==
    ASSUME DFAIsBounded
    PROVE  /\ UNCHANGED <<vars, engineVars>> /\ onepass = Unset
           /\ stage = "flat" /\ search = NoSearch /\ search'.engine = "Range"
BY DEF DFAIsBounded, Others, PossibleMatchRange, Idle, Begins, engineVars

\* What handing the table to the library leaves alone.
LEMMA TableIsRunFacts ==
    ASSUME TableIsRun
    PROVE  /\ UNCHANGED <<vars, engineVars>>
           /\ search.engine = "Export" /\ search'.engine = "Library"
BY DEF TableIsRun

\* A search is begun only if there is none, and only its engine goes on with it.
LEMMA SearchStep ==
    ASSUME SearchInv, [EnginesNext]_engineState
    PROVE  /\ SearchInv'
           /\ \/ Aside
              \/ NFASearches /\ Within("NFA") /\ UNCHANGED <<vars, onepass, dfa>>
              \/ OnePassSearches /\ Within("OnePass") /\ UNCHANGED <<vars, nfa, dfa>>
              \/ DFASearchesText /\ Within("DFA") /\ UNCHANGED <<vars, nfa, onepass>>
              \/ DFAIsExported /\ Within("Export") /\ UNCHANGED <<vars, nfa, onepass>>
<1>1. NoSearch.engine = "None"
  BY DEF NoSearch
<1>2. \/ Compiles \/ NFASearches \/ BitStateSearches \/ OnePassSearches
      \/ DFASearchesText \/ DFAIsExported \/ DFAIsBounded \/ TableIsRun \/ LibraryRuns
      \/ UNCHANGED engineState
  BY DEF EnginesNext
<1>3. CASE Compiles
  BY <1>3, CompilesFacts DEF SearchInv, Aside, engineVars, searchVars
<1>4. CASE NFASearches
  BY <1>1, <1>4, NFASearchesFacts DEF SearchInv, Within, vars
<1>5. CASE BitStateSearches
  BY <1>1, <1>5, BitStateSearchesFacts DEF SearchInv, Aside, vars
<1>6. CASE OnePassSearches
  BY <1>1, <1>6, OnePassSearchesFacts DEF SearchInv, Within, vars
<1>7. CASE DFASearchesText
  BY <1>1, <1>7, DFASearchesTextFacts DEF SearchInv, Within, vars
<1>8. CASE DFAIsExported
  BY <1>1, <1>8, DFAIsExportedFacts DEF SearchInv, Within, vars
<1>9. CASE DFAIsBounded
  BY <1>1, <1>9, DFAIsBoundedFacts DEF SearchInv, Aside, vars, engineVars
<1>10. CASE TableIsRun
  BY <1>10, TableIsRunFacts DEF SearchInv, Aside, vars, engineVars
<1>11. CASE LibraryRuns \/ UNCHANGED engineState
  BY <1>11 DEF LibraryRuns, SearchInv, Aside, vars, engineVars, searchVars, engineState
<1> QED
  BY <1>2, <1>3, <1>4, <1>5, <1>6, <1>7, <1>8, <1>9, <1>10, <1>11

-----------------------------------------------------------------------------
(* The NFA's threads are counted. *)

\* The references of a search to its threads are counted as long as it lasts.
NFAInv ==
    /\ search.engine = "NFA" /\ answer = Unset => Held(nfa, Nobody)
    /\ nfa # Unset => Held(nfa, Nobody) /\ (answer # Unset => nfa.q = <<>>)

\* A search of the NFA begins with no thread, or is answered at once.
LEMMA SearchNFAHeld ==
    ASSUME IsFlat(prog), SearchInv, SearchNFA
    PROVE  \/ Held(nfa', Nobody) /\ nfa'.q = <<>>
           \/ nfa' = Unset /\ answer' # Unset
<1>1. nfa = Unset
  BY DEF SearchNFA, Idle, SearchInv, NoSearch
<1>2. NotFound # Unset
  BY UnsetAssumption
<1>3. ASSUME NEW s \in Searches("NFA", {"first", "longest", "full"}, family.nmatches),
             NEW ncapture,
             nfa' = [ncapture |-> ncapture,
                              longest |-> s.kind # "first" \/ prog.anchor_end,
                              anchored |-> s.anchored \/ s.kind = "full"
                                                \/ prog.anchor_start,
                              endmatch |-> prog.anchor_end,
                              match |-> [r \in 0 .. ncapture - 1 |-> NULL],
                              matched |-> FALSE,
                              ref |-> <<>>, capture |-> <<>>, freelist |-> <<>>,
                              q |-> <<>>, t0 |-> NoThread, nstack |-> 1, id |-> 0,
                              p |-> s.from]
      PROVE  Held(nfa', Nobody) /\ nfa'.q = <<>>
  <2>1. /\ NFAFields \subseteq DOMAIN nfa' /\ nfa'.ref = <<>> /\ nfa'.freelist = <<>>
        /\ nfa'.q = <<>> /\ nfa'.nstack = 1
    BY <1>3 DEF NFAFields
  <2> QED
    BY <2>1, BegunHeld
<1> QED
  BY <1>1, <1>2, <1>3 DEF SearchNFA

\* Every step of the engines keeps the threads counted.
LEMMA NFAInvNext ==
    ASSUME SearchInv, NFAInv, FlatProg, [EnginesNext]_engineState
    PROVE  NFAInv'
<1>1. Nobody' = Nobody
  BY DEF Nobody, Threads
<1>2. CASE NFASearches /\ UNCHANGED <<vars, onepass, dfa>>
  <2>1. UNCHANGED prog /\ stage = "flat"
    BY <1>2, NFASearchesFacts DEF vars, SearchInv
  <2>2. IsFlat(prog)
    BY <2>1 DEF FlatProg
  <2>3. \A s : Held(s, Nobody) => Held(s, Nobody)'
    BY <1>1, <2>1 DEF Held, IsQueue, Jobbed, Ids, NStack, InstCount
  <2>4. CASE SearchNFA
    BY <2>2, <2>3, <2>4, SearchNFAHeld DEF NFAInv
  <2>5. CASE NFAStep
    <3>1. Held(nfa, Nobody)
      BY <2>5, Zenon DEF NFAInv, NFAStep, Searching
    <3> QED
      BY <2>2, <2>3, <2>5, <3>1, NFAStepHeld, Zenon DEF NFAInv
  <2> QED
    BY <1>2, <2>4, <2>5 DEF NFASearches
<1>3. CASE Aside
  <2>1. UNCHANGED nfa
    BY <1>3 DEF Aside
  <2>2. CASE search.engine = "NFA" \/ nfa # Unset
    <3>1. stage = "flat" /\ search.engine = "NFA"
      BY <2>2 DEF SearchInv
    <3>2. UNCHANGED <<vars, searchVars>>
      BY <1>3, <3>1 DEF Aside
    <3>3. Held(nfa, Nobody) => Held(nfa, Nobody)'
      BY <1>1, <2>1, <3>2 DEF Held, IsQueue, Jobbed, Ids, NStack, InstCount, Pool, RefOf, vars
    <3> QED
      BY <2>1, <3>2, <3>3 DEF NFAInv, searchVars
  <2>3. CASE search.engine # "NFA" /\ nfa = Unset
    BY <1>3, <2>1, <2>3 DEF NFAInv, Aside, searchVars
  <2> QED
    BY <2>2, <2>3
<1>4. CASE UNCHANGED nfa /\ (Within("OnePass") \/ Within("DFA") \/ Within("Export"))
  BY <1>4 DEF NFAInv, SearchInv, Within
<1> QED
  BY <1>2, <1>3, <1>4, SearchStep

\* The invariant gives the properties.
LEMMA NFAInvCounts ==
    ASSUME NFAInv
    PROVE  ThreadsCounted /\ NFAStackFits
<1> SUFFICES ASSUME nfa # Unset PROVE ThreadsCounted /\ nfa.nstack <= NStack
  BY DEF ThreadsCounted, NFAStackFits
<1>1. /\ Pool(nfa) /\ nfa.q \in Seq(Jobbed) /\ nfa.nstack <= NStack
      /\ \A u \in Threads : RefOf(nfa, u) = HeldIn(nfa.q, u) + 0
      /\ answer # Unset => nfa.q = <<>>
  BY DEF NFAInv, Held, IsQueue, Nobody
<1>2. ASSUME NEW t \in DOMAIN nfa.ref
      PROVE  /\ nfa.ref[t] = HeldIn(nfa.q, t)
             /\ nfa.ref[t] = 0 <=> Contains(nfa.freelist, t)
  <2>1. t \in Threads
    <3>1. PICK n \in Nat : DOMAIN nfa.ref = 1 .. n
      BY <1>1 DEF Pool
    <3> QED
      BY <3>1, SMT DEF Threads, NoThread
  <2>2. RefOf(nfa, t) = nfa.ref[t]
    BY DEF RefOf
  <2>3. HeldIn(nfa.q, t) \in Nat
    BY <1>1, HoldingFacts
  <2> QED
    BY <1>1, <2>1, <2>2, <2>3 DEF Pool
<1>3. IsInjective(nfa.freelist)
  BY <1>1 DEF Pool, IsInjective
<1>4. ASSUME answer # Unset, NEW t \in DOMAIN nfa.ref PROVE nfa.ref[t] = 0
  <2>1. HeldIn(<<>>, t) = 0
    <3>1. Holding(<<>>, t) = {}
      BY DEF Holding
    <3> QED
      BY <3>1, FS_EmptySet DEF HeldIn
  <2> QED
    BY <1>1, <1>2, <1>4, <2>1
<1> QED
  BY <1>1, <1>2, <1>3, <1>4 DEF ThreadsCounted, HeldIn, Holding

\* No engine has begun a search when the program is compiled.
LEMMA InitSearch == EnginesInit => SearchInv /\ NFAInv
BY DEF EnginesInit, SearchInit, NFAInit, OnePassInit, DFAInit, SearchInv, NFAInv, NoSearch

\* A thread of the NFA is freed when, and only when, nobody holds it, so that none is used
\* after it was freed and none is lost, whatever the program and the text.
THEOREM SpecThreadsCounted == EnginesSpec /\ []FlatProg => []ThreadsCounted
<1>1. SearchInv /\ NFAInv /\ FlatProg /\ [EnginesNext]_engineState => (SearchInv /\ NFAInv)'
  BY SearchStep, NFAInvNext
<1>2. SearchInv /\ NFAInv => ThreadsCounted
  BY NFAInvCounts
<1>3. EnginesSpec => EnginesInit /\ [][EnginesNext]_engineState
  BY DEF EnginesSpec, engineState
<1> QED
  BY <1>1, <1>2, <1>3, InitSearch, PTL

-----------------------------------------------------------------------------
(* The stack of OnePass. *)

Pushing == {"Capture", "EmptyWidth", "Nop"}
Pushers == {id \in Ids : prog.inst[id].op \in Pushing}

\* The jobs under the one in hand: each follows an instruction that pushes, and none is
\* there twice, because each is on the work queue w.
Waiting(R, w) ==
    /\ \E S : R \in Seq(S)
    /\ \A j \in 1 .. Len(R) : R[j].id \in w /\ R[j].id \in Ids /\ R[j].id - 1 \in Pushers
    /\ \A j, k \in 1 .. Len(R) : R[j].id = R[k].id => j = k

\* The jobs, the one in hand first.
Flooding(T, w) ==
    /\ \E S : T \in Seq(S)
    /\ T # <<>> => T[1].id \in Ids /\ Waiting(Tail(T), w)

\* What is waiting below may be popped.
LEMMA WaitingPops ==
    ASSUME NEW R, NEW w, Waiting(R, w), NEW w2, w \subseteq w2
    PROVE  Flooding(R, w2) /\ Waiting(R, w2)
<1>1. PICK S : R \in Seq(S)
  BY DEF Waiting
<1>2. Waiting(R, w2)
  BY DEF Waiting
<1>3. ASSUME R # <<>> PROVE R[1].id \in Ids /\ Waiting(Tail(R), w2)
  <2> DEFINE U == Tail(R)
             n == Len(R)
  <2>1. /\ U \in Seq(S) /\ n \in Nat /\ n >= 1 /\ Len(U) = n - 1
        /\ \A j \in 1 .. Len(U) : U[j] = R[j + 1]
    BY <1>1, <1>3, SMT
  <2>2. \A j \in 1 .. Len(U) : j + 1 \in 1 .. n
    BY <2>1, SMT
  <2>3. 1 \in 1 .. n
    BY <2>1, SMT
  <2> HIDE DEF U
  <2>4. ASSUME NEW j \in 1 .. Len(U), NEW k \in 1 .. Len(U), U[j].id = U[k].id PROVE j = k
    <3>1. j + 1 = k + 1
      BY <2>1, <2>2, <2>4 DEF Waiting
    <3> QED
      BY <2>1, <3>1, SMT
  <2>5. \A j \in 1 .. Len(U) : U[j].id \in w2 /\ U[j].id \in Ids /\ U[j].id - 1 \in Pushers
    BY <2>1, <2>2 DEF Waiting
  <2>6. Waiting(U, w2)
    BY <2>1, <2>4, <2>5 DEF Waiting
  <2> QED
    BY <2>3, <2>6 DEF U, Waiting
<1> QED
  BY <1>1, <1>2, <1>3 DEF Flooding

\* A stack with one more on top.
LEMMA OnTop ==
    ASSUME NEW S, NEW R \in Seq(S), NEW e, NEW T, T = <<e>> \o R
    PROVE  /\ T \in Seq(S \union {e}) /\ T # <<>> /\ T[1] = e /\ Tail(T) = R
           /\ Len(T) = Len(R) + 1 /\ \A j \in 1 .. Len(R) : T[j + 1] = R[j]
           /\ \A j \in 1 .. Len(T) : j # 1 => j - 1 \in 1 .. Len(R) /\ T[j] = R[j - 1]
<1> DEFINE V == S \union {e}
<1>1. R \in Seq(V) /\ e \in V
  BY SMT
<1> HIDE DEF V
<1>2. <<e>> \in Seq(V) /\ Len(<<e>>) = 1 /\ <<e>>[1] = e /\ Len(R) \in Nat
  BY <1>1, SMT
<1>3. /\ T \in Seq(V) /\ Len(T) = Len(R) + 1
      /\ \A j \in 1 .. Len(T) : T[j] = IF j = 1 THEN e ELSE R[j - 1]
  BY <1>1, <1>2, SMT
<1>4. T[1] = e /\ T # <<>> /\ \A j \in 1 .. Len(R) : T[j + 1] = R[j]
  BY <1>2, <1>3, SMT
<1>5. \A j \in 1 .. Len(T) : j # 1 => j - 1 \in 1 .. Len(R)
  BY <1>2, <1>3, SMT
<1>6. Tail(T) = R
  <2> DEFINE U == Tail(T)
  <2>1. U \in Seq(V) /\ Len(U) = Len(R) /\ \A j \in 1 .. Len(R) : U[j] = T[j + 1]
    BY <1>2, <1>3, <1>4, SMT
  <2> HIDE DEF U
  <2>2. U = R
    BY <1>1, <1>4, <2>1, SMT
  <2> QED
    BY <2>2 DEF U
<1> QED
  BY <1>3, <1>4, <1>5, <1>6 DEF V

\* What is gone on with is on top of what waits.
LEMMA FloodGoes ==
    ASSUME NEW R, NEW w, Waiting(R, w), NEW e, e.id \in Ids, NEW T, T = <<e>> \o R
    PROVE  Flooding(T, w)
<1>1. PICK S : R \in Seq(S)
  BY DEF Waiting
<1>2. T \in Seq(S \union {e}) /\ T[1] = e /\ Tail(T) = R
  BY <1>1, OnTop
<1>3. \E V : T \in Seq(V)
  BY <1>2
<1> QED
  BY <1>2, <1>3 DEF Flooding

\* The instruction after a pusher, which nothing else follows, waits at most once.
LEMMA FloodPushes ==
    ASSUME NEW R, NEW w, Waiting(R, w), NEW e, e.id \in Ids, e.id \notin w, e.id - 1 \in Pushers,
           NEW w2, w \subseteq w2, e.id \in w2, NEW T, T = <<e>> \o R
    PROVE  Waiting(T, w2)
<1>1. PICK S : R \in Seq(S)
  BY DEF Waiting
<1>2. /\ T \in Seq(S \union {e}) /\ T[1] = e /\ Len(T) = Len(R) + 1
      /\ \A j \in 1 .. Len(T) : j # 1 => j - 1 \in 1 .. Len(R) /\ T[j] = R[j - 1]
  BY <1>1, OnTop
<1>3. \A j \in 1 .. Len(R) : R[j].id \in w /\ R[j].id \in Ids /\ R[j].id - 1 \in Pushers
  BY DEF Waiting
<1>4. ASSUME NEW j \in 1 .. Len(T)
      PROVE  T[j].id \in w2 /\ T[j].id \in Ids /\ T[j].id - 1 \in Pushers
  BY <1>2, <1>3
<1>5. ASSUME NEW j \in 1 .. Len(T), NEW k \in 1 .. Len(T), T[j].id = T[k].id PROVE j = k
  <2>1. CASE j = 1 \/ k = 1
    BY <1>2, <1>3, <1>5, <2>1
  <2>2. CASE j # 1 /\ k # 1
    <3>1. j - 1 \in 1 .. Len(R) /\ k - 1 \in 1 .. Len(R) /\ R[j - 1].id = R[k - 1].id
      BY <1>2, <1>5, <2>2
    <3>2. j - 1 = k - 1
      BY <3>1 DEF Waiting
    <3> QED
      BY <3>2, SMT
  <2> QED
    BY <2>1, <2>2
<1> QED
  BY <1>2, <1>4, <1>5 DEF Waiting

\* The stack is one longer than there are pushers (onepass.cc 404-406).
LEMMA PushersCount ==
    ASSUME IsFlat(prog)
    PROVE  /\ IsFiniteSet(Pushers) /\ InstCount(Pushing) = Cardinality(Pushers)
           /\ InstCount(Pushing) \in Nat
           /\ StackSize \in Nat /\ StackSize = InstCount(Pushing) + 1
<1>1. IsFiniteSet(Ids) /\ Pushers \in SUBSET Ids
  BY FlatFacts DEF Pushers
<1>2. IsFiniteSet(Pushers) /\ Cardinality(Pushers) \in Nat
  BY <1>1, FS_Subset, FS_CardinalityType
<1>3. InstCount(Pushing) = Cardinality(Pushers)
  BY DEF InstCount, Pushers, Ids
<1> QED
  BY <1>2, <1>3, SMT DEF StackSize, Pushing

\* What waits has ids of its own, each after a pusher.
LEMMA WaitingFits ==
    ASSUME IsFlat(prog), NEW R, NEW w, Waiting(R, w)
    PROVE  Len(R) \in Nat /\ Len(R) <= InstCount(Pushing)
<1>1. PICK S : R \in Seq(S)
  BY DEF Waiting
<1>2. Len(R) \in Nat
  BY <1>1, LenProperties
<1> DEFINE n == Len(R)
           f == [j \in 1 .. n |-> R[j].id - 1]
<1>3. \A j \in 1 .. n : R[j].id \in Ids /\ R[j].id - 1 \in Pushers
  BY DEF Waiting
<1>4. f \in [1 .. n -> Pushers]
  BY <1>3
<1>5. ASSUME NEW j \in 1 .. n, NEW k \in 1 .. n, f[j] = f[k] PROVE j = k
  <2>1. R[j].id \in Nat /\ R[k].id \in Nat /\ R[j].id - 1 = R[k].id - 1
    BY <1>3, <1>5, FlatFacts
  <2>2. R[j].id = R[k].id
    BY <2>1, SMT
  <2> QED
    BY <2>2 DEF Waiting
<1> HIDE DEF f
<1>6. f \in Injection(1 .. n, Pushers)
  BY <1>4, <1>5 DEF Injection, IsInjective
<1>7. Cardinality(1 .. n) <= Cardinality(Pushers)
  BY <1>6, PushersCount, FS_Injection
<1>8. Cardinality(1 .. n) = n
  <2> HIDE DEF n
  <2>1. n \in Nat
    BY <1>2 DEF n
  <2>2. Cardinality(1 .. n) = IF 1 > n THEN 0 ELSE n - 1 + 1
    BY <2>1, FS_Interval
  <2> QED
    BY <2>1, <2>2, SMT
<1> QED
  BY <1>2, <1>7, <1>8, PushersCount

OnePassFields == {"nodebyid", "nodes", "tovisit", "visited", "workq", "matched", "nstack", "failed"}

\* The table under construction: the stack has never been too high, and nodes are made
\* for instructions of the program.
OnePassOk(s) ==
    /\ OnePassFields \subseteq DOMAIN s
    /\ s.nstack \in Nat /\ s.nstack <= StackSize
    /\ s.visited \in Nat /\ s.tovisit \in Seq(Ids)

FloodOk(y) == OnePassOk(y.s) /\ (~y.s.failed => Flooding(y.todo, y.s.workq))

\* What leads from one table to the next but for the work queue.
Onward(r, s) ==
    /\ OnePassOk(r) /\ r.nstack = s.nstack
    /\ s.workq \subseteq r.workq

\* AddQ adds the instruction, or fails if it is there.
LEMMA AddQFacts ==
    ASSUME NEW s, OnePassOk(s), ~s.failed, NEW id, NEW r, r = AddQ(s, id)
    PROVE  /\ Onward(r, s)
           /\ ~r.failed /\ id # 0 => id \notin s.workq /\ id \in r.workq
<1>1. CASE id = 0
  BY <1>1 DEF AddQ, Onward
<1>2. CASE id # 0 /\ id \in s.workq
  <2>1. r = [s EXCEPT !.failed = TRUE]
    BY <1>2 DEF AddQ
  <2> QED
    BY <2>1 DEF Onward, OnePassOk, OnePassFields
<1>3. CASE id # 0 /\ id \notin s.workq
  <2>1. r = [s EXCEPT !.workq = @ \union {id}]
    BY <1>3 DEF AddQ
  <2> QED
    BY <1>3, <2>1 DEF Onward, OnePassOk, OnePassFields
<1> QED
  BY <1>1, <1>2, <1>3

\* A new node leaves queue and stack as they are.
LEMMA WithNodeFacts ==
    ASSUME NEW s, OnePassOk(s), NEW id \in Ids, NEW r, r = WithNode(s, id)
    PROVE  Onward(r, s)
<1> DEFINE nodebyid == (id :> Len(s.nodes)) @@ s.nodebyid
           nodes == Append(s.nodes, NewNode)
           tovisit == IF id = 0 THEN s.tovisit ELSE Append(s.tovisit, id)
<1>1. \/ r = s
      \/ r = [s EXCEPT !.failed = TRUE]
      \/ r = [s EXCEPT !.nodebyid = nodebyid, !.nodes = nodes, !.tovisit = tovisit]
  BY DEF WithNode
<1>2. tovisit \in Seq(Ids)
  BY AppendProperties DEF OnePassOk
<1> HIDE DEF nodebyid, nodes, tovisit
<1> QED
  BY <1>1, <1>2 DEF Onward, OnePassOk, OnePassFields

\* New actions leave queue and stack as they are.
LEMMA WithActionsFacts ==
    ASSUME NEW s, OnePassOk(s), NEW n, NEW bs, NEW newact, NEW r, r = WithActions(s, n, bs, newact)
    PROVE  Onward(r, s)
<1> DEFINE action == s.nodes[n + 1].action
           a == [b \in Classes |-> IF b \in bs /\ IsImpossible(action[b]) THEN newact ELSE action[b]]
           failure == \E b \in bs : ~IsImpossible(action[b]) /\ action[b] # newact
           m == [s EXCEPT !.nodes[n + 1].action = a]
<1>1. r = [m EXCEPT !.failed = failure]
  BY DEF WithActions
<1>2. Onward(m, s)
  <2> HIDE DEF a
  <2> QED
    BY DEF Onward, OnePassOk, OnePassFields
<1> HIDE DEF m, failure
<1> QED
  BY <1>1, <1>2 DEF Onward, OnePassOk, OnePassFields

\* Going on is transitive.
LEMMA OnwardTwice ==
    ASSUME NEW q, NEW r, NEW s, Onward(q, r), Onward(r, s)
    PROVE  Onward(q, s)
BY DEF Onward

\* A goto of the walk: one job, on top of what waits, or none.
LEMMA FloodGoto ==
    ASSUME NEW s, NEW R, Waiting(R, s.workq), NEW r, Onward(r, s)
    PROVE  /\ FloodOk([s |-> r, todo |-> <<>> \o R])
           /\ \A e : e.id \in Ids => FloodOk([s |-> r, todo |-> <<e>> \o R])
<1>1. PICK S : R \in Seq(S)
  BY DEF Waiting
<1>2. <<>> \o R = R
  BY <1>1, SMT
<1>3. OnePassOk(r) /\ s.workq \subseteq r.workq
  BY DEF Onward
<1>4. Flooding(R, r.workq) /\ Waiting(R, r.workq)
  BY <1>3, WaitingPops
<1>5. \A T : Flooding(T, r.workq) => FloodOk([s |-> r, todo |-> T])
  BY <1>3 DEF FloodOk
<1>6. ASSUME NEW e, e.id \in Ids PROVE Flooding(<<e>> \o R, r.workq)
  BY <1>4, <1>6, FloodGoes
<1> QED
  BY <1>2, <1>4, <1>5, <1>6

\* The next instruction of the list is pushed, and the one that i leads to goes on.
LEMMA FloodThrough ==
    ASSUME IsFlat(prog), NEW s, OnePassOk(s), ~s.failed, NEW R, Waiting(R, s.workq),
           NEW id \in Pushers, ~prog.inst[id].last,
           NEW r, r = AddQ(s, id + 1), ~r.failed,
           NEW cond, NEW cond1, NEW rest, rest = <<Under(id + 1, cond)>>,
           NEW high, high = Len(rest \o R),
           NEW q, q = AddQ([r EXCEPT !.nstack = IF @ < high THEN high ELSE @], prog.inst[id].out),
           NEW out, out = prog.inst[id].out
    PROVE  FloodOk([s |-> q, todo |-> (<<Under(out, cond1)>> \o rest) \o R])
<1> DEFINE e == Under(id + 1, cond)
           T == <<e>> \o R
           m == [r EXCEPT !.nstack = IF @ < high THEN high ELSE @]
           f == Under(out, cond1)
<1>1. id \in Ids /\ id \in Nat /\ id + 1 \in Ids /\ out \in Ids /\ id + 1 # 0 /\ (id + 1) - 1 = id
  <2>1. id \in Ids /\ id \in Nat
    BY FlatFacts DEF Pushers
  <2>2. id + 1 \in Ids /\ out \in Ids
    BY <2>1 DEF IsFlat, Ids
  <2> QED
    BY <2>1, <2>2, SMT
<1>2. Onward(r, s) /\ id + 1 \notin s.workq /\ id + 1 \in r.workq
  BY <1>1, AddQFacts
<1>3. e.id = id + 1 /\ f.id = out
  BY DEF Under
<1> HIDE DEF e, f
<1>4. /\ Waiting(T, r.workq)
  BY <1>1, <1>2, <1>3, FloodPushes DEF Onward
<1>5. Len(T) \in Nat /\ Len(T) <= InstCount(Pushing) /\ high = Len(T)
  BY <1>4, WaitingFits DEF e
<1>6. high \in Nat /\ high <= StackSize
  BY <1>5, PushersCount, SMT
<1>7. OnePassOk(m) /\ m.workq = r.workq /\ ~m.failed
  BY <1>2, <1>6 DEF Onward, OnePassOk, OnePassFields
<1>71. q = AddQ(m, out)
  OBVIOUS
<1> HIDE DEF m
<1>8. Onward(q, m)
  BY <1>7, <1>71, AddQFacts
<1>9. (<<f>> \o rest) \o R = <<f>> \o T
  <2>1. PICK S : R \in Seq(S)
    BY DEF Waiting
  <2> DEFINE V == S \union {e, f}
  <2>2. R \in Seq(V) /\ e \in V /\ f \in V
    BY <2>1, SMT
  <2> HIDE DEF V
  <2>3. <<e>> \in Seq(V) /\ <<f>> \in Seq(V)
    BY <2>2
  <2>4. \A a, b \in Seq(V) : (a \o b) \o R = a \o (b \o R)
    BY <2>2, ConcatAssociative
  <2>5. rest = <<e>>
    BY DEF e
  <2> QED
    BY <2>3, <2>4, <2>5
<1> HIDE DEF T
<1>10. Waiting(T, m.workq)
  BY <1>4, <1>7
<1>11. FloodOk([s |-> q, todo |-> <<f>> \o T])
  BY <1>1, <1>3, <1>8, <1>10, FloodGoto
<1> QED
  BY <1>9, <1>11 DEF f

\* One turn of the walk of a node (onepass.cc 434-581) keeps the stack within StackSize.
LEMMA FloodInstOk ==
    ASSUME IsFlat(prog), NEW x, FloodOk(x), ~x.s.failed, x.todo # <<>>, NEW n
    PROVE  FloodOk(FloodInst(x, n))
<1> DEFINE s == x.s
           id == Head(x.todo).id
           cond == Head(x.todo).cond
           R == Tail(x.todo)
           i == prog.inst[id]
           NextInList(r) ==
              IF r.failed \/ i.last THEN [s |-> r, todo |-> <<>> \o R]
              ELSE [s |-> AddQ(r, id + 1), todo |-> <<Under(id + 1, cond)>> \o R]
           Through(cond1) ==
              LET rest == IF i.last THEN <<>> ELSE <<Under(id + 1, cond)>>
                  r == IF i.last THEN s ELSE AddQ(s, id + 1)
                  high == Len(rest \o R)
              IN IF r.failed THEN [s |-> r, todo |-> <<>> \o R]
                 ELSE [s |-> AddQ([r EXCEPT !.nstack = IF @ < high THEN high ELSE @], i.out),
                       todo |-> (<<Under(i.out, cond1)>> \o rest) \o R]
<1>1. OnePassOk(s) /\ Waiting(R, s.workq) /\ id \in Ids /\ ~s.failed
  <2>1. Flooding(x.todo, x.s.workq)
    BY DEF FloodOk
  <2>2. Head(x.todo) = x.todo[1]
    OBVIOUS
  <2> QED
    BY <2>1, <2>2 DEF FloodOk, Flooding
<1>2. /\ i.op \in {"Fail", "AltMatch", "Nop", "Capture", "ByteRange", "Match", "EmptyWidth"}
      /\ i.out \in Ids /\ (~i.last \/ i.op = "AltMatch" => id + 1 \in Ids)
      /\ i.op \in Pushing => id \in Pushers
  BY <1>1 DEF IsFlat, Ids, Pushers
<1>3. FloodInst(x, n) =
        CASE i.op = "Fail" -> [s |-> s, todo |-> <<>> \o R]
          [] i.op = "AltMatch" -> [s |-> AddQ(s, id + 1), todo |-> <<Under(id + 1, cond)>> \o R]
          [] i.op = "ByteRange" ->
                LET r == WithNode(s, i.out) IN
                IF r.failed THEN [s |-> r, todo |-> <<>> \o R]
                ELSE NextInList(WithActions(r, n,
                            {prog.bytemap[c] : c \in (i.lo .. i.hi) \union FoldedBytes(i)},
                            [cond EXCEPT !.next = Node(s, i.out), !.matchWins = s.matched]))
          [] i.op = "Nop" -> Through(cond)
          [] i.op = "Capture" ->
                Through(IF i.arg < kMaxCap THEN [cond EXCEPT !.caps = @ \union {i.arg}]
                                           ELSE cond)
          [] i.op = "EmptyWidth" ->
                Through([cond EXCEPT !.empty = @ \union {i.arg}])
          [] i.op = "Match" ->
                IF s.matched THEN [s |-> [s EXCEPT !.failed = TRUE], todo |-> <<>> \o R]
                ELSE NextInList([s EXCEPT !.matched = TRUE,
                                          !.nodes[n + 1].matchcond = cond])
  BY DEF FloodInst
<1> HIDE DEF s, id, cond, R, i
<1>4. Onward(s, s) /\ \A y, c : Under(y, c).id = y
  BY <1>1 DEF Onward, Under
<1>5. ASSUME NEW r, Onward(r, s), ~i.last => id + 1 \in Ids PROVE FloodOk(NextInList(r))
  <2>1. CASE r.failed \/ i.last
    BY <1>1, <1>5, <2>1, FloodGoto
  <2>2. CASE ~r.failed /\ ~i.last
    <3>1. Onward(AddQ(r, id + 1), r)
      BY <1>5, <2>2, AddQFacts DEF Onward
    <3>2. Onward(AddQ(r, id + 1), s)
      BY <1>5, <3>1, OnwardTwice
    <3>3. FloodOk([s |-> AddQ(r, id + 1), todo |-> <<Under(id + 1, cond)>> \o R])
      BY <1>1, <1>4, <1>5, <2>2, <3>2, FloodGoto
    <3> QED
      BY <2>2, <3>3
  <2> QED
    BY <2>1, <2>2
<1>6. ASSUME i.op \in Pushing, NEW cond1 PROVE FloodOk(Through(cond1))
  <2>1. CASE i.last
    <3> DEFINE h == Len(<<>> \o R)
               m == [s EXCEPT !.nstack = IF @ < h THEN h ELSE @]
    <3>1. <<>> \o R = R /\ (<<Under(i.out, cond1)>> \o <<>>) \o R = <<Under(i.out, cond1)>> \o R
      <4>1. PICK S : R \in Seq(S)
        BY <1>1 DEF Waiting
      <4>2. <<Under(i.out, cond1)>> \o <<>> = <<Under(i.out, cond1)>>
        OBVIOUS
      <4> QED
        BY <4>1, <4>2, SMT
    <3>2. h \in Nat /\ h <= StackSize
      <4>1. Len(R) \in Nat /\ Len(R) <= InstCount(Pushing)
        BY <1>1, WaitingFits
      <4> QED
        BY <3>1, <4>1, PushersCount, SMT
    <3> HIDE DEF h
    <3>3. OnePassOk(m) /\ ~m.failed /\ Onward(m, [m EXCEPT !.workq = s.workq]) /\ m.workq = s.workq
      BY <1>1, <3>2 DEF OnePassOk, OnePassFields, Onward
    <3> HIDE DEF m
    <3>4. Onward(AddQ(m, i.out), m)
      BY <3>3, AddQFacts
    <3>5. Waiting(R, m.workq)
      BY <1>1, <3>3
    <3>6. FloodOk([s |-> AddQ(m, i.out), todo |-> <<Under(i.out, cond1)>> \o R])
      BY <1>2, <1>4, <3>4, <3>5, FloodGoto
    <3>7. Through(cond1) =
            [s |-> AddQ(m, i.out), todo |-> (<<Under(i.out, cond1)>> \o <<>>) \o R]
      BY <1>1, <2>1 DEF m, h
    <3> QED
      BY <3>1, <3>6, <3>7
  <2>2. CASE ~i.last
    <3> DEFINE r == AddQ(s, id + 1)
               rest == <<Under(id + 1, cond)>>
               high == Len(rest \o R)
               q == AddQ([r EXCEPT !.nstack = IF @ < high THEN high ELSE @], i.out)
    <3>1. CASE r.failed
      <4>1. Onward(r, s)
        BY <1>1, AddQFacts
      <4>2. FloodOk([s |-> r, todo |-> <<>> \o R])
        BY <1>1, <4>1, FloodGoto
      <4> QED
        BY <2>2, <3>1, <4>2
    <3>2. CASE ~r.failed
      <4>1. id \in Pushers /\ ~prog.inst[id].last /\ i.out = prog.inst[id].out
        BY <1>2, <1>6, <2>2 DEF i
      <4>2. FloodOk([s |-> q, todo |-> (<<Under(i.out, cond1)>> \o rest) \o R])
        <5> HIDE DEF r, rest, high, q
        <5>1. r = AddQ(s, id + 1) /\ rest = <<Under(id + 1, cond)>> /\ high = Len(rest \o R)
          BY DEF r, rest, high
        <5>2. q = AddQ([r EXCEPT !.nstack = IF @ < high THEN high ELSE @], prog.inst[id].out)
          BY <4>1 DEF q
        <5> QED
          BY <1>1, <3>2, <4>1, <5>1, <5>2, FloodThrough
      <4> QED
        BY <2>2, <3>2, <4>2
    <3> QED
      BY <3>1, <3>2
  <2> QED
    BY <2>1, <2>2
<1> HIDE DEF NextInList, Through
<1>7. CASE i.op = "Fail"
  <2>1. FloodOk([s |-> s, todo |-> <<>> \o R])
    BY <1>1, <1>4, FloodGoto
  <2> QED
    BY <1>3, <1>7, <2>1
<1>8. CASE i.op = "AltMatch"
  <2> DEFINE r == AddQ(s, id + 1)
             e == Under(id + 1, cond)
  <2>1. Onward(r, s)
    BY <1>1, AddQFacts
  <2>2. e.id \in Ids
    BY <1>2, <1>4, <1>8
  <2>3. FloodInst(x, n) = [s |-> r, todo |-> <<e>> \o R]
    BY <1>3, <1>8
  <2> HIDE DEF r, e
  <2>4. FloodOk([s |-> r, todo |-> <<e>> \o R])
    BY <1>1, <2>1, <2>2, FloodGoto
  <2> QED
    BY <2>3, <2>4
<1>9. CASE i.op = "ByteRange"
  <2> DEFINE r == WithNode(s, i.out)
             bs == {prog.bytemap[c] : c \in (i.lo .. i.hi) \union FoldedBytes(i)}
             newact == [cond EXCEPT !.next = Node(s, i.out), !.matchWins = s.matched]
  <2>1. Onward(r, s)
    BY <1>1, <1>2, WithNodeFacts
  <2> HIDE DEF r, bs, newact
  <2>2. Onward(WithActions(r, n, bs, newact), s)
    <3>1. Onward(WithActions(r, n, bs, newact), r)
      BY <2>1, WithActionsFacts DEF Onward
    <3> QED
      BY <2>1, <3>1, OnwardTwice
  <2>3. FloodOk(NextInList(WithActions(r, n, bs, newact)))
    BY <1>2, <1>5, <1>9, <2>2
  <2>4. FloodOk([s |-> r, todo |-> <<>> \o R])
    BY <1>1, <2>1, FloodGoto
  <2>5. FloodInst(x, n) = IF r.failed THEN [s |-> r, todo |-> <<>> \o R]
                          ELSE NextInList(WithActions(r, n, bs, newact))
    BY <1>3, <1>9 DEF r, bs, newact
  <2> QED
    BY <2>3, <2>4, <2>5
<1>10. CASE i.op \in Pushing
  <2>1. \E cond1 : FloodInst(x, n) = Through(cond1)
    BY <1>3, <1>10 DEF Pushing
  <2> QED
    BY <1>6, <1>10, <2>1
<1>11. CASE i.op = "Match"
  <2> DEFINE f == [s EXCEPT !.failed = TRUE]
             m == [s EXCEPT !.matched = TRUE, !.nodes[n + 1].matchcond = cond]
  <2>1. Onward(f, s) /\ Onward(m, s)
    BY <1>1 DEF Onward, OnePassOk, OnePassFields
  <2> HIDE DEF f, m
  <2>2. FloodOk([s |-> f, todo |-> <<>> \o R])
    BY <1>1, <2>1, FloodGoto
  <2>3. FloodOk(NextInList(m))
    BY <1>2, <1>5, <1>11, <2>1
  <2>4. FloodInst(x, n) = IF s.matched THEN [s |-> f, todo |-> <<>> \o R] ELSE NextInList(m)
    BY <1>3, <1>11 DEF f, m
  <2> QED
    BY <2>2, <2>3, <2>4
<1> QED
  BY <1>2, <1>7, <1>8, <1>9, <1>10, <1>11 DEF Pushing

\* The walk of a node is its turns.
LEMMA FloodNodeTurns ==
    ASSUME ProgSize \in Nat, NEW s, NEW n, NEW id, NEW how,
           how = [loop |-> "FloodNode", n |-> n],
           NEW x, x = [s |-> s, todo |-> <<Under(id, NoCond)>>]
    PROVE  \E N \in Nat : \E g : Turns(g, how, x, N) /\ FloodNode(s, n, id) = g[N].s
<1> DEFINE N == 2 * ProgSize + 1
           Is(g) == g = [k \in 0 .. 2 * ProgSize + 1 |->
                            IF k = 0 THEN [s |-> s, todo |-> <<Under(id, NoCond)>>]
                            ELSE LET y == g[k - 1]
                                 IN IF y.todo = <<>> \/ y.s.failed THEN y ELSE FloodInst(y, n)]
           a == CHOOSE g : Is(g)
<1>1. \A y, k : OneMore(how, y, k) = IF y.todo = <<>> \/ y.s.failed THEN y ELSE FloodInst(y, n)
  BY DEF OneMore
<1>2. \A g : Is(g) <=> Turns(g, how, x, N)
  BY <1>1 DEF Turns
<1>3. N \in Nat
  BY SMT
<1>4. \E g : Is(g)
  <2> HIDE DEF Is, N
  <2> QED
    BY <1>2, <1>3, TurnsExist
<1>5. Is(a)
  BY <1>4, Zenon
<1>6. FloodNode(s, n, id) = a[2 * ProgSize + 1].s
  BY DEF FloodNode
<1> HIDE DEF a, Is
<1> QED
  BY <1>2, <1>3, <1>5, <1>6

\* The flood from a node leaves the table as it should be.
LEMMA FloodNodeOk ==
    ASSUME IsFlat(prog), NEW s, OnePassOk(s), NEW id \in Ids, NEW n
    PROVE  OnePassOk(FloodNode(s, n, id))
<1> DEFINE x == [s |-> s, todo |-> <<Under(id, NoCond)>>]
           how == [loop |-> "FloodNode", n |-> n]
<1>1. PICK N \in Nat : \E g : Turns(g, how, x, N) /\ FloodNode(s, n, id) = g[N].s
  BY FlatFacts, FloodNodeTurns
<1>2. PICK g : Turns(g, how, x, N) /\ FloodNode(s, n, id) = g[N].s
  BY <1>1
<1>3. \A y, k : OneMore(how, y, k) = IF y.todo = <<>> \/ y.s.failed THEN y ELSE FloodInst(y, n)
  BY DEF OneMore
<1>4. FloodOk(x)
  <2> DEFINE e == Under(id, NoCond)
             R == <<>>
  <2>1. Waiting(R, s.workq)
    <3>1. R \in Seq({}) /\ 1 .. Len(R) = {}
      BY SMT
    <3> HIDE DEF R
    <3> QED
      BY <3>1 DEF Waiting
  <2>2. <<e>> \o R = <<e>> /\ e.id \in Ids
    BY DEF Under
  <2>3. Onward(s, s)
    BY DEF Onward
  <2> HIDE DEF e, R
  <2>4. FloodOk([s |-> s, todo |-> <<e>> \o R])
    BY <2>1, <2>2, <2>3, FloodGoto
  <2> QED
    BY <2>2, <2>4 DEF e
<1> HIDE DEF x, how
<1>5. /\ 0 \in 0 .. N /\ N \in 0 .. N /\ g[0] = x
      /\ \A k \in 1 .. N : g[k] = OneMore(how, g[k - 1], k) /\ k \in 0 .. N
  BY <1>1, <1>2, TurnsFacts
<1> DEFINE P == {k \in 0 .. N : FloodOk(g[k])}
<1>6. 0 \in P
  BY <1>4, <1>5
<1>7. ASSUME NEW k \in 1 .. N, k - 1 \in P PROVE k \in P
  <2> DEFINE y == g[k - 1]
  <2>1. FloodOk(y) /\ g[k] = OneMore(how, y, k)
    BY <1>5, <1>7
  <2> HIDE DEF y
  <2>2. y.todo # <<>> /\ ~y.s.failed => FloodOk(FloodInst(y, n))
    BY <2>1, FloodInstOk
  <2>3. FloodOk(g[k])
    BY <1>3, <2>1, <2>2
  <2> QED
    BY <1>5, <2>3
<1> HIDE DEF P
<1>8. \A k \in 0 .. N : k \in P
  BY <1>1, <1>6, <1>7, Upward
<1>9. FloodOk(g[N])
  BY <1>5, <1>8 DEF P
<1> QED
  BY <1>2, <1>9 DEF FloodOk

\* The tables stay as they should be while they are built and searched.
OnePassInv == onepass # Unset \/ search.engine = "OnePass" => OnePassOk(onepass)

\* A step of the search in the tables.
Moved(s, p, state, cap, matchcap, found) ==
    [s EXCEPT !.p = p, !.state = state, !.cap = cap, !.matchcap = matchcap, !.found = found]

\* A step in the tables leaves them as they are.
LEMMA MovedOk ==
    \A s, p, state, cap, matchcap, found :
        OnePassOk(s) => OnePassOk(Moved(s, p, state, cap, matchcap, found))
BY DEF OnePassOk, OnePassFields, Moved

\* Every step of OnePass keeps its tables and its stack as they should be.
LEMMA OnePassSearchesOk ==
    ASSUME IsFlat(prog), SearchInv, OnePassInv, OnePassSearches
    PROVE  OnePassOk(onepass') \/ (onepass' = Unset /\ search'.engine # "OnePass")
<1>1. StackSize \in Nat /\ StackSize >= 1
  BY PushersCount, SMT
<1>2. CASE IsOnePass
  <2>1. prog.start \in Ids
    BY DEF IsFlat, Ids
  <2>2. <<prog.start>> \in Seq(Ids)
    BY <2>1
  <2>3. /\ OnePassFields \subseteq DOMAIN onepass' /\ onepass'.nstack = 1
        /\ onepass'.visited = 0 /\ onepass'.tovisit = <<prog.start>>
    BY <1>2 DEF IsOnePass, OnePassFields
  <2> QED
    BY <1>1, <2>2, <2>3, SMT DEF OnePassOk
<1>3. CASE BuildNode
  <2> DEFINE id == onepass.tovisit[onepass.visited + 1]
             n == onepass.nodebyid[id]
             s == [onepass EXCEPT !.nodes[n + 1] = EmptyNode, !.visited = @ + 1, !.workq = {},
                                  !.matched = FALSE]
  <2>1. OnePassOk(onepass) /\ onepass.visited < Len(onepass.tovisit)
    BY <1>3 DEF BuildNode, Building, OnePassInv
  <2>2. id \in Ids
    <3>1. onepass.visited \in Nat /\ onepass.tovisit \in Seq(Ids)
      BY <2>1 DEF OnePassOk
    <3>2. onepass.visited + 1 \in 1 .. Len(onepass.tovisit)
      BY <2>1, <3>1, LenProperties, SMT
    <3> QED
      BY <3>1, <3>2, ElementOfSeq
  <2>3. OnePassOk(s)
    <3> HIDE DEF id, n
    <3> QED
      BY <2>1 DEF OnePassOk, OnePassFields
  <2>4. onepass' = FloodNode(s, n, id)
    BY <1>3 DEF BuildNode
  <2> HIDE DEF id, n, s
  <2> QED
    BY <2>2, <2>3, <2>4, FloodNodeOk
<1>4. CASE SearchOnePass
  <2>1. OnePassOk(onepass)
    BY <1>4 DEF SearchOnePass, Built, OnePassInv
  <2>2. PICK s : \/ onepass' = onepass
                 \/ \E begun : onepass' = Moved(onepass, s.from, 0, begun, begun, FALSE)
    <3>1. \E s \in Searches("OnePass", {"first", "longest", "full"},
                          {n \in family.nmatches : 2 * n <= kMaxCap}) :
            \/ onepass' = onepass
            \/ \E begun : onepass' = Moved(onepass, s.from, 0, begun, begun, FALSE)
      BY <1>4, Zenon DEF SearchOnePass, Moved
    <3> QED
      BY <3>1
  <2> QED
    BY <2>1, <2>2, MovedOk
<1>5. CASE OnePassByte
  <2>1. OnePassOk(onepass)
    BY <1>5, Zenon DEF OnePassByte, Searching, OnePassInv
  <2>2. \/ onepass' = onepass
        \/ \E p, state, cap, matchcap, found :
                onepass' = Moved(onepass, p, state, cap, matchcap, found)
    <3> DEFINE p == onepass.p
               node == onepass.nodes[onepass.state + 1]
               cond == node.action[prog.bytemap[ByteAt(search, p)]]
               goes == Satisfy(cond, p)
               nextmatchcond == IF goes THEN onepass.nodes[cond.next + 1].matchcond
                                        ELSE Impossible
               matches ==
                    /\ ~ToTheEnd(search)
                    /\ node.matchcond # Impossible
                    /\ cond.matchWins \/ nextmatchcond.empty # {}
                    /\ Satisfy(node.matchcond, p)
               matchcap == IF matches THEN MatchHere(node.matchcond, p) ELSE onepass.matchcap
               found == onepass.found \/ matches
               cap == ApplyCaptures(cond, [onepass EXCEPT !.p = p + 1, !.state = cond.next].cap, p)
    <3>1. onepass' = onepass \/ onepass' = Moved(onepass, p + 1, cond.next, cap, matchcap, found)
      BY <1>5, Zenon DEF OnePassByte, Moved
    <3> HIDE DEF p, cond, cap, matchcap, found
    <3> QED
      BY <3>1
  <2> QED
    BY <2>1, <2>2, MovedOk, Zenon
<1>6. CASE OnePassEnd
  <2>1. OnePassOk(onepass)
    BY <1>6 DEF OnePassEnd, Searching, OnePassInv
  <2> QED
    BY <1>6, <2>1 DEF OnePassEnd
<1> QED
  BY <1>2, <1>3, <1>4, <1>5, <1>6 DEF OnePassSearches

\* Every step of the engines keeps the tables of OnePass as they should be.
LEMMA OnePassInvNext ==
    ASSUME SearchInv, OnePassInv, FlatProg, [EnginesNext]_engineState
    PROVE  OnePassInv'
<1>1. UNCHANGED prog => \A s : OnePassOk(s) => OnePassOk(s)'
  BY DEF OnePassOk, StackSize, InstCount, Ids
<1>2. CASE OnePassSearches /\ Within("OnePass") /\ UNCHANGED <<vars, nfa, dfa>>
  <2>1. IsFlat(prog)
    BY <1>2, OnePassSearchesFacts DEF FlatProg, SearchInv
  <2>2. UNCHANGED prog
    BY <1>2 DEF vars
  <2> QED
    BY <1>1, <1>2, <2>1, <2>2, OnePassSearchesOk DEF OnePassInv
<1>3. CASE Aside
  <2>1. UNCHANGED onepass
    BY <1>3 DEF Aside
  <2>2. CASE search.engine = "OnePass" \/ onepass # Unset
    <3>1. stage = "flat"
      BY <2>2 DEF SearchInv
    <3>2. UNCHANGED prog
      BY <1>3, <3>1 DEF Aside, vars
    <3> QED
      BY <1>1, <2>1, <2>2, <3>2 DEF OnePassInv
  <2>3. CASE search.engine # "OnePass" /\ onepass = Unset
    BY <1>3, <2>1, <2>3 DEF OnePassInv, Aside, searchVars
  <2> QED
    BY <2>2, <2>3
<1>4. CASE UNCHANGED <<vars, onepass>> /\ (Within("NFA") \/ Within("DFA") \/ Within("Export"))
  <2>1. UNCHANGED prog
    BY <1>4 DEF vars
  <2> QED
    BY <1>1, <1>4, <2>1 DEF OnePassInv, Within
<1> QED
  BY <1>2, <1>3, <1>4, SearchStep DEF vars

\* Before anything is searched there are no tables.
LEMMA InitOnePass == EnginesInit => SearchInv /\ OnePassInv
<1> SUFFICES ASSUME EnginesInit PROVE SearchInv /\ OnePassInv
  OBVIOUS
<1>1. SearchInv
  BY InitSearch
<1>2. search.engine # "OnePass"
  BY DEF EnginesInit, SearchInit, NoSearch
<1> QED
  BY <1>1, <1>2 DEF EnginesInit, OnePassInit, OnePassInv

\* The stack that IsOnePass sizes by counting instructions is never too small.
THEOREM SpecOnePassStackFits == EnginesSpec /\ []FlatProg => []OnePassStackFits
<1>1. SearchInv /\ OnePassInv /\ FlatProg /\ [EnginesNext]_engineState
          => (SearchInv /\ OnePassInv)'
  BY SearchStep, OnePassInvNext
<1>2. OnePassInv => OnePassStackFits
  BY DEF OnePassInv, OnePassOk, OnePassStackFits
<1>3. EnginesSpec => EnginesInit /\ [][EnginesNext]_engineState
  BY DEF EnginesSpec, engineState
<1> QED
  BY <1>1, <1>2, <1>3, InitOnePass, PTL

\* Nor is the one that the NFA sizes.
THEOREM SpecNFAStackFits == EnginesSpec /\ []FlatProg => []NFAStackFits
<1>1. SearchInv /\ NFAInv /\ FlatProg /\ [EnginesNext]_engineState => (SearchInv /\ NFAInv)'
  BY SearchStep, NFAInvNext
<1>2. SearchInv /\ NFAInv => NFAStackFits
  BY NFAInvCounts
<1>3. EnginesSpec => EnginesInit /\ [][EnginesNext]_engineState
  BY DEF EnginesSpec, engineState
<1> QED
  BY <1>1, <1>2, <1>3, InitSearch, PTL

-----------------------------------------------------------------------------
(* The work queues of the DFA. *)

\* What a work queue and the stack have: instructions and marks.
QIds == Ids \union {MarkId}

Elems(q) == {q[k] : k \in 1 .. Len(q)}

\* Every instruction that is in a queue is there once, and Fail is in none.
IsDFAQueue(q) ==
    /\ q \in Seq(QIds)
    /\ \A k \in 1 .. Len(q) : q[k] # 0
    /\ \A j, k \in 1 .. Len(q) : q[j] = q[k] /\ q[j] # MarkId => j = k

\* The elements of a queue that are marks.
MarkPlaces(q) == {k \in DOMAIN q : q[k] = MarkId}

\* The marks of a sequence are no more than it has elements.
LEMMA MarksFacts ==
    ASSUME NEW S, NEW q \in Seq(S)
    PROVE  /\ IsFiniteSet(MarkPlaces(q)) /\ Marks(q) = Cardinality(MarkPlaces(q))
           /\ Marks(q) \in Nat /\ MarkPlaces(q) \in SUBSET (1 .. Len(q))
           /\ (\A k \in 1 .. Len(q) : q[k] # MarkId) => Marks(q) = 0
           /\ Marks(q) = 0 => \A k \in 1 .. Len(q) : q[k] # MarkId
<1>1. Len(q) \in Nat /\ DOMAIN q = 1 .. Len(q)
  BY LenProperties
<1>2. IsFiniteSet(1 .. Len(q))
  BY <1>1, FS_Interval
<1>3. MarkPlaces(q) \in SUBSET (1 .. Len(q))
  BY <1>1 DEF MarkPlaces
<1>4. IsFiniteSet(MarkPlaces(q)) /\ Cardinality(MarkPlaces(q)) \in Nat
  BY <1>2, <1>3, FS_Subset, FS_CardinalityType
<1>5. Marks(q) = Cardinality(MarkPlaces(q))
  BY DEF Marks, MarkPlaces
<1>6. Marks(q) = 0 <=> MarkPlaces(q) = {}
  BY <1>4, <1>5, FS_EmptySet
<1> QED
  BY <1>1, <1>3, <1>4, <1>5, <1>6 DEF MarkPlaces

\* The marks of two sequences, one after the other.
LEMMA MarksCat ==
    ASSUME NEW S, NEW a \in Seq(S), NEW b \in Seq(S)
    PROVE  Marks(a \o b) = Marks(a) + Marks(b)
<1> DEFINE Thread(e) == [t |-> e]
           U == {Thread(e) : e \in S}
           Tagged(q) == [k \in 1 .. Len(q) |-> Thread(q[k])]
<1>1. ASSUME NEW q \in Seq(S)
      PROVE  /\ Tagged(q) \in Seq(U) /\ Len(Tagged(q)) = Len(q)
             /\ Marks(q) = HeldIn(Tagged(q), MarkId)
  <2> DEFINE n == Len(q)
             T == Tagged(q)
  <2>1. n \in Nat /\ DOMAIN q = 1 .. n /\ \A k \in 1 .. n : q[k] \in S
    BY LenProperties
  <2>2. T \in [1 .. n -> U]
    BY <2>1
  <2>3. DOMAIN T = 1 .. n /\ \A k \in 1 .. n : T[k].t = q[k]
    OBVIOUS
  <2> HIDE DEF n, T, U
  <2>4. T \in Seq(U) /\ Len(T) = n
    BY <2>1, <2>2, SMT
  <2>5. Holding(T, MarkId) = MarkPlaces(q)
    BY <2>1, <2>3 DEF Holding, MarkPlaces
  <2> QED
    BY <2>4, <2>5, MarksFacts DEF n, T, HeldIn
<1>2. a \o b \in Seq(S) /\ Len(a \o b) = Len(a) + Len(b)
      /\ \A k \in 1 .. Len(a) + Len(b) : (a \o b)[k] = IF k <= Len(a) THEN a[k] ELSE b[k - Len(a)]
  BY ConcatProperties
<1>3. Len(a) \in Nat /\ Len(b) \in Nat
  BY LenProperties
<1>4. Tagged(a \o b) = Tagged(a) \o Tagged(b)
  <2> DEFINE A == Tagged(a)
             B == Tagged(b)
             C == Tagged(a \o b)
  <2>1. A \in Seq(U) /\ Len(A) = Len(a) /\ B \in Seq(U) /\ Len(B) = Len(b)
        /\ C \in Seq(U) /\ Len(C) = Len(a) + Len(b)
    BY <1>1, <1>2
  <2>2. A \o B \in Seq(U) /\ Len(A \o B) = Len(a) + Len(b)
        /\ \A k \in 1 .. Len(a) + Len(b) :
            (A \o B)[k] = IF k <= Len(a) THEN A[k] ELSE B[k - Len(a)]
    <3> HIDE DEF A, B, U
    <3>0. A \in Seq(U) /\ B \in Seq(U)
      BY <2>1
    <3>1. A \o B \in Seq(U) /\ Len(A \o B) = Len(A) + Len(B)
          /\ \A k \in 1 .. Len(A) + Len(B) :
                (A \o B)[k] = IF k <= Len(A) THEN A[k] ELSE B[k - Len(A)]
      BY <3>0, ConcatProperties
    <3> QED
      BY <2>1, <3>1
  <2>3. ASSUME NEW k \in 1 .. Len(a) + Len(b) PROVE C[k] = (A \o B)[k]
    <3>1. C[k] = Thread((a \o b)[k])
      BY <1>2
    <3>2. CASE k <= Len(a)
      <4>1. k \in 1 .. Len(a)
        BY <1>3, <3>2, SMT
      <4>2. A[k] = Thread(a[k]) /\ (a \o b)[k] = a[k]
        BY <1>2, <3>2, <4>1
      <4> QED
        BY <2>2, <3>1, <3>2, <4>2
    <3>3. CASE ~(k <= Len(a))
      <4>1. k - Len(a) \in 1 .. Len(b)
        BY <1>3, <3>3, SMT
      <4>2. B[k - Len(a)] = Thread(b[k - Len(a)]) /\ (a \o b)[k] = b[k - Len(a)]
        BY <1>2, <3>3, <4>1
      <4> QED
        BY <2>2, <3>1, <3>3, <4>2
    <3> QED
      BY <3>2, <3>3
  <2> HIDE DEF A, B, C, U
  <2>4. C = A \o B
    BY <2>1, <2>2, <2>3, SeqEqual
  <2> QED
    BY <2>4 DEF A, B, C
<1> HIDE DEF Tagged, U
<1>5. HeldIn(Tagged(a) \o Tagged(b), MarkId) = HeldIn(Tagged(a), MarkId) + HeldIn(Tagged(b), MarkId)
  BY <1>1, HeldInCat
<1> QED
  BY <1>1, <1>2, <1>4, <1>5

\* A mark on top, or at the end.
LEMMA MarksOne ==
    ASSUME NEW e
    PROVE  Marks(<<e>>) = IF e = MarkId THEN 1 ELSE 0
<1>1. DOMAIN <<e>> = {1} /\ <<e>>[1] = e
  BY SMT
<1>2. {k \in DOMAIN <<e>> : <<e>>[k] = MarkId} = IF e = MarkId THEN {1} ELSE {}
  BY <1>1
<1> QED
  BY <1>2, FS_EmptySet, FS_Singleton DEF Marks

\* The marks of a queue with one more element, at either end.
LEMMA MarksTop ==
    ASSUME NEW S, NEW q \in Seq(S), NEW e \in S
    PROVE  /\ Marks(<<e>> \o q) = (IF e = MarkId THEN 1 ELSE 0) + Marks(q)
           /\ Marks(Append(q, e)) = Marks(q) + (IF e = MarkId THEN 1 ELSE 0)
<1> DEFINE one == <<e>>
<1>1. one \in Seq(S) /\ Marks(one) = IF e = MarkId THEN 1 ELSE 0
  BY MarksOne
<1>2. Append(q, e) = q \o one
  BY SMT
<1> HIDE DEF one
<1>3. Marks(one \o q) = Marks(one) + Marks(q) /\ Marks(q \o one) = Marks(q) + Marks(one)
  BY <1>1, MarksCat
<1> QED
  BY <1>1, <1>2, <1>3 DEF one

\* The instructions in a queue that pushed what comes after them.
Pushed(q) == {id \in Pushers : id \in Elems(q)}

\* Does a search for the longest match put a mark after the .*? loop in front of it?
MarksLoop(matchkind) ==
    /\ NMark(matchkind) > 0
    /\ prog.inst[prog.start_unanchored].op = "Nop" /\ prog.start_unanchored # prog.start

Laps(q, matchkind) ==
    IF MarksLoop(matchkind) /\ prog.start_unanchored \in Elems(q) THEN 1 ELSE 0

\* What stack_ and the queue have room for.
LEMMA RoomFacts ==
    ASSUME IsFlat(prog), NEW matchkind
    PROVE  /\ NMark(matchkind) \in Nat /\ NMark(matchkind) \in {0, ProgSize}
           /\ InstCount(Pushing) \in Nat
           /\ DFAStack(matchkind) = InstCount(Pushing) + NMark(matchkind) + 1
           /\ MarkId \notin Ids /\ 0 \in Ids /\ Pushers \in SUBSET Ids /\ IsFiniteSet(Pushers)
           /\ prog.start_unanchored \in Ids /\ prog.start \in Ids
           /\ MarkId = -1
<1>1. ProgSize \in Nat /\ 0 \in Ids /\ Ids \in SUBSET Nat
  BY FlatFacts
<1>2. InstCount(Pushing) \in Nat /\ IsFiniteSet(Pushers) /\ Pushers \in SUBSET Ids
  BY PushersCount DEF Pushers
<1>3. DFAStack(matchkind) = InstCount(Pushing) + NMark(matchkind) + 1
  BY DEF DFAStack, Pushing
<1>4. MarkId = -1 /\ MarkId \notin Nat
  BY SMT DEF MarkId
<1>5. prog.start_unanchored \in Ids /\ prog.start \in Ids
  BY DEF IsFlat, Ids
<1> QED
  BY <1>1, <1>2, <1>3, <1>4, <1>5 DEF NMark

\* Those that pushed are no more than can push, and the loop is one of them.
LEMMA PushedFacts ==
    ASSUME IsFlat(prog), NEW q, NEW matchkind
    PROVE  /\ IsFiniteSet(Pushed(q))
           /\ Cardinality(Pushed(q)) \in Nat /\ Cardinality(Pushed(q)) <= InstCount(Pushing)
           /\ Laps(q, matchkind) \in {0, 1} /\ Laps(q, matchkind) <= NMark(matchkind)
<1>1. IsFiniteSet(Pushers) /\ InstCount(Pushing) = Cardinality(Pushers)
      /\ InstCount(Pushing) \in Nat
  BY PushersCount
<1>2. Pushed(q) \in SUBSET Pushers
  BY DEF Pushed
<1>3. /\ IsFiniteSet(Pushed(q)) /\ Cardinality(Pushed(q)) \in Nat
      /\ Cardinality(Pushed(q)) <= InstCount(Pushing)
  BY <1>1, <1>2, FS_Subset, FS_CardinalityType
<1>4. NMark(matchkind) \in Nat /\ (MarksLoop(matchkind) => NMark(matchkind) > 0)
  BY RoomFacts DEF MarksLoop
<1>5. Laps(q, matchkind) \in {0, 1} /\ (Laps(q, matchkind) = 1 => MarksLoop(matchkind))
  BY DEF Laps
<1> QED
  BY <1>3, <1>4, <1>5, SMT

\* A queue with one more element.
Grown(r, q, e) == r = Append(q, e)

\* What that does to the queue.
Larger(S, r, q, e) ==
    /\ r \in Seq(S) /\ Len(r) = Len(q) + 1 /\ Len(q) \in Nat
    /\ \A k \in 1 .. Len(r) : r[k] = IF k = Len(r) THEN e ELSE q[k]
    /\ \A k \in 1 .. Len(r) : k # Len(r) => k \in 1 .. Len(q)
    /\ \A k \in 1 .. Len(q) : k \in 1 .. Len(r) /\ k # Len(r)
    /\ Len(r) \in 1 .. Len(r)
    /\ Elems(r) = Elems(q) \union {e}
    /\ Marks(r) = Marks(q) + (IF e = MarkId THEN 1 ELSE 0)

\* A queue with one more element has all it had, and the element at its end.
LEMMA GrownFacts ==
    ASSUME NEW S, NEW q \in Seq(S), NEW e \in S, NEW r, Grown(r, q, e)
    PROVE  Larger(S, r, q, e)
<1>1. /\ r \in Seq(S) /\ Len(r) = Len(q) + 1 /\ Len(q) \in Nat
      /\ \A k \in 1 .. Len(q) : r[k] = q[k]
      /\ r[Len(q) + 1] = e
  BY SMT DEF Grown
<1>2. /\ \A k \in 1 .. Len(r) : k # Len(r) => k \in 1 .. Len(q)
      /\ \A k \in 1 .. Len(q) : k \in 1 .. Len(r) /\ k # Len(r)
      /\ Len(r) \in 1 .. Len(r)
  BY <1>1, SMT
<1>3. \A k \in 1 .. Len(r) : r[k] = IF k = Len(r) THEN e ELSE q[k]
  BY <1>1, <1>2
<1>4. Elems(r) = Elems(q) \union {e}
  BY <1>2, <1>3 DEF Elems
<1>5. Marks(r) = Marks(q) + (IF e = MarkId THEN 1 ELSE 0)
  BY MarksTop DEF Grown
<1> QED
  BY <1>1, <1>2, <1>3, <1>4, <1>5 DEF Larger

\* An instruction that is new in a queue counts for what it is.
LEMMA QueueGrows ==
    ASSUME IsFlat(prog), NEW q, IsDFAQueue(q), NEW id \in Ids, id # 0, id \notin Elems(q),
           NEW matchkind, NEW r, Grown(r, q, id)
    PROVE  /\ IsDFAQueue(r) /\ Marks(r) = Marks(q) /\ Marks(q) \in Nat
           /\ Cardinality(Pushed(r)) =
                Cardinality(Pushed(q)) + (IF prog.inst[id].op \in Pushing THEN 1 ELSE 0)
           /\ Laps(r, matchkind) = Laps(q, matchkind)
                + (IF MarksLoop(matchkind) /\ id = prog.start_unanchored THEN 1 ELSE 0)
<1>1. q \in Seq(QIds) /\ id \in QIds /\ id # MarkId
  BY RoomFacts DEF IsDFAQueue, QIds
<1>0. Larger(QIds, r, q, id)
  BY <1>1, GrownFacts
<1>2. /\ r \in Seq(QIds) /\ Elems(r) = Elems(q) \union {id}
      /\ Marks(r) = Marks(q) + (IF id = MarkId THEN 1 ELSE 0)
      /\ \A k \in 1 .. Len(r) : r[k] = IF k = Len(r) THEN id ELSE q[k]
      /\ \A k \in 1 .. Len(r) : k # Len(r) => k \in 1 .. Len(q)
  BY <1>0 DEF Larger
<1>3. Marks(q) \in Nat /\ Marks(r) = Marks(q)
  BY <1>1, <1>2, MarksFacts, SMT
<1>4. ASSUME NEW j \in 1 .. Len(r), NEW k \in 1 .. Len(r), r[j] = r[k], r[j] # MarkId
      PROVE  j = k
  <2>1. \A l \in 1 .. Len(q) : q[l] # id
    BY DEF Elems
  <2>2. CASE j = Len(r) \/ k = Len(r)
    BY <1>2, <1>4, <2>1, <2>2
  <2>3. CASE j # Len(r) /\ k # Len(r)
    BY <1>2, <1>4, <2>3 DEF IsDFAQueue
  <2> QED
    BY <2>2, <2>3
<1>5. IsDFAQueue(r)
  BY <1>2, <1>4 DEF IsDFAQueue
<1>6. Cardinality(Pushed(r)) =
        Cardinality(Pushed(q)) + (IF prog.inst[id].op \in Pushing THEN 1 ELSE 0)
  <2>1. IsFiniteSet(Pushed(q)) /\ Cardinality(Pushed(q)) \in Nat
    BY PushedFacts
  <2>2. CASE prog.inst[id].op \in Pushing
    <3>1. Pushed(r) = Pushed(q) \union {id} /\ id \notin Pushed(q)
      BY <1>2, <2>2 DEF Pushed, Pushers
    <3> QED
      BY <2>1, <2>2, <3>1, FS_AddElement
  <2>3. CASE prog.inst[id].op \notin Pushing
    <3>1. Pushed(r) = Pushed(q)
      BY <1>2, <2>3 DEF Pushed, Pushers
    <3> QED
      BY <2>1, <2>3, <3>1, SMT
  <2> QED
    BY <2>2, <2>3
<1>7. Laps(r, matchkind) = Laps(q, matchkind)
                + (IF MarksLoop(matchkind) /\ id = prog.start_unanchored THEN 1 ELSE 0)
  <2>1. prog.start_unanchored \in Elems(r) <=>
            prog.start_unanchored \in Elems(q) \/ id = prog.start_unanchored
    BY <1>2
  <2> QED
    BY <2>1, SMT DEF Laps
<1> QED
  BY <1>3, <1>5, <1>6, <1>7

\* A mark counts for none of them.
LEMMA QueueMarked ==
    ASSUME IsFlat(prog), NEW q, IsDFAQueue(q), NEW matchkind, NEW r, Grown(r, q, MarkId)
    PROVE  /\ IsDFAQueue(r) /\ Marks(r) = Marks(q) + 1 /\ Marks(q) \in Nat
           /\ Pushed(r) = Pushed(q) /\ Laps(r, matchkind) = Laps(q, matchkind)
<1>1. q \in Seq(QIds) /\ MarkId \in QIds /\ MarkId \notin Ids /\ MarkId # 0
  BY RoomFacts DEF IsDFAQueue, QIds, MarkId
<1>0. Larger(QIds, r, q, MarkId)
  BY <1>1, GrownFacts
<1>2. /\ r \in Seq(QIds) /\ Elems(r) = Elems(q) \union {MarkId}
      /\ Marks(r) = Marks(q) + 1
      /\ \A k \in 1 .. Len(r) : r[k] = IF k = Len(r) THEN MarkId ELSE q[k]
      /\ \A k \in 1 .. Len(r) : k # Len(r) => k \in 1 .. Len(q)
  BY <1>0 DEF Larger
<1>3. Marks(q) \in Nat
  BY <1>1, MarksFacts
<1>4. ASSUME NEW j \in 1 .. Len(r), NEW k \in 1 .. Len(r), r[j] = r[k], r[j] # MarkId
      PROVE  j = k
  BY <1>2, <1>4 DEF IsDFAQueue
<1>5. IsDFAQueue(r)
  BY <1>1, <1>2, <1>4 DEF IsDFAQueue
<1>6. prog.start_unanchored \in Ids /\ Pushers \in SUBSET Ids
  BY RoomFacts
<1>7. Pushed(r) = Pushed(q) /\ Laps(r, matchkind) = Laps(q, matchkind)
  BY <1>1, <1>2, <1>6 DEF Pushed, Laps
<1> QED
  BY <1>2, <1>3, <1>5, <1>7

-----------------------------------------------------------------------------
(* AddToQueue. *)

\* A work queue, its stack never higher than there is room.
IsWorkq(w, matchkind) ==
    /\ {"q", "nstack"} \subseteq DOMAIN w
    /\ IsDFAQueue(w.q)
    /\ w.nstack \in Nat /\ w.nstack <= DFAStack(matchkind)

\* No more than b marks but for the lap of the .*? loop.
MarksWithin(w, matchkind, b, n) == Marks(w.q) + n <= b + Laps(w.q, matchkind)

\* Between two turns of AddToQueue.
Turning(x, matchkind, b) ==
    /\ IsWorkq(x.w, matchkind)
    /\ x.todo \in Seq(QIds)
    /\ Len(x.todo) <= 1 + (Cardinality(Pushed(x.w.q)) + Laps(x.w.q, matchkind))
    /\ MarksWithin(x.w, matchkind, b, Marks(x.todo))

\* In a turn, with id in hand and the others on the stack.
Facing(w, id, rest, matchkind, b) ==
    /\ b \in Int /\ IsWorkq(w, matchkind)
    /\ id \in QIds /\ rest \in Seq(QIds)
    /\ Len(rest) <= Cardinality(Pushed(w.q)) + Laps(w.q, matchkind)
    /\ MarksWithin(w, matchkind, b, (IF id = MarkId THEN 1 ELSE 0) + Marks(rest))

\* A turn takes what is on top of the stack.
LEMMA FacingTop ==
    ASSUME IsFlat(prog), NEW x, NEW matchkind, NEW b \in Int, Turning(x, matchkind, b),
           x.todo # <<>>
    PROVE  Facing(x.w, Head(x.todo), Tail(x.todo), matchkind, b)
<1> DEFINE todo == x.todo
           id == Head(todo)
           rest == Tail(todo)
           n == Cardinality(Pushed(x.w.q)) + Laps(x.w.q, matchkind)
<1>1. todo \in Seq(QIds) /\ Len(todo) <= 1 + n /\ todo # <<>>
  BY DEF Turning
<1>2. n \in Nat
  BY PushedFacts, SMT
<1> HIDE DEF todo, n
<1>3. id \in QIds /\ rest \in Seq(QIds) /\ todo = <<id>> \o rest
      /\ Len(rest) + 1 = Len(todo) /\ Len(rest) \in Nat
  BY <1>1, SMT
<1> HIDE DEF id, rest
<1>4. Marks(<<id>> \o rest) = (IF id = MarkId THEN 1 ELSE 0) + Marks(rest)
  BY <1>3, MarksTop
<1>5. Len(rest) <= n
  BY <1>1, <1>2, <1>3, SMT
<1>6. MarksWithin(x.w, matchkind, b, (IF id = MarkId THEN 1 ELSE 0) + Marks(rest))
  <2>1. MarksWithin(x.w, matchkind, b, Marks(todo))
    BY DEF Turning, todo
  <2> QED
    BY <1>3, <1>4, <2>1
<1>7. IsWorkq(x.w, matchkind)
  BY DEF Turning
<1> QED
  BY <1>3, <1>5, <1>6, <1>7 DEF Facing, id, rest, todo, n

\* The instruction in hand is not to be added.
LEMMA TurnSkips ==
    ASSUME IsFlat(prog), NEW w, NEW id, NEW rest, NEW matchkind, NEW b,
           Facing(w, id, rest, matchkind, b), id # MarkId,
           NEW x, x = [w |-> w, todo |-> <<>> \o rest]
    PROVE  Turning(x, matchkind, b)
<1>1. rest \in Seq(QIds)
  BY DEF Facing
<1>2. x.w = w /\ x.todo = rest
  BY <1>1, SMT
<1> DEFINE n == Cardinality(Pushed(w.q)) + Laps(w.q, matchkind)
<1>3. Len(rest) <= n
  BY DEF Facing
<1>4. n \in Nat /\ Len(rest) \in Nat /\ Marks(rest) \in Nat
  BY <1>1, PushedFacts, MarksFacts, LenProperties, SMT
<1>5. MarksWithin(w, matchkind, b, (IF id = MarkId THEN 1 ELSE 0) + Marks(rest))
  BY DEF Facing
<1>6. (IF id = MarkId THEN 1 ELSE 0) + Marks(rest) = Marks(rest)
  BY <1>4, SMT
<1> HIDE DEF n
<1>7. Len(rest) <= 1 + n
  BY <1>3, <1>4, SMT
<1>8. IsWorkq(w, matchkind)
  BY DEF Facing
<1> QED
  BY <1>1, <1>2, <1>5, <1>6, <1>7, <1>8 DEF Turning, n

\* A mark in hand goes to the queue.
LEMMA TurnMarks ==
    ASSUME IsFlat(prog), NEW w, NEW rest, NEW matchkind, NEW b,
           Facing(w, MarkId, rest, matchkind, b),
           NEW x, x = [w |-> Marked(w), todo |-> <<>> \o rest]
    PROVE  Turning(x, matchkind, b)
<1> DEFINE v == Marked(w)
           n == Cardinality(Pushed(w.q)) + Laps(w.q, matchkind)
           l == Laps(w.q, matchkind)
<1>1. rest \in Seq(QIds) /\ IsWorkq(w, matchkind) /\ b \in Int /\ Len(rest) <= n
  BY DEF Facing
<1>2. x.w = v /\ x.todo = rest
  BY <1>1, SMT
<1>3. DOMAIN v = DOMAIN w /\ v.q = Append(w.q, MarkId) /\ v.nstack = w.nstack
  BY <1>1 DEF Marked, IsWorkq
<1> HIDE DEF v
<1>4. Grown(v.q, w.q, MarkId)
  BY <1>3 DEF Grown
<1>5. IsDFAQueue(v.q) /\ Marks(v.q) = Marks(w.q) + 1 /\ Marks(w.q) \in Nat
      /\ Pushed(v.q) = Pushed(w.q) /\ Laps(v.q, matchkind) = l
  BY <1>1, <1>4, QueueMarked DEF IsWorkq
<1>6. IsWorkq(v, matchkind)
  BY <1>1, <1>3, <1>5 DEF IsWorkq
<1>7. n \in Nat /\ l \in Nat /\ Len(rest) \in Nat /\ Marks(rest) \in Nat
  BY <1>1, PushedFacts, MarksFacts, LenProperties, SMT
<1>8. Marks(w.q) + (1 + Marks(rest)) <= b + l
  BY DEF Facing, MarksWithin
<1>9. Cardinality(Pushed(v.q)) + Laps(v.q, matchkind) = n
  BY <1>5
<1> HIDE DEF n, l
<1>10. Marks(v.q) + Marks(rest) <= b + l
  BY <1>1, <1>5, <1>7, <1>8, SMT
<1>11. Len(rest) <= 1 + n
  BY <1>1, <1>7, SMT
<1>12. MarksWithin(v, matchkind, b, Marks(rest))
  BY <1>5, <1>10 DEF MarksWithin
<1> QED
  BY <1>1, <1>2, <1>6, <1>9, <1>11, <1>12 DEF Turning

\* Is it the .*? loop, in a search for the longest match?
Lap(id, matchkind) == MarksLoop(matchkind) /\ id = prog.start_unanchored

\* The instruction in hand goes to the queue, and J comes in its place.
Entered2(x, w, id, J, rest, matchkind) ==
    /\ DOMAIN x.w = DOMAIN w /\ Grown(x.w.q, w.q, id) /\ x.todo = J \o rest
    /\ x.w.nstack \in Nat /\ x.w.nstack <= DFAStack(matchkind)

\* An instruction enters the queue, and pays for what it leaves on the stack.
LEMMA TurnEnters ==
    ASSUME IsFlat(prog), NEW w, NEW id \in Ids, NEW rest, NEW matchkind, NEW b,
           Facing(w, id, rest, matchkind, b), id # 0, id \notin Elems(w.q),
           NEW J \in Seq(QIds), NEW a \in Nat, NEW c \in {0, 1},
           Len(J) <= 1 + a + c, Marks(J) <= c,
           a = IF prog.inst[id].op \in Pushing THEN 1 ELSE 0,
           c = IF Lap(id, matchkind) THEN 1 ELSE 0,
           NEW x, Entered2(x, w, id, J, rest, matchkind)
    PROVE  Turning(x, matchkind, b)
<1> DEFINE v == x.w
           P == Cardinality(Pushed(w.q))
           l == Laps(w.q, matchkind)
<1>1. rest \in Seq(QIds) /\ IsWorkq(w, matchkind) /\ b \in Int /\ Len(rest) <= P + l
  BY DEF Facing
<1>2. id # MarkId
  BY RoomFacts
<1>3. DOMAIN v = DOMAIN w /\ Grown(v.q, w.q, id) /\ x.todo = J \o rest
      /\ v.nstack \in Nat /\ v.nstack <= DFAStack(matchkind)
  BY DEF Entered2
<1> HIDE DEF v
<1>5. /\ IsDFAQueue(v.q) /\ Marks(v.q) = Marks(w.q) /\ Marks(w.q) \in Nat
      /\ Cardinality(Pushed(v.q)) = P + (IF prog.inst[id].op \in Pushing THEN 1 ELSE 0)
      /\ Laps(v.q, matchkind) = l + (IF MarksLoop(matchkind) /\ id = prog.start_unanchored THEN 1 ELSE 0)
  BY <1>1, <1>3, QueueGrows DEF IsWorkq
<1>6. Cardinality(Pushed(v.q)) = P + a /\ Laps(v.q, matchkind) = l + c
  BY <1>5 DEF Lap
<1>7. IsWorkq(v, matchkind)
  BY <1>1, <1>3, <1>5 DEF IsWorkq
<1>8. P \in Nat /\ l \in Nat /\ Len(rest) \in Nat /\ Marks(rest) \in Nat /\ Marks(J) \in Nat
      /\ Len(J) \in Nat
  BY <1>1, PushedFacts, MarksFacts, LenProperties, SMT
<1>9. Marks(w.q) + Marks(rest) <= b + l
  <2>1. Marks(w.q) + ((IF id = MarkId THEN 1 ELSE 0) + Marks(rest)) <= b + l
    BY DEF Facing, MarksWithin
  <2> HIDE DEF l
  <2> QED
    BY <1>2, <1>8, <2>1, SMT
<1>10. J \o rest \in Seq(QIds) /\ Len(J \o rest) = Len(J) + Len(rest)
       /\ Marks(J \o rest) = Marks(J) + Marks(rest)
  <2>1. J \o rest \in Seq(QIds) /\ Len(J \o rest) = Len(J) + Len(rest)
    BY <1>1, ConcatProperties
  <2>2. Marks(J \o rest) = Marks(J) + Marks(rest)
    BY <1>1, MarksCat
  <2> QED
    BY <2>1, <2>2
<1> HIDE DEF P, l
<1>11. Len(J) + Len(rest) <= 1 + ((P + a) + (l + c))
  BY <1>1, <1>8, SMT
<1>12. Marks(w.q) + (Marks(J) + Marks(rest)) <= b + (l + c)
  BY <1>1, <1>5, <1>8, <1>9, SMT
<1>13. MarksWithin(v, matchkind, b, Marks(x.todo))
  BY <1>3, <1>5, <1>6, <1>10, <1>12 DEF MarksWithin
<1>14. Len(x.todo) <= 1 + (Cardinality(Pushed(v.q)) + Laps(v.q, matchkind))
  BY <1>3, <1>6, <1>10, <1>11
<1> QED
  BY <1>3, <1>7, <1>10, <1>13, <1>14 DEF Turning, v

\* Instructions are no marks.
LEMMA PlainIds ==
    ASSUME IsFlat(prog), NEW ids \in Seq(Ids)
    PROVE  ids \in Seq(QIds) /\ Marks(ids) = 0 /\ Len(ids) \in Nat
<1>1. /\ Len(ids) \in Nat /\ DOMAIN ids = 1 .. Len(ids) /\ ids \in [1 .. Len(ids) -> Ids]
      /\ \A k \in 1 .. Len(ids) : ids[k] \in Ids
  BY LenProperties, SMT
<1>2. ids \in Seq(QIds)
  <2> DEFINE n == Len(ids)
  <2>1. n \in Nat /\ ids \in [1 .. n -> QIds]
    BY <1>1 DEF QIds
  <2> HIDE DEF n
  <2> QED
    BY <2>1, SMT
<1>3. \A k \in 1 .. Len(ids) : ids[k] # MarkId
  BY <1>1, RoomFacts
<1> QED
  BY <1>1, <1>2, <1>3, MarksFacts

\* Concatenation of what a stack has.
LEMMA IdsCat ==
    \A a, b, c \in Seq(QIds) :
        /\ a \o b \in Seq(QIds) /\ Len(a \o b) = Len(a) + Len(b)
        /\ Len(a) \in Nat /\ Len(b) \in Nat /\ (a \o b) \o c = a \o (b \o c)
BY CatFacts

\* The instruction in hand goes to the queue, and leaves the instructions ids.
LEMMA TurnGoes ==
    ASSUME IsFlat(prog), NEW w, NEW id \in Ids, NEW rest, NEW matchkind, NEW b,
           Facing(w, id, rest, matchkind, b), id # 0, id \notin Elems(w.q),
           NEW ids \in Seq(Ids), Len(ids) <= 1,
           NEW x, x = [w |-> [w EXCEPT !.q = Append(@, id)], todo |-> ids \o rest]
    PROVE  Turning(x, matchkind, b)
<1> DEFINE a == IF prog.inst[id].op \in Pushing THEN 1 ELSE 0
           c == IF Lap(id, matchkind) THEN 1 ELSE 0
           v == [w EXCEPT !.q = Append(@, id)]
<1>1. ids \in Seq(QIds) /\ Marks(ids) = 0 /\ Len(ids) \in Nat
  BY PlainIds
<1>2. a \in Nat /\ c \in {0, 1} /\ (IF prog.inst[id].op \in Pushing THEN 1 ELSE 0) = a
      /\ (IF Lap(id, matchkind) THEN 1 ELSE 0) = c
  OBVIOUS
<1>3. {"q", "nstack"} \subseteq DOMAIN w /\ w.nstack \in Nat /\ w.nstack <= DFAStack(matchkind)
  BY DEF Facing, IsWorkq
<1>4. DOMAIN v = DOMAIN w /\ Grown(v.q, w.q, id) /\ v.nstack = w.nstack
  BY <1>3 DEF Grown
<1>5. x.w = v /\ x.todo = ids \o rest
  OBVIOUS
<1> HIDE DEF a, c, v
<1>6. Entered2(x, w, id, ids, rest, matchkind)
  BY <1>3, <1>4, <1>5 DEF Entered2
<1>7. Len(ids) <= 1 + a + c /\ Marks(ids) <= c
  BY <1>1, <1>2, SMT
<1> QED
  BY <1>1, <1>2, <1>6, <1>7, TurnEnters

\* The instruction in hand pushes ids, and leaves the instructions out.
LEMMA TurnPushes ==
    ASSUME IsFlat(prog), NEW w, NEW id \in Ids, NEW rest, NEW matchkind, NEW b,
           Facing(w, id, rest, matchkind, b), id # 0, id \notin Elems(w.q),
           prog.inst[id].op \in Pushing,
           NEW ids \in Seq(QIds), NEW c, c = (IF Lap(id, matchkind) THEN 1 ELSE 0),
           Len(ids) <= 1 + c, Marks(ids) <= c,
           NEW out \in Seq(Ids), Len(out) <= 1,
           NEW top, top = Top(w.nstack, ids \o rest),
           NEW x, x = [w |-> [[w EXCEPT !.q = Append(@, id)] EXCEPT !.nstack = top],
                       todo |-> out \o (ids \o rest)]
    PROVE  Turning(x, matchkind, b)
<1> DEFINE a == IF prog.inst[id].op \in Pushing THEN 1 ELSE 0
           v == [[w EXCEPT !.q = Append(@, id)] EXCEPT !.nstack = top]
           st == ids \o rest
           P == Cardinality(Pushed(w.q))
           l == Laps(w.q, matchkind)
<1>1. out \in Seq(QIds) /\ Marks(out) = 0 /\ Len(out) \in Nat
  BY PlainIds
<1>2. a = 1 /\ a \in Nat /\ c \in {0, 1} /\ c \in Nat
      /\ (IF prog.inst[id].op \in Pushing THEN 1 ELSE 0) = a
  OBVIOUS
<1>3. {"q", "nstack"} \subseteq DOMAIN w /\ w.nstack \in Nat /\ w.nstack <= DFAStack(matchkind)
      /\ rest \in Seq(QIds) /\ IsDFAQueue(w.q) /\ Len(rest) <= P + l
  BY DEF Facing, IsWorkq
<1>4. DOMAIN v = DOMAIN w /\ Grown(v.q, w.q, id) /\ v.nstack = top
  BY <1>3 DEF Grown
<1>5. x.w = v /\ x.todo = out \o st
  OBVIOUS
<1>6. Len(ids) \in Nat /\ Marks(ids) \in Nat /\ Len(rest) \in Nat
  BY <1>3, LenProperties, MarksFacts
<1>7. st \in Seq(QIds) /\ Len(st) = Len(ids) + Len(rest) /\ Len(st) \in Nat
      /\ out \o st = (out \o ids) \o rest
      /\ out \o ids \in Seq(QIds) /\ Len(out \o ids) = Len(out) + Len(ids)
  <2>1. /\ ids \o rest \in Seq(QIds) /\ Len(ids \o rest) = Len(ids) + Len(rest)
        /\ out \o (ids \o rest) = (out \o ids) \o rest
        /\ out \o ids \in Seq(QIds) /\ Len(out \o ids) = Len(out) + Len(ids)
    BY <1>1, <1>3, IdsCat
  <2>2. Len(ids) + Len(rest) \in Nat
    BY <1>6, SMT
  <2> QED
    BY <2>1, <2>2
<1>8. Marks(out \o ids) = Marks(out) + Marks(ids)
  BY <1>1, MarksCat
<1>9. top \in Nat /\ top <= DFAStack(matchkind)
  <2>1. PICK r : Grown(r, w.q, id)
    BY DEF Grown
  <2>2. /\ Cardinality(Pushed(r)) = P + (IF prog.inst[id].op \in Pushing THEN 1 ELSE 0)
        /\ Laps(r, matchkind) = l + (IF MarksLoop(matchkind) /\ id = prog.start_unanchored THEN 1 ELSE 0)
    BY <1>3, <2>1, QueueGrows
  <2>3. Cardinality(Pushed(r)) = P + a /\ Laps(r, matchkind) = l + c
    BY <2>2 DEF Lap
  <2>4. /\ Cardinality(Pushed(r)) <= InstCount(Pushing) /\ Laps(r, matchkind) <= NMark(matchkind)
        /\ P \in Nat /\ l \in {0, 1}
    BY PushedFacts
  <2>5. DFAStack(matchkind) = InstCount(Pushing) + NMark(matchkind) + 1
        /\ InstCount(Pushing) \in Nat /\ NMark(matchkind) \in Nat
    BY RoomFacts
  <2> HIDE DEF P, l, st
  <2>6. Len(st) <= DFAStack(matchkind)
    BY <1>2, <1>3, <1>6, <1>7, <2>3, <2>4, <2>5, SMT
  <2>7. top = IF w.nstack < Len(st) THEN Len(st) ELSE w.nstack
    BY DEF Top, st
  <2> QED
    BY <1>3, <1>7, <2>6, <2>7
<1> HIDE DEF a, v, st, P, l
<1>10. Entered2(x, w, id, out \o ids, rest, matchkind)
  BY <1>4, <1>5, <1>7, <1>9 DEF Entered2
<1>11. Len(out \o ids) <= 1 + a + c /\ Marks(out \o ids) <= c
  BY <1>1, <1>2, <1>6, <1>7, <1>8, SMT
<1> QED
  BY <1>2, <1>7, <1>10, <1>11, TurnEnters

\* Is id in the queue?
LEMMA ElemsFacts ==
    ASSUME NEW S, NEW q \in Seq(S), NEW id
    PROVE  Contains(q, id) <=> id \in Elems(q)
BY DEF Contains, Elems

\* A turn of AddToQueue (dfa.cc 842-905) keeps the stack and the marks within their bounds.
LEMMA EnqueueTurns ==
    ASSUME IsFlat(prog), NEW x, NEW matchkind, NEW b \in Int, Turning(x, matchkind, b),
           x.todo # <<>>, NEW flag
    PROVE  Turning(Enqueue(x, flag, matchkind), matchkind, b)
<1> DEFINE w == x.w
           id == Head(x.todo)
           rest == Tail(x.todo)
           i == prog.inst[id]
           added == [w EXCEPT !.q = Append(@, id)]
           marks == IF /\ i.op = "Nop" /\ NMark(matchkind) > 0
                       /\ id = prog.start_unanchored /\ id # prog.start
                    THEN <<MarkId>> ELSE <<>>
           c == IF Lap(id, matchkind) THEN 1 ELSE 0
           y == Enqueue(x, flag, matchkind)
           Went(v, ids) == [w |-> v, todo |-> ids \o rest]
           Onto(ids, out) == [w |-> [added EXCEPT !.nstack = Top(w.nstack, ids \o rest)],
                              todo |-> out \o (ids \o rest)]
<1>1. Facing(w, id, rest, matchkind, b)
  BY FacingTop
<1>2. id \in QIds /\ w.q \in Seq(QIds) /\ {"q", "nstack"} \subseteq DOMAIN w
  BY <1>1 DEF Facing, IsWorkq, IsDFAQueue
<1>3. ASSUME id = MarkId PROVE Turning(y, matchkind, b)
  <2>1. y = Went(Marked(w), <<>>)
    BY <1>3, Zenon DEF Enqueue
  <2>2. Facing(w, MarkId, rest, matchkind, b)
    BY <1>1, <1>3
  <2> HIDE DEF w, id, rest, y
  <2> QED
    BY <2>1, <2>2, TurnMarks
<1>4. ASSUME id # MarkId, id = 0 \/ Contains(w.q, id) PROVE Turning(y, matchkind, b)
  <2>1. y = Went(w, <<>>)
    BY <1>4, Zenon DEF Enqueue
  <2> HIDE DEF w, id, rest, y
  <2> QED
    BY <1>1, <1>4, <2>1, TurnSkips
<1>5. ASSUME id # MarkId, ~(id = 0 \/ Contains(w.q, id)) PROVE Turning(y, matchkind, b)
  <2>1. added.nstack = w.nstack
    BY <1>2
  <2>2. y = CASE i.op \in {"ByteRange", "Match"} -> Went(added, IdsAfter(id))
              [] i.op \in {"Capture", "Nop"} ->
                    [w |-> [added EXCEPT !.nstack = Top(added.nstack, (marks \o IdsAfter(id)) \o rest)],
                     todo |-> <<i.out>> \o ((marks \o IdsAfter(id)) \o rest)]
              [] i.op = "AltMatch" -> Went(added, <<id + 1>>)
              [] i.op = "EmptyWidth" ->
                    [w |-> [added EXCEPT !.nstack = Top(added.nstack, IdsAfter(id) \o rest)],
                     todo |-> (IF i.arg \in flag THEN <<i.out>> ELSE <<>>) \o (IdsAfter(id) \o rest)]
              [] i.op = "Fail" -> Went(added, <<>>)
    BY <1>5, Zenon DEF Enqueue, Top
  <2>3. id \in Ids /\ id # 0 /\ id \notin Elems(w.q)
    BY <1>2, <1>5, ElemsFacts DEF QIds
  <2>4. /\ i.op \in {"Fail", "AltMatch", "Nop", "Capture", "ByteRange", "Match", "EmptyWidth"}
        /\ <<i.out>> \in Seq(Ids) /\ IdsAfter(id) \in Seq(Ids) /\ Len(IdsAfter(id)) <= 1
        /\ (i.op = "AltMatch" => <<id + 1>> \in Seq(Ids))
    BY <2>3, InstFacts
  <2>5. Len(<<i.out>>) <= 1 /\ Len(<<id + 1>>) <= 1 /\ Len(<<>>) <= 1 /\ <<>> \in Seq(Ids)
    BY SMT
  <2>6. /\ marks \o IdsAfter(id) \in Seq(QIds) /\ Len(marks \o IdsAfter(id)) <= 1 + c
        /\ Marks(marks \o IdsAfter(id)) <= c /\ c \in {0, 1} /\ c = (IF Lap(id, matchkind) THEN 1 ELSE 0)
    <3>1. marks \in Seq(QIds) /\ Len(marks) <= c /\ Marks(marks) <= c
          /\ Len(marks) \in Nat /\ Marks(marks) \in Nat
      <4>1. CASE marks = <<MarkId>>
        <5>1. Lap(id, matchkind)
          <6>1. <<MarkId>> # <<>>
            BY SMT
          <6>2. i.op = "Nop" /\ NMark(matchkind) > 0
                /\ id = prog.start_unanchored /\ id # prog.start
            BY <4>1, <6>1, Zenon
          <6> QED
            BY <6>2, Zenon DEF Lap, MarksLoop
        <5>2. <<MarkId>> \in Seq(QIds) /\ Len(<<MarkId>>) = 1
          BY SMT DEF QIds
        <5>3. Marks(<<MarkId>>) = IF MarkId = MarkId THEN 1 ELSE 0
          BY MarksOne
        <5> HIDE DEF marks
        <5> QED
          BY <4>1, <5>1, <5>2, <5>3
      <4>2. CASE marks = <<>>
        <5>1. <<>> \in Seq(Ids) /\ Len(<<>>) = 0
          BY SMT
        <5>2. <<>> \in Seq(QIds) /\ Marks(<<>>) = 0
          BY <5>1, PlainIds
        <5> HIDE DEF marks
        <5> QED
          BY <4>2, <5>1, <5>2
      <4> QED
        BY <4>1, <4>2
    <3> HIDE DEF marks, id
    <3>2. IdsAfter(id) \in Seq(QIds) /\ Marks(IdsAfter(id)) = 0 /\ Len(IdsAfter(id)) \in Nat
      BY <2>4, PlainIds
    <3>3. Marks(marks \o IdsAfter(id)) = Marks(marks) + Marks(IdsAfter(id))
      BY <3>1, <3>2, MarksCat
    <3>4. marks \o IdsAfter(id) \in Seq(QIds)
          /\ Len(marks \o IdsAfter(id)) = Len(marks) + Len(IdsAfter(id))
      BY <3>1, <3>2, ConcatProperties
    <3>5. c \in {0, 1} /\ c = (IF Lap(id, matchkind) THEN 1 ELSE 0)
      OBVIOUS
    <3> HIDE DEF c
    <3> QED
      BY <2>4, <3>1, <3>2, <3>3, <3>4, <3>5, SMT
  <2>7. IdsAfter(id) \in Seq(QIds) /\ Len(IdsAfter(id)) <= 1 + c /\ Marks(IdsAfter(id)) <= c
    <3> HIDE DEF id, c
    <3>1. IdsAfter(id) \in Seq(QIds) /\ Marks(IdsAfter(id)) = 0 /\ Len(IdsAfter(id)) \in Nat
      BY <2>4, PlainIds
    <3> QED
      BY <2>4, <2>6, <3>1, SMT
  <2> DEFINE op == i.op
  <2>8. op = prog.inst[id].op
    OBVIOUS
  <2> HIDE DEF w, id, rest, i, added, marks, c, y, op
  <2>9. CASE i.op \in {"ByteRange", "Match"}
    <3>1. y = Went(added, IdsAfter(id))
      BY <2>2, <2>9
    <3> QED
      BY <1>1, <2>3, <2>4, <3>1, TurnGoes DEF added
  <2>10. CASE i.op \in {"Capture", "Nop"}
    <3> DEFINE ids == marks \o IdsAfter(id)
               out == <<i.out>>
               top == Top(w.nstack, ids \o rest)
    <3>1. y = [w |-> [added EXCEPT !.nstack = top], todo |-> out \o (ids \o rest)]
      BY <2>1, <2>2, <2>10
    <3>2. prog.inst[id].op \in Pushing
      BY <2>8, <2>10 DEF Pushing, op
    <3>3. out \in Seq(Ids) /\ Len(out) <= 1 /\ ids \in Seq(QIds) /\ Len(ids) <= 1 + c /\ Marks(ids) <= c
          /\ top = Top(w.nstack, ids \o rest)
      BY <2>4, <2>5, <2>6
    <3> HIDE DEF ids, out, top
    <3> QED
      BY <1>1, <2>3, <2>6, <3>1, <3>2, <3>3, TurnPushes DEF added
  <2>11. CASE i.op = "AltMatch"
    <3>1. y = Went(added, <<id + 1>>) /\ <<id + 1>> \in Seq(Ids)
      BY <2>2, <2>4, <2>11
    <3> DEFINE ids == <<id + 1>>
    <3>2. ids \in Seq(Ids) /\ Len(ids) <= 1 /\ y = Went(added, ids)
      BY <2>5, <3>1
    <3> HIDE DEF ids
    <3> QED
      BY <1>1, <2>3, <3>2, TurnGoes DEF added
  <2>12. CASE i.op = "EmptyWidth"
    <3> DEFINE ids == IdsAfter(id)
               out == IF i.arg \in flag THEN <<i.out>> ELSE <<>>
               top == Top(w.nstack, ids \o rest)
    <3>1. y = [w |-> [added EXCEPT !.nstack = top], todo |-> out \o (ids \o rest)]
      BY <2>1, <2>2, <2>12
    <3>2. prog.inst[id].op \in Pushing
      BY <2>8, <2>12 DEF Pushing, op
    <3>3. out \in Seq(Ids) /\ Len(out) <= 1 /\ ids \in Seq(QIds) /\ Len(ids) <= 1 + c /\ Marks(ids) <= c
          /\ top = Top(w.nstack, ids \o rest)
      BY <2>4, <2>5, <2>7
    <3> HIDE DEF ids, out, top
    <3> QED
      BY <1>1, <2>3, <2>6, <3>1, <3>2, <3>3, TurnPushes DEF added
  <2>13. CASE i.op = "Fail"
    <3>1. y = Went(added, <<>>)
      BY <2>2, <2>13
    <3> QED
      BY <1>1, <2>3, <2>5, <3>1, TurnGoes DEF added
  <2> QED
    BY <2>4, <2>9, <2>10, <2>11, <2>12, <2>13
<1> QED
  BY <1>3, <1>4, <1>5

\* There are no more turns than MaxIds.
LEMMA MaxIdsFacts ==
    ASSUME IsFlat(prog), NEW q \in Seq(QIds)
    PROVE  MaxIds(q) \in Nat
<1> DEFINE S == ToSet(q) \ {MarkId}
<1>1. S \in SUBSET Ids
  <2>1. DOMAIN q = 1 .. Len(q) /\ \A k \in 1 .. Len(q) : q[k] \in QIds
    BY LenProperties
  <2> QED
    BY <2>1 DEF ToSet, QIds
<1>2. IsFiniteSet(Ids) /\ Cardinality(Ids) = ProgSize /\ ProgSize \in Nat
  BY FlatFacts DEF ProgSize, Ids
<1>3. Cardinality(S) \in Nat /\ Cardinality(S) <= ProgSize
  <2> HIDE DEF S
  <2> QED
    BY <1>1, <1>2, FS_Subset, FS_CardinalityType
<1>4. MaxIds(q) = 3 * (ProgSize - Cardinality(S)) + 1
  BY DEF MaxIds
<1> HIDE DEF S
<1> QED
  BY <1>2, <1>3, <1>4, SMT

\* AddToQueue takes MaxIds turns.
LEMMA AddToQueueTurns ==
    ASSUME NEW w, MaxIds(w.q) \in Nat, NEW id, NEW flag, NEW matchkind, NEW how,
           how = [loop |-> "AddToQueue", flag |-> flag, matchkind |-> matchkind],
           NEW x, x = [w |-> w, todo |-> <<id>>]
    PROVE  \E g : Turns(g, how, x, MaxIds(w.q))
                  /\ AddToQueue(w, id, flag, matchkind) = g[MaxIds(w.q)].w
<1> DEFINE N == MaxIds(w.q)
           Is(g) == g = [n \in 0 .. MaxIds(w.q) |->
                            IF n = 0 THEN [w |-> w, todo |-> <<id>>]
                            ELSE LET y == g[n - 1] IN
                                 IF y.todo = <<>> THEN y ELSE Enqueue(y, flag, matchkind)]
           a == CHOOSE g : Is(g)
<1>1. \A y, n : OneMore(how, y, n) = IF y.todo = <<>> THEN y ELSE Enqueue(y, flag, matchkind)
  BY DEF OneMore
<1>2. \A g : Is(g) <=> Turns(g, how, x, N)
  BY <1>1, Zenon DEF Turns
<1>3. \E g : Is(g)
  <2> HIDE DEF Is
  <2> QED
    BY <1>2, TurnsExist
<1>4. Is(a)
  BY <1>3, Zenon
<1>5. AddToQueue(w, id, flag, matchkind) = a[MaxIds(w.q)].w
  BY DEF AddToQueue
<1> HIDE DEF a, Is
<1> QED
  BY <1>2, <1>4, <1>5

\* What comes of a work queue: its marks are those it had, n more, and the lap's.
Becomes(r, w, matchkind, n) ==
    /\ IsWorkq(r, matchkind)
    /\ \A b \in Int : MarksWithin(w, matchkind, b, n) => MarksWithin(r, matchkind, b, 0)

One2(id) == IF id = MarkId THEN 1 ELSE 0

\* AddToQueue keeps the stack within its bound and adds a mark for the one it is given, if
\* it is one, and for the .*? loop.
LEMMA AddToQueueFacts ==
    ASSUME IsFlat(prog), NEW matchkind, NEW w, IsWorkq(w, matchkind), NEW id \in QIds, NEW flag
    PROVE  Becomes(AddToQueue(w, id, flag, matchkind), w, matchkind, One2(id))
<1> DEFINE x == [w |-> w, todo |-> <<id>>]
           how == [loop |-> "AddToQueue", flag |-> flag, matchkind |-> matchkind]
           N == MaxIds(w.q)
           r == AddToQueue(w, id, flag, matchkind)
<1>1. N \in Nat
  BY MaxIdsFacts DEF IsWorkq, IsDFAQueue
<1>2. PICK g : Turns(g, how, x, N) /\ r = g[N].w
  BY <1>1, AddToQueueTurns
<1>3. \A y, k : OneMore(how, y, k) = IF y.todo = <<>> THEN y ELSE Enqueue(y, flag, matchkind)
  BY DEF OneMore
<1>4. ASSUME NEW b \in Int, MarksWithin(w, matchkind, b, One2(id))
      PROVE  Turning(x, matchkind, b)
  <2>1. <<id>> \in Seq(QIds) /\ Len(<<id>>) = 1
    BY SMT
  <2>2. Marks(<<id>>) = One2(id)
    BY MarksOne DEF One2
  <2>3. x.w = w /\ x.todo = <<id>>
    OBVIOUS
  <2> DEFINE n == Cardinality(Pushed(w.q)) + Laps(w.q, matchkind)
  <2>4. n \in Nat
    BY PushedFacts, SMT
  <2> HIDE DEF x, n
  <2>5. 1 <= 1 + n
    BY <2>4, SMT
  <2> QED
    BY <1>4, <2>1, <2>2, <2>3, <2>5 DEF Turning, n
<1> HIDE DEF x, how, r, N
<1>5. /\ 0 \in 0 .. N /\ N \in 0 .. N /\ g[0] = x
      /\ \A k \in 1 .. N : g[k] = OneMore(how, g[k - 1], k) /\ k \in 0 .. N
  BY <1>1, <1>2, TurnsFacts
<1>6. ASSUME NEW b \in Int, MarksWithin(w, matchkind, b, One2(id))
      PROVE  Turning(g[N], matchkind, b)
  <2> DEFINE P == {k \in 0 .. N : Turning(g[k], matchkind, b)}
  <2>1. 0 \in P
    BY <1>4, <1>5, <1>6
  <2>2. ASSUME NEW k \in 1 .. N, k - 1 \in P PROVE k \in P
    <3> DEFINE y == g[k - 1]
    <3>1. Turning(y, matchkind, b) /\ g[k] = OneMore(how, y, k)
      BY <1>5, <2>2
    <3> HIDE DEF y
    <3>2. y.todo # <<>> => Turning(Enqueue(y, flag, matchkind), matchkind, b)
      BY <3>1, EnqueueTurns
    <3>3. Turning(g[k], matchkind, b)
      BY <1>3, <3>1, <3>2
    <3> QED
      BY <1>5, <3>3
  <2> HIDE DEF P
  <2>3. \A k \in 0 .. N : k \in P
    BY <1>1, <2>1, <2>2, Upward
  <2> QED
    BY <1>5, <2>3 DEF P
<1>7. ASSUME NEW b \in Int, MarksWithin(w, matchkind, b, One2(id))
      PROVE  IsWorkq(r, matchkind) /\ MarksWithin(r, matchkind, b, 0)
  <2> DEFINE y == g[N]
  <2>1. /\ IsWorkq(r, matchkind) /\ y.todo \in Seq(QIds) /\ r = y.w
        /\ MarksWithin(r, matchkind, b, Marks(y.todo))
    BY <1>2, <1>6, <1>7 DEF Turning
  <2> HIDE DEF y
  <2>2. Marks(y.todo) \in Nat /\ Marks(r.q) \in Nat /\ Laps(r.q, matchkind) \in {0, 1}
    BY <2>1, MarksFacts, PushedFacts DEF IsWorkq, IsDFAQueue
  <2>3. Marks(r.q) + Marks(y.todo) <= b + Laps(r.q, matchkind)
    BY <2>1 DEF MarksWithin
  <2>4. Marks(r.q) + 0 <= b + Laps(r.q, matchkind)
    BY <2>2, <2>3, SMT
  <2> QED
    BY <2>1, <2>4 DEF MarksWithin
<1>8. \E b \in Int : MarksWithin(w, matchkind, b, One2(id))
  <2> DEFINE b == Marks(w.q) + One2(id)
             l == Laps(w.q, matchkind)
  <2>1. Marks(w.q) \in Nat /\ l \in {0, 1} /\ One2(id) \in {0, 1}
    BY MarksFacts, PushedFacts DEF IsWorkq, IsDFAQueue, One2
  <2>2. b \in Int
    BY <2>1, SMT
  <2> HIDE DEF b, l
  <2>3. b <= b + l
    BY <2>1, <2>2, SMT
  <2> QED
    BY <2>2, <2>3 DEF MarksWithin, b, l
<1> QED
  BY <1>7, <1>8 DEF Becomes, r

-----------------------------------------------------------------------------
(* The queues of a step. *)

\* The marks among the first k elements.
MarksUpto(q, k) == Cardinality({j \in 1 .. k : q[j] = MarkId})

\* The marks up to each element.
LEMMA MarksUptoFacts ==
    ASSUME NEW S, NEW q \in Seq(S)
    PROVE  /\ Len(q) \in Nat /\ MarksUpto(q, 0) = 0 /\ MarksUpto(q, Len(q)) = Marks(q)
           /\ \A k \in 1 .. Len(q) : /\ MarksUpto(q, k - 1) \in Nat
                                     /\ MarksUpto(q, k) = MarksUpto(q, k - 1) + One2(q[k])
                                     /\ q[k] \in S
<1>1. Len(q) \in Nat /\ DOMAIN q = 1 .. Len(q) /\ \A k \in 1 .. Len(q) : q[k] \in S
  BY LenProperties
<1>2. MarksUpto(q, 0) = 0
  <2>1. 1 .. 0 = {}
    BY SMT
  <2> QED
    BY <2>1, FS_EmptySet DEF MarksUpto
<1>3. MarksUpto(q, Len(q)) = Marks(q)
  BY <1>1 DEF MarksUpto, Marks
<1>4. ASSUME NEW k \in 1 .. Len(q)
      PROVE  /\ MarksUpto(q, k - 1) \in Nat
             /\ MarksUpto(q, k) = MarksUpto(q, k - 1) + One2(q[k])
  <2> DEFINE A == {j \in 1 .. k - 1 : q[j] = MarkId}
             B == {j \in 1 .. k : q[j] = MarkId}
  <2>1. 1 .. k = (1 .. k - 1) \union {k} /\ k \notin 1 .. k - 1 /\ k - 1 \in Int /\ 1 \in Int
    BY <1>1, SMT
  <2>2. IsFiniteSet(1 .. k - 1)
    BY <2>1, FS_Interval
  <2>3. IsFiniteSet(A) /\ Cardinality(A) \in Nat
    BY <2>2, FS_Subset, FS_CardinalityType
  <2>4. CASE q[k] = MarkId
    <3>1. B = A \union {k} /\ k \notin A
      BY <2>1, <2>4
    <3> HIDE DEF A, B
    <3>2. Cardinality(B) = Cardinality(A) + 1
      BY <2>3, <3>1, FS_AddElement
    <3> QED
      BY <2>3, <2>4, <3>2 DEF MarksUpto, One2, A, B
  <2>5. CASE q[k] # MarkId
    <3>1. B = A
      BY <2>1, <2>5
    <3> HIDE DEF A, B
    <3>2. Cardinality(B) = Cardinality(A) + 0
      BY <2>3, <3>1, SMT
    <3> QED
      BY <2>3, <2>5, <3>2 DEF MarksUpto, One2, A, B
  <2> QED
    BY <2>4, <2>5
<1> QED
  BY <1>1, <1>2, <1>3, <1>4

\* A work queue comes of itself.
LEMMA BecomesSelf ==
    ASSUME NEW w, NEW matchkind, IsWorkq(w, matchkind)
    PROVE  Becomes(w, w, matchkind, 0)
BY DEF Becomes

\* One comes of another, and a third of that.
LEMMA BecomesThen ==
    ASSUME IsFlat(prog), NEW w, NEW r, NEW z, NEW matchkind, NEW m \in Nat, NEW n \in Nat,
           IsWorkq(w, matchkind),
           Becomes(r, w, matchkind, m), Becomes(z, r, matchkind, n)
    PROVE  Becomes(z, w, matchkind, m + n)
<1>1. IsWorkq(z, matchkind) /\ IsWorkq(r, matchkind)
  BY DEF Becomes
<1>2. ASSUME NEW b \in Int, MarksWithin(w, matchkind, b, m + n)
      PROVE  MarksWithin(z, matchkind, b, 0)
  <2> DEFINE c == b - n
             W == Marks(w.q)
             L == Laps(w.q, matchkind)
             R == Marks(r.q)
             K == Laps(r.q, matchkind)
  <2>1. W \in Nat /\ R \in Nat /\ L \in {0, 1} /\ K \in {0, 1}
    BY <1>1, MarksFacts, PushedFacts DEF IsWorkq, IsDFAQueue
  <2>2. W + (m + n) <= b + L
    BY <1>2 DEF MarksWithin
  <2>3. c \in Int
    OBVIOUS
  <2> HIDE DEF W, L, R, K
  <2>4. W + m <= c + L
    BY <2>1, <2>2, SMT
  <2>5. MarksWithin(w, matchkind, c, m)
    BY <2>4 DEF MarksWithin, W, L
  <2> HIDE DEF c
  <2>6. MarksWithin(r, matchkind, c, 0)
    BY <2>3, <2>5 DEF Becomes
  <2>7. R + 0 <= c + K
    BY <2>6 DEF MarksWithin, R, K
  <2>8. R + n <= b + K
    BY <2>1, <2>7, SMT DEF c
  <2>9. MarksWithin(r, matchkind, b, n)
    BY <2>8 DEF MarksWithin, R, K
  <2> QED
    BY <2>9 DEF Becomes
<1> QED
  BY <1>1, <1>2 DEF Becomes

\* A mark is put into the queue.
LEMMA MarkedBecomes ==
    ASSUME IsFlat(prog), NEW w, NEW matchkind, IsWorkq(w, matchkind)
    PROVE  Becomes(Marked(w), w, matchkind, 1)
<1> DEFINE v == Marked(w)
           l == Laps(w.q, matchkind)
<1>1. DOMAIN v = DOMAIN w /\ v.q = Append(w.q, MarkId) /\ v.nstack = w.nstack
  BY DEF Marked, IsWorkq
<1> HIDE DEF v
<1>2. Grown(v.q, w.q, MarkId)
  BY <1>1 DEF Grown
<1>3. IsDFAQueue(v.q) /\ Marks(v.q) = Marks(w.q) + 1 /\ Marks(w.q) \in Nat
      /\ Laps(v.q, matchkind) = l
  BY <1>2, QueueMarked DEF IsWorkq
<1>4. l \in {0, 1}
  BY PushedFacts
<1> HIDE DEF l
<1>5. ASSUME NEW b \in Int, MarksWithin(w, matchkind, b, 1)
      PROVE  MarksWithin(v, matchkind, b, 0)
  <2>1. Marks(w.q) + 1 <= b + l
    BY <1>5 DEF MarksWithin, l
  <2>2. Marks(v.q) + 0 <= b + l
    BY <1>3, <1>4, <2>1, SMT
  <2> QED
    BY <1>3, <2>2 DEF MarksWithin
<1>6. IsWorkq(v, matchkind)
  BY <1>1, <1>3 DEF IsWorkq
<1> QED
  BY <1>5, <1>6 DEF Becomes, v

\* AddAll adds the elements of ids one by one.
LEMMA AddAllTurns ==
    ASSUME NEW w, NEW S, NEW ids \in Seq(S), NEW flag, NEW matchkind, NEW how,
           how = [loop |-> "AddAll", q |-> ids, flag |-> flag, matchkind |-> matchkind]
    PROVE  \E g : Turns(g, how, w, Len(ids)) /\ AddAll(w, ids, flag, matchkind) = g[Len(ids)]
<1> DEFINE N == Len(ids)
           Is(g) == g = [k \in 0 .. Len(ids) |->
                            IF k = 0 THEN w
                            ELSE AddToQueue(g[k - 1], ids[k], flag, matchkind)]
           a == CHOOSE g : Is(g)
<1>1. \A y, n : OneMore(how, y, n) = AddToQueue(y, ids[n], flag, matchkind)
  BY DEF OneMore
<1>2. \A g : Is(g) <=> Turns(g, how, w, N)
  BY <1>1, Zenon DEF Turns
<1>3. \E g : Is(g)
  <2>1. N \in Nat
    BY LenProperties
  <2> HIDE DEF Is, N
  <2> QED
    BY <1>2, <2>1, TurnsExist
<1>4. Is(a)
  BY <1>3, Zenon
<1>5. AddAll(w, ids, flag, matchkind) = a[Len(ids)]
  BY DEF AddAll
<1> HIDE DEF a, Is
<1> QED
  BY <1>2, <1>4, <1>5

\* The queue that instructions, and marks, lead to has no marks but those and the lap's.
LEMMA AddAllFacts ==
    ASSUME IsFlat(prog), NEW matchkind, NEW w, IsWorkq(w, matchkind),
           NEW ids \in Seq(QIds), NEW flag
    PROVE  Becomes(AddAll(w, ids, flag, matchkind), w, matchkind, Marks(ids))
<1> DEFINE how == [loop |-> "AddAll", q |-> ids, flag |-> flag, matchkind |-> matchkind]
           N == Len(ids)
           r == AddAll(w, ids, flag, matchkind)
<1>1. N \in Nat
  BY LenProperties
<1>2. PICK g : Turns(g, how, w, N) /\ r = g[N]
  BY AddAllTurns
<1>3. \A y, k : OneMore(how, y, k) = AddToQueue(y, ids[k], flag, matchkind)
  BY DEF OneMore
<1> HIDE DEF how, r
<1>5. /\ 0 \in 0 .. N /\ N \in 0 .. N /\ g[0] = w
      /\ \A k \in 1 .. N : g[k] = OneMore(how, g[k - 1], k) /\ k \in 0 .. N
  BY <1>1, <1>2, TurnsFacts
<1>6. /\ MarksUpto(ids, 0) = 0 /\ MarksUpto(ids, N) = Marks(ids)
      /\ \A k \in 1 .. N : /\ MarksUpto(ids, k - 1) \in Nat
                           /\ MarksUpto(ids, k) = MarksUpto(ids, k - 1) + One2(ids[k])
                           /\ ids[k] \in QIds
  BY MarksUptoFacts
<1> HIDE DEF N
<1> DEFINE P == {k \in 0 .. N : Becomes(g[k], w, matchkind, MarksUpto(ids, k))}
<1>7. 0 \in P
  BY <1>5, <1>6, BecomesSelf
<1>8. ASSUME NEW k \in 1 .. N, k - 1 \in P PROVE k \in P
  <2> DEFINE y == g[k - 1]
             m == MarksUpto(ids, k - 1)
  <2>1. Becomes(y, w, matchkind, m) /\ g[k] = AddToQueue(y, ids[k], flag, matchkind)
    BY <1>3, <1>5, <1>8
  <2>2. m \in Nat /\ MarksUpto(ids, k) = m + One2(ids[k]) /\ ids[k] \in QIds
    BY <1>6
  <2> HIDE DEF y, m
  <2>3. Becomes(g[k], y, matchkind, One2(ids[k]))
    BY <2>1, <2>2, AddToQueueFacts DEF Becomes
  <2>4. One2(ids[k]) \in Nat
    BY DEF One2
  <2>5. Becomes(g[k], w, matchkind, MarksUpto(ids, k))
    BY <2>1, <2>2, <2>3, <2>4, BecomesThen
  <2> QED
    BY <1>5, <2>5
<1> HIDE DEF P
<1>9. \A k \in 0 .. N : k \in P
  BY <1>1, <1>7, <1>8, Upward
<1>10. Becomes(g[N], w, matchkind, Marks(ids))
  BY <1>5, <1>6, <1>9 DEF P
<1> QED
  BY <1>2, <1>10 DEF r

\* It may have more marks.
LEMMA BecomesMore ==
    ASSUME IsFlat(prog), NEW w, NEW matchkind, IsWorkq(w, matchkind), NEW r, NEW m \in Nat,
           NEW n \in Nat, Becomes(r, w, matchkind, m), m <= n
    PROVE  Becomes(r, w, matchkind, n)
<1>1. ASSUME NEW b \in Int, MarksWithin(w, matchkind, b, n)
      PROVE  MarksWithin(r, matchkind, b, 0)
  <2> DEFINE W == Marks(w.q)
             L == Laps(w.q, matchkind)
  <2>1. W \in Nat /\ L \in {0, 1}
    BY MarksFacts, PushedFacts DEF IsWorkq, IsDFAQueue
  <2>2. W + n <= b + L
    BY <1>1 DEF MarksWithin
  <2> HIDE DEF W, L
  <2>3. W + m <= b + L
    BY <2>1, <2>2, SMT
  <2>4. MarksWithin(w, matchkind, b, m)
    BY <2>3 DEF MarksWithin, W, L
  <2> QED
    BY <2>4 DEF Becomes
<1> QED
  BY <1>1 DEF Becomes

\* That a match was met has nothing to do with it.
LEMMA BecomesLike ==
    ASSUME NEW w, NEW matchkind, NEW r, NEW m, Becomes(r, w, matchkind, m), NEW value
    PROVE  Becomes([r EXCEPT !.ismatch = value], w, matchkind, m)
<1> DEFINE z == [r EXCEPT !.ismatch = value]
<1>1. DOMAIN z = DOMAIN r /\ z.q = r.q /\ z.nstack = r.nstack
  BY DEF Becomes, IsWorkq
<1> HIDE DEF z
<1>2. IsWorkq(z, matchkind) /\ \A b : MarksWithin(r, matchkind, b, 0) => MarksWithin(z, matchkind, b, 0)
  BY <1>1 DEF Becomes, IsWorkq, MarksWithin
<1> QED
  BY <1>2 DEF Becomes, z

\* Every list has a last instruction.
LEMMA LastExists ==
    ASSUME IsFlat(prog), NEW a \in Ids
    PROVE  \E id \in Ids : /\ id >= a /\ prog.inst[id].last
                           /\ \A d \in a .. id - 1 : ~prog.inst[d].last
<1>1. Ids = 0 .. ProgSize - 1 /\ ProgSize \in Nat /\ Ids \in SUBSET Nat
  BY FlatFacts
<1> DEFINE top == ProgSize - 1
           S == {id \in Ids : id >= a /\ prog.inst[id].last}
<1>2. top \in Ids /\ top + 1 \notin Ids /\ top >= a
  BY <1>1, SMT
<1>3. ~prog.inst[top].last => top + 1 \in Ids
  <2> HIDE DEF top
  <2> QED
    BY <1>2 DEF IsFlat, Ids
<1>4. S # {} /\ S \in SUBSET Nat
  BY <1>1, <1>2, <1>3
<1> HIDE DEF S, top
<1>5. PICK id \in S : \A m \in S : id <= m
  BY <1>4, LeastNat
<1>6. id \in Ids /\ id >= a /\ prog.inst[id].last
  BY <1>5 DEF S
<1>7. ASSUME NEW d \in a .. id - 1 PROVE ~prog.inst[d].last
  <2>1. d \in Ids /\ d >= a /\ ~(id <= d)
    BY <1>1, <1>6, SMT
  <2>2. d \notin S
    BY <1>5, <2>1
  <2> QED
    BY <2>1, <2>2 DEF S
<1> QED
  BY <1>6, <1>7

\* The loop goes on behind the instruction that took the byte.
LEMMA SkipListFacts ==
    ASSUME IsFlat(prog), NEW q, NEW k \in Nat, q[k] \in Ids
    PROVE  SkipList(q, k) \in Nat /\ SkipList(q, k) >= k + 1
<1> DEFINE id == q[k]
           i == prog.inst[id]
           Lasts(l) == /\ l >= id /\ prog.inst[l].last
                       /\ \A d \in id .. l - 1 : ~prog.inst[d].last
           last == CHOOSE l \in Ids : Lasts(l)
<1>1. SkipList(q, k) = IF i.hint # 0 THEN k + i.hint ELSE k + (last - id) + 1
  BY DEF SkipList, Ids
<1>2. i.hint \in Nat /\ id \in Nat /\ Ids \in SUBSET Nat
  BY FlatFacts DEF IsFlat, Ids
<1>3. last \in Ids /\ Lasts(last)
  <2>1. \E l \in Ids : Lasts(l)
    BY LastExists
  <2> HIDE DEF Lasts
  <2> QED
    BY <2>1
<1>4. last \in Nat /\ last >= id
  BY <1>2, <1>3
<1> HIDE DEF id, last, i
<1> QED
  BY <1>1, <1>2, <1>4, SMT

\* Between two turns of RunWorkqOnByte, after the k-th.
Running(x, w, q, k, matchkind) ==
    /\ Becomes(x.w, w, matchkind, MarksUpto(q, k))
    /\ x.k \in Nat /\ x.k >= k + 1

\* A turn of RunWorkqOnByte (dfa.cc 933-1003).
LEMMA RunEntryFacts ==
    ASSUME IsFlat(prog), NEW matchkind, NEW w, IsWorkq(w, matchkind), NEW q, IsDFAQueue(q),
           NEW k \in 1 .. Len(q), NEW x, Running(x, w, q, k - 1, matchkind), NEW c, NEW flag
    PROVE  Running(RunEntry(x, q, k, c, flag, matchkind), w, q, k, matchkind)
<1> DEFINE v == x.w
           id == q[k]
           i == prog.inst[id]
           m == MarksUpto(q, k - 1)
           y == RunEntry(x, q, k, c, flag, matchkind)
           Go(u, n) == [w |-> u, k |-> n]
           ended == [v EXCEPT !.ismatch = TRUE]
<1> SUFFICES Running(y, w, q, k, matchkind)
  OBVIOUS
<1>1. q \in Seq(QIds) /\ id # 0
  BY DEF IsDFAQueue
<1>2. m \in Nat /\ MarksUpto(q, k) = m + One2(id) /\ id \in QIds /\ Len(q) \in Nat /\ k \in Nat
  BY <1>1, MarksUptoFacts
<1>3. Becomes(v, w, matchkind, m) /\ x.k \in Nat /\ x.k >= k
  <2>1. k - 1 + 1 = k
    BY SMT
  <2> QED
    BY <2>1 DEF Running
<1>4. One2(id) \in Nat /\ m + One2(id) \in Nat /\ m <= m + One2(id)
  <2>1. One2(id) \in Nat
    BY DEF One2
  <2> HIDE DEF m
  <2> QED
    BY <1>2, <2>1, SMT
<1>5. ASSUME NEW r, Becomes(r, w, matchkind, m), NEW n \in Nat, n >= k + 1,
             NEW z, z.w = r, z.k = n
      PROVE  Running(z, w, q, k, matchkind)
  <2> HIDE DEF m, id
  <2>1. Becomes(r, w, matchkind, m + One2(id))
    BY <1>2, <1>4, <1>5, BecomesMore
  <2> QED
    BY <1>2, <1>5, <2>1 DEF Running
<1>6. ASSUME NEW r, Becomes(r, v, matchkind, One2(id)), NEW n \in Nat, n >= k + 1,
             NEW z, z.w = r, z.k = n
      PROVE  Running(z, w, q, k, matchkind)
  <2> HIDE DEF m, id, v
  <2>1. Becomes(r, w, matchkind, m + One2(id))
    BY <1>2, <1>3, <1>4, <1>6, BecomesThen
  <2> QED
    BY <1>2, <1>6, <2>1 DEF Running
<1>7. k + 1 \in Nat /\ k + 1 >= k + 1 /\ Len(q) + 1 \in Nat /\ Len(q) + 1 >= k + 1
  BY <1>2, SMT
<1>8. Becomes(ended, w, matchkind, m)
  <2> HIDE DEF v, m
  <2> QED
    BY <1>3, BecomesLike
<1>9. CASE k < x.k
  <2>0. k # x.k
    BY <1>2, <1>3, <1>9, SMT
  <2>1. y = x
    BY <1>9, <2>0, Zenon DEF RunEntry
  <2>2. x.k >= k + 1
    BY <1>2, <1>3, <1>9, SMT
  <2> HIDE DEF m, y
  <2> QED
    BY <1>3, <1>5, <2>1, <2>2
<1>10. CASE ~(k < x.k) /\ id = MarkId
  <2>1. k = x.k
    BY <1>2, <1>3, <1>10, SMT
  <2>2. y = IF v.ismatch THEN Go(v, Len(q) + 1) ELSE Go(Marked(v), k + 1)
    BY <1>10, <2>1, Zenon DEF RunEntry
  <2>3. IsWorkq(v, matchkind)
    BY <1>3 DEF Becomes
  <2> HIDE DEF v
  <2>4. Becomes(Marked(v), v, matchkind, 1) /\ One2(id) = 1
    BY <1>10, <2>3, MarkedBecomes DEF One2
  <2> HIDE DEF m, y, id
  <2>5. CASE y = Go(v, Len(q) + 1)
    <3>1. y.w = v /\ y.k = Len(q) + 1
      BY <2>5
    <3> QED
      BY <1>3, <1>5, <1>7, <3>1
  <2>6. CASE y = Go(Marked(v), k + 1)
    <3>1. y.w = Marked(v) /\ y.k = k + 1
      BY <2>6
    <3> QED
      BY <1>6, <1>7, <2>4, <3>1
  <2> QED
    BY <2>2, <2>5, <2>6
<1>11. CASE ~(k < x.k) /\ id # MarkId
  <2>1. id \in Ids
    BY <1>2, <1>11 DEF QIds
  <2>2. i.op \in {"Fail", "AltMatch", "Nop", "Capture", "ByteRange", "Match", "EmptyWidth"}
        /\ <<i.out>> \in Seq(Ids)
    BY <2>1, InstFacts
  <2>3. i.out \in QIds
    BY <2>1 DEF IsFlat, Ids, QIds
  <2>4. SkipList(q, k) \in Nat /\ SkipList(q, k) >= k + 1
    BY <1>2, <2>1, SkipListFacts
  <2>5. IsWorkq(v, matchkind)
    BY <1>3 DEF Becomes
  <2> DEFINE ran == AddToQueue(v, i.out, flag, matchkind)
  <2>6. y = CASE i.op = "ByteRange" ->
                    IF Matches(i, c) THEN Go(ran, SkipList(q, k)) ELSE Go(v, k + 1)
              [] i.op = "Match" ->
                    IF prog.anchor_end /\ c # kByteEndText /\ matchkind # "many"
                    THEN Go(v, k + 1)
                    ELSE IF matchkind = "first" THEN Go(ended, Len(q) + 1)
                    ELSE Go(ended, k + 1)
              [] OTHER -> Go(v, k + 1)
    BY <1>11, Zenon DEF RunEntry
  <2>7. Becomes(ran, w, matchkind, m)
    <3>1. One2(i.out) = 0
      <4>1. i.out \in Ids /\ MarkId \notin Ids
        BY <2>1, RoomFacts DEF IsFlat, Ids
      <4> QED
        BY <4>1 DEF One2
    <3>2. Becomes(ran, v, matchkind, One2(i.out))
      <4> HIDE DEF v, i
      <4> QED
        BY <2>3, <2>5, AddToQueueFacts
    <3> HIDE DEF ran, m, v
    <3>3. Becomes(ran, w, matchkind, m + 0)
      BY <1>2, <1>3, <3>1, <3>2, BecomesThen
    <3>4. m + 0 = m
      BY <1>2, SMT
    <3> QED
      BY <3>3, <3>4
  <2> HIDE DEF i, ran, ended, v, y, m
  <2>8. \/ y = Go(ran, SkipList(q, k)) \/ y = Go(v, k + 1)
        \/ y = Go(ended, Len(q) + 1) \/ y = Go(ended, k + 1)
    BY <2>2, <2>6
  <2>9. CASE y = Go(ran, SkipList(q, k))
    <3>1. y.w = ran /\ y.k = SkipList(q, k)
      BY <2>9
    <3> QED
      BY <1>5, <2>4, <2>7, <3>1
  <2>10. CASE y = Go(v, k + 1)
    <3>1. y.w = v /\ y.k = k + 1
      BY <2>10
    <3> QED
      BY <1>3, <1>5, <1>7, <3>1
  <2>11. CASE y = Go(ended, Len(q) + 1)
    <3>1. y.w = ended /\ y.k = Len(q) + 1
      BY <2>11
    <3> QED
      BY <1>5, <1>7, <1>8, <3>1
  <2>12. CASE y = Go(ended, k + 1)
    <3>1. y.w = ended /\ y.k = k + 1
      BY <2>12
    <3> QED
      BY <1>5, <1>7, <1>8, <3>1
  <2> QED
    BY <2>8, <2>9, <2>10, <2>11, <2>12
<1> QED
  BY <1>9, <1>10, <1>11

\* RunWorkqOnByte takes a turn for each element of q.
LEMMA RunOnByteTurns ==
    ASSUME NEW w, NEW S, NEW q \in Seq(S), NEW c, NEW flag, NEW matchkind, NEW how,
           how = [loop |-> "RunOnByte", q |-> q, c |-> c, flag |-> flag, matchkind |-> matchkind],
           NEW x, x = [w |-> w, k |-> 1]
    PROVE  \E g : Turns(g, how, x, Len(q)) /\ RunOnByte(w, q, c, flag, matchkind) = g[Len(q)].w
<1> DEFINE N == Len(q)
           Is(g) == g = [k \in 0 .. Len(q) |->
                            IF k = 0 THEN [w |-> w, k |-> 1]
                            ELSE RunEntry(g[k - 1], q, k, c, flag, matchkind)]
           a == CHOOSE g : Is(g)
<1>1. \A y, n : OneMore(how, y, n) = RunEntry(y, q, n, c, flag, matchkind)
  BY DEF OneMore
<1>2. \A g : Is(g) <=> Turns(g, how, x, N)
  BY <1>1, Zenon DEF Turns
<1>3. \E g : Is(g)
  <2>1. N \in Nat
    BY LenProperties
  <2> HIDE DEF Is, N
  <2> QED
    BY <1>2, <2>1, TurnsExist
<1>4. Is(a)
  BY <1>3, Zenon
<1>5. RunOnByte(w, q, c, flag, matchkind) = a[Len(q)].w
  BY DEF RunOnByte
<1> HIDE DEF a, Is
<1> QED
  BY <1>2, <1>4, <1>5

\* The queue after a byte has no more marks than the one before it, and the lap's.
LEMMA RunOnByteFacts ==
    ASSUME IsFlat(prog), NEW matchkind, NEW w, IsWorkq(w, matchkind), NEW q, IsDFAQueue(q),
           NEW c, NEW flag
    PROVE  Becomes(RunOnByte(w, q, c, flag, matchkind), w, matchkind, Marks(q))
<1> DEFINE x == [w |-> w, k |-> 1]
           how == [loop |-> "RunOnByte", q |-> q, c |-> c, flag |-> flag, matchkind |-> matchkind]
           N == Len(q)
           r == RunOnByte(w, q, c, flag, matchkind)
<1>1. q \in Seq(QIds) /\ N \in Nat
  BY LenProperties DEF IsDFAQueue
<1>2. PICK g : Turns(g, how, x, N) /\ r = g[N].w
  BY <1>1, RunOnByteTurns
<1>3. \A y, k : OneMore(how, y, k) = RunEntry(y, q, k, c, flag, matchkind)
  BY DEF OneMore
<1>4. MarksUpto(q, 0) = 0 /\ MarksUpto(q, N) = Marks(q)
  BY <1>1, MarksUptoFacts
<1>5. Running(x, w, q, 0, matchkind)
  BY <1>4, BecomesSelf DEF Running
<1> HIDE DEF x, how, r
<1>6. /\ 0 \in 0 .. N /\ N \in 0 .. N /\ g[0] = x
      /\ \A k \in 1 .. N : g[k] = OneMore(how, g[k - 1], k) /\ k \in 0 .. N
  BY <1>1, <1>2, TurnsFacts
<1> DEFINE P == {k \in 0 .. N : Running(g[k], w, q, k, matchkind)}
<1>7. 0 \in P
  BY <1>5, <1>6
<1>8. ASSUME NEW k \in 1 .. N, k - 1 \in P PROVE k \in P
  <2> DEFINE y == g[k - 1]
  <2>1. Running(y, w, q, k - 1, matchkind) /\ g[k] = RunEntry(y, q, k, c, flag, matchkind)
    BY <1>3, <1>6, <1>8
  <2> HIDE DEF y
  <2>2. Running(g[k], w, q, k, matchkind)
    BY <2>1, RunEntryFacts
  <2> QED
    BY <1>6, <2>2
<1> HIDE DEF P, N
<1>9. \A k \in 0 .. N : k \in P
  BY <1>1, <1>7, <1>8, Upward
<1>10. Becomes(g[N].w, w, matchkind, Marks(q))
  BY <1>4, <1>6, <1>9 DEF P, Running
<1> QED
  BY <1>2, <1>10 DEF r

-----------------------------------------------------------------------------
(* The instructions that a state keeps. *)

\* The instructions that begin a list: those that WorkqToCachedState keeps.
ListHeads == {id \in Ids : id # 0 /\ prog.inst[id - 1].last}

\* They are fewer than the instructions, of which the first only fails; what follows the
\* .*? loop is not one of them, either.
LEMMA HeadsFew ==
    ASSUME IsFlat(prog), NEW matchkind
    PROVE  /\ IsFiniteSet(ListHeads) /\ Cardinality(ListHeads) \in Nat
           /\ Cardinality(ListHeads) + 1 <= ProgSize
           /\ MarksLoop(matchkind) => Cardinality(ListHeads) + 2 <= ProgSize
           /\ MarksLoop(matchkind) => ProgSize >= 3
<1> DEFINE S == Ids \ {0}
<1>1. IsFiniteSet(Ids) /\ Cardinality(Ids) = ProgSize /\ ProgSize \in Nat /\ 0 \in Ids
      /\ Ids = 0 .. ProgSize - 1 /\ Ids \in SUBSET Nat
  BY FlatFacts DEF ProgSize, Ids
<1>2. IsFiniteSet(S) /\ Cardinality(S) = ProgSize - 1
  BY <1>1, FS_RemoveElement
<1>3. ListHeads \in SUBSET S
  BY DEF ListHeads
<1>4. ASSUME NEW T, IsFiniteSet(T), ListHeads \in SUBSET T
      PROVE  /\ IsFiniteSet(ListHeads) /\ Cardinality(ListHeads) \in Nat
             /\ Cardinality(ListHeads) <= Cardinality(T)
  BY <1>4, FS_Subset, FS_CardinalityType
<1> HIDE DEF S
<1>5. IsFiniteSet(ListHeads) /\ Cardinality(ListHeads) \in Nat /\ Cardinality(ListHeads) <= ProgSize - 1
  BY <1>2, <1>3, <1>4
<1>6. ASSUME MarksLoop(matchkind)
      PROVE  Cardinality(ListHeads) <= ProgSize - 2 /\ ProgSize >= 3
  <2> DEFINE a == prog.start_unanchored
             b == a + 1
             T == S \ {b}
  <2>1. a \in Ids /\ prog.inst[a].op = "Nop" /\ a # prog.start /\ prog.inst[0].op = "Fail"
    BY <1>6 DEF MarksLoop, IsFlat, Ids
  <2>2. ~prog.inst[a].last /\ b \in Ids
    BY <2>1 DEF IsFlat, Ids
  <2>3. a \in Nat /\ a # 0
    <3>1. "Nop" # "Fail"
      BY SMT
    <3> QED
      BY <1>1, <2>1, <3>1
  <2>4. b - 1 = a /\ b # 0 /\ b \in Nat /\ b >= 2
    BY <2>3, SMT
  <2> HIDE DEF a, b
  <2>5. b \in S
    BY <2>2, <2>4 DEF S
  <2>6. IsFiniteSet(T) /\ Cardinality(T) = IF b \in S THEN Cardinality(S) - 1 ELSE Cardinality(S)
    BY <1>2, FS_RemoveElement
  <2>7. ListHeads \in SUBSET T
    BY <1>3, <2>2, <2>4 DEF ListHeads
  <2> HIDE DEF T
  <2>8. Cardinality(ListHeads) <= Cardinality(T)
    BY <1>4, <2>6, <2>7
  <2> QED
    BY <1>1, <1>2, <1>5, <2>2, <2>4, <2>5, <2>6, <2>8, SMT
<1> QED
  BY <1>1, <1>5, <1>6, SMT

\* What is kept: heads of lists, all different, and marks between them.
KeptIds(p) ==
    /\ IsDFAQueue(p)
    /\ \A j \in 1 .. Len(p) : p[j] # MarkId => p[j] \in ListHeads

\* There are no more of the former than lists.
LEMMA KeptFew ==
    ASSUME IsFlat(prog), NEW p, KeptIds(p)
    PROVE  Len(p) <= Marks(p) + Cardinality(ListHeads) /\ Len(p) \in Nat /\ Marks(p) \in Nat
<1> DEFINE n == Len(p)
           M == MarkPlaces(p)
           N == {j \in 1 .. n : p[j] # MarkId}
           f == [j \in N |-> p[j]]
<1>1. p \in Seq(QIds) /\ n \in Nat /\ DOMAIN p = 1 .. n
  BY LenProperties DEF KeptIds, IsDFAQueue
<1>2. IsFiniteSet(M) /\ Marks(p) = Cardinality(M) /\ Marks(p) \in Nat
  BY <1>1, MarksFacts
<1>3. f \in Injection(N, ListHeads)
  <2>1. f \in [N -> ListHeads]
    BY DEF KeptIds
  <2>2. ASSUME NEW j \in N, NEW k \in N, f[j] = f[k] PROVE j = k
    BY <2>2 DEF KeptIds, IsDFAQueue
  <2> HIDE DEF f, N
  <2> QED
    BY <2>1, <2>2 DEF Injection, IsInjective
<1>4. N \union M = 1 .. n /\ N \intersect M = {}
  BY <1>1 DEF MarkPlaces
<1> HIDE DEF N, M, f, n
<1>5. IsFiniteSet(N) /\ Cardinality(N) <= Cardinality(ListHeads)
  BY <1>3, HeadsFew, FS_Injection
<1>6. Cardinality(N \union M) = Cardinality(N) + Cardinality(M) - Cardinality(N \intersect M)
  BY <1>2, <1>5, FS_Union
<1>7. Cardinality(1 .. n) = n
  <2>1. Cardinality(1 .. n) = IF 1 > n THEN 0 ELSE n - 1 + 1
    BY <1>1, FS_Interval
  <2> QED
    BY <1>1, <2>1, SMT
<1>8. Cardinality(N) \in Nat /\ Cardinality(ListHeads) \in Nat /\ Cardinality(N \intersect M) = 0
  BY <1>4, <1>5, HeadsFew, FS_CardinalityType, FS_EmptySet
<1>9. n = Cardinality(N) + Marks(p)
  <2> DEFINE d == Cardinality(N \intersect M)
             e == Cardinality(N)
             g == Marks(p)
             u == Cardinality(N \union M)
  <2>1. u = e + g - d /\ u = n /\ d = 0 /\ e \in Nat /\ g \in Nat
    BY <1>2, <1>4, <1>6, <1>7, <1>8
  <2> HIDE DEF d, e, g, u
  <2>2. n = e + g
    BY <2>1, SMT
  <2> QED
    BY <2>2 DEF e, g
<1>10. n <= Marks(p) + Cardinality(ListHeads)
  BY <1>1, <1>2, <1>5, <1>8, <1>9, SMT
<1> QED
  BY <1>1, <1>2, <1>10 DEF n

\* The first k entries of q, of which p are kept.
Keeping(p, q, k) ==
    /\ KeptIds(p)
    /\ \A j \in 1 .. Len(p) : p[j] # MarkId => \E i \in 1 .. k : q[i] = p[j]
    /\ Marks(p) <= MarksUpto(q, k)
    /\ 2 * Marks(p) <= Len(p)
    /\ p # <<>> /\ Last(p) # MarkId => 2 * Marks(p) < Len(p)

\* A turn of WorkqToCachedState keeps the instruction, or a mark, or nothing.
KeptNext(p, q, k, r) ==
    \/ r = p
    \/ q[k] = MarkId /\ p # <<>> /\ Last(p) # MarkId /\ Grown(r, p, MarkId)
    \/ q[k] # MarkId /\ prog.inst[q[k] - 1].last /\ Grown(r, p, q[k])

\* A turn of WorkqToCachedState skips its entry, keeps it, or sets a mark for it.
LEMMA KeepEntryIs ==
    ASSUME NEW u, "inst" \in DOMAIN u, NEW q, NEW k, NEW flag, NEW matchkind,
           NEW r, r = KeepEntry(u, q, k, flag, matchkind)
    PROVE  "inst" \in DOMAIN r /\ KeptNext(u.inst, q, k, r.inst)
<1> DEFINE id == q[k]
           i == prog.inst[id]
           full == /\ i.op = "AltMatch" /\ matchkind # "many"
                   /\ matchkind = "first" => k = 1 /\ Greedy(i)
                   /\ matchkind = "longest" => ~u.sawmark
                   /\ "Match" \in flag
           marked == [u EXCEPT !.inst = Append(@, MarkId), !.sawmark = TRUE]
           keeps == [u EXCEPT
                    !.inst = IF prog.inst[id - 1].last THEN Append(@, id) ELSE @,
                    !.need = IF i.op = "EmptyWidth" THEN @ \union {i.arg} ELSE @,
                    !.sawmatch = @ \/ (i.op = "Match" /\ ~prog.anchor_end)]
           done == [u EXCEPT !.done = TRUE]
           ends == [u EXCEPT !.full = TRUE, !.done = TRUE]
<1>1. DOMAIN marked = DOMAIN u /\ marked.inst = Append(u.inst, MarkId)
  OBVIOUS
<1>2. DOMAIN keeps = DOMAIN u
      /\ keeps.inst = IF prog.inst[id - 1].last THEN Append(u.inst, id) ELSE u.inst
  OBVIOUS
<1>3. DOMAIN done = DOMAIN u /\ done.inst = u.inst /\ DOMAIN ends = DOMAIN u /\ ends.inst = u.inst
  OBVIOUS
<1>4. \/ r = u \/ r = done \/ r = ends
      \/ r = marked /\ id = MarkId /\ u.inst # <<>> /\ Last(u.inst) # MarkId
      \/ r = keeps /\ id # MarkId
  <2>1. u.done => r = u
    BY Zenon DEF KeepEntry
  <2>2. ~u.done /\ u.sawmatch /\ (matchkind = "first" \/ id = MarkId) => r = done
    BY Zenon DEF KeepEntry
  <2>3. ~u.done /\ ~u.sawmatch /\ id = MarkId =>
            r = IF u.inst # <<>> /\ Last(u.inst) # MarkId THEN marked ELSE u
    BY Zenon DEF KeepEntry
  <2>4. ~u.done /\ ~(u.sawmatch /\ (matchkind = "first" \/ id = MarkId))
            /\ ~(~u.sawmatch /\ id = MarkId) => r = IF full THEN ends ELSE keeps
    BY Zenon DEF KeepEntry
  <2> HIDE DEF full, marked, keeps, done, ends
  <2> QED
    BY <2>1, <2>2, <2>3, <2>4, Zenon
<1> HIDE DEF marked, keeps, done, ends
<1> QED
  BY <1>1, <1>2, <1>3, <1>4 DEF KeptNext, Grown

\* After such a turn what is kept is still so.
LEMMA KeptTurn ==
    ASSUME IsFlat(prog), NEW q, IsDFAQueue(q), NEW k \in 1 .. Len(q),
           NEW p, Keeping(p, q, k - 1), NEW r, KeptNext(p, q, k, r)
    PROVE  Keeping(r, q, k)
<1> DEFINE id == q[k]
           m == MarksUpto(q, k - 1)
           L == Len(p)
           M == Marks(p)
<1>1. q \in Seq(QIds) /\ id # 0
  BY DEF IsDFAQueue
<1>2. m \in Nat /\ MarksUpto(q, k) = m + One2(id) /\ id \in QIds /\ Len(q) \in Nat /\ k \in Nat
  BY <1>1, MarksUptoFacts
<1>3. /\ IsDFAQueue(p) /\ p \in Seq(QIds)
      /\ \A j \in 1 .. L : p[j] # MarkId => p[j] \in ListHeads /\ \E i \in 1 .. k - 1 : q[i] = p[j]
      /\ M <= m /\ 2 * M <= L
      /\ p # <<>> /\ Last(p) # MarkId => 2 * M < L
  BY DEF Keeping, KeptIds, IsDFAQueue
<1>4. L \in Nat /\ M \in Nat
  BY <1>3, MarksFacts, LenProperties
<1>5. \A i \in 1 .. k - 1 : i \in 1 .. k /\ i # k /\ i \in 1 .. Len(q)
  BY <1>2, SMT
<1>6. k \in 1 .. k /\ One2(id) \in {0, 1}
  BY <1>2, SMT DEF One2
<1>7. CASE r = p
  <2> HIDE DEF m, L, M, id
  <2>1. M <= MarksUpto(q, k)
    BY <1>2, <1>3, <1>4, <1>6, SMT
  <2>2. \A j \in 1 .. L : p[j] # MarkId => p[j] \in ListHeads /\ \E i \in 1 .. k : q[i] = p[j]
    BY <1>3, <1>5
  <2> QED
    BY <1>3, <1>7, <2>1, <2>2 DEF Keeping, KeptIds, L, M
<1>8. CASE id = MarkId /\ p # <<>> /\ Last(p) # MarkId /\ Grown(r, p, MarkId)
  <2>0. MarkId \in QIds
    BY DEF QIds
  <2>1. IsDFAQueue(r) /\ Marks(r) = M + 1
    BY <1>3, <1>8, QueueMarked
  <2>2. Larger(QIds, r, p, MarkId)
    BY <1>3, <1>8, <2>0, GrownFacts
  <2>3. /\ Len(r) = L + 1
        /\ \A j \in 1 .. Len(r) : r[j] = IF j = Len(r) THEN MarkId ELSE p[j]
        /\ \A j \in 1 .. Len(r) : j # Len(r) => j \in 1 .. L
        /\ Len(r) \in 1 .. Len(r)
    BY <2>2 DEF Larger
  <2>4. One2(id) = 1
    BY <1>8 DEF One2
  <2> HIDE DEF m, L, M, id
  <2>5. 2 * Marks(r) <= Len(r) /\ Marks(r) <= MarksUpto(q, k)
    <3>1. 2 * M < L
      BY <1>3, <1>8
    <3> QED
      BY <1>2, <1>3, <1>4, <2>1, <2>3, <2>4, <3>1, SMT
  <2>6. Last(r) = MarkId
    BY <2>3 DEF Last
  <2>7. \A j \in 1 .. Len(r) : r[j] # MarkId => r[j] \in ListHeads /\ \E i \in 1 .. k : q[i] = r[j]
    BY <1>3, <1>5, <2>3
  <2> QED
    BY <2>1, <2>5, <2>6, <2>7 DEF Keeping, KeptIds
<1>9. CASE id # MarkId /\ prog.inst[id - 1].last /\ Grown(r, p, id)
  <2>1. id \in Ids /\ id \in ListHeads
    BY <1>1, <1>2, <1>9 DEF QIds, ListHeads
  <2>2. id \notin Elems(p)
    <3> SUFFICES ASSUME NEW j \in 1 .. L, p[j] = id PROVE FALSE
      BY DEF Elems
    <3>1. PICK i \in 1 .. k - 1 : q[i] = id
      BY <1>3, <1>9
    <3>2. i = k
      BY <1>5, <1>9, <3>1 DEF IsDFAQueue
    <3> QED
      BY <1>5, <3>2
  <2>3. IsDFAQueue(r) /\ Marks(r) = M
    BY <1>1, <1>3, <1>9, <2>1, <2>2, QueueGrows
  <2>4. Larger(QIds, r, p, id)
    BY <1>2, <1>3, <1>9, GrownFacts
  <2>5. /\ Len(r) = L + 1
        /\ \A j \in 1 .. Len(r) : r[j] = IF j = Len(r) THEN id ELSE p[j]
        /\ \A j \in 1 .. Len(r) : j # Len(r) => j \in 1 .. L
        /\ Len(r) \in 1 .. Len(r)
    BY <2>4 DEF Larger
  <2>6. \A j \in 1 .. Len(r) : r[j] # MarkId => r[j] \in ListHeads /\ \E i \in 1 .. k : q[i] = r[j]
    <3>1. q[k] = id /\ k \in 1 .. k
      BY <1>6
    <3> HIDE DEF id, L
    <3> QED
      BY <1>3, <1>5, <2>1, <2>5, <3>1
  <2> HIDE DEF m, L, M, id
  <2>7. 2 * Marks(r) < Len(r) /\ 2 * Marks(r) <= Len(r) /\ Marks(r) <= MarksUpto(q, k)
    BY <1>2, <1>3, <1>4, <1>6, <2>3, <2>5, SMT
  <2> QED
    BY <2>3, <2>6, <2>7 DEF Keeping, KeptIds
<1> QED
  BY <1>7, <1>8, <1>9 DEF KeptNext

\* WorkqToCachedState takes a turn for each element of the queue.
LEMMA KeepTurns ==
    ASSUME NEW S, NEW q \in Seq(S), NEW flag, NEW matchkind, NEW how,
           how = [loop |-> "Keep", q |-> q, flag |-> flag, matchkind |-> matchkind],
           NEW x, x = [inst |-> <<>>, need |-> {}, full |-> FALSE, sawmatch |-> FALSE,
                       sawmark |-> FALSE, done |-> FALSE]
    PROVE  \E g : Turns(g, how, x, Len(q)) /\ Keep(q, flag, matchkind) = g[Len(q)]
<1> DEFINE N == Len(q)
           Is(g) == g = [k \in 0 .. Len(q) |->
                            IF k = 0
                            THEN [inst |-> <<>>, need |-> {}, full |-> FALSE, sawmatch |-> FALSE,
                                  sawmark |-> FALSE, done |-> FALSE]
                            ELSE KeepEntry(g[k - 1], q, k, flag, matchkind)]
           a == CHOOSE g : Is(g)
<1>1. \A y, n : OneMore(how, y, n) = KeepEntry(y, q, n, flag, matchkind)
  BY DEF OneMore
<1>2. \A g : Is(g) <=> Turns(g, how, x, N)
  BY <1>1, Zenon DEF Turns
<1>3. \E g : Is(g)
  <2>1. N \in Nat
    BY LenProperties
  <2> HIDE DEF Is, N
  <2> QED
    BY <1>2, <2>1, TurnsExist
<1>4. Is(a)
  BY <1>3, Zenon
<1>5. Keep(q, flag, matchkind) = a[Len(q)]
  BY DEF Keep
<1> HIDE DEF a, Is
<1> QED
  BY <1>2, <1>4, <1>5

\* What is kept of a queue (dfa.cc 608-672).
LEMMA KeepFacts ==
    ASSUME IsFlat(prog), NEW q, IsDFAQueue(q), NEW flag, NEW matchkind
    PROVE  Keeping(Keep(q, flag, matchkind).inst, q, Len(q))
<1> DEFINE x == [inst |-> <<>>, need |-> {}, full |-> FALSE, sawmatch |-> FALSE,
                 sawmark |-> FALSE, done |-> FALSE]
           how == [loop |-> "Keep", q |-> q, flag |-> flag, matchkind |-> matchkind]
           N == Len(q)
           r == Keep(q, flag, matchkind)
<1>1. q \in Seq(QIds) /\ N \in Nat
  BY LenProperties DEF IsDFAQueue
<1>2. PICK g : Turns(g, how, x, N) /\ r = g[N]
  BY <1>1, KeepTurns
<1>3. \A y, k : OneMore(how, y, k) = KeepEntry(y, q, k, flag, matchkind)
  BY DEF OneMore
<1>4. "inst" \in DOMAIN x /\ Keeping(x.inst, q, 0)
  <2>1. <<>> \in Seq(QIds) /\ Len(<<>>) = 0 /\ 1 .. 0 = {}
    BY SMT
  <2>2. <<>> \in Seq(Ids)
    BY SMT
  <2>3. Marks(<<>>) = 0
    BY <2>2, PlainIds
  <2>4. MarksUpto(q, 0) = 0
    BY <1>1, MarksUptoFacts
  <2>5. 2 * 0 <= 0 /\ 0 <= 0
    BY SMT
  <2>6. IsDFAQueue(<<>>) /\ KeptIds(<<>>)
    BY <2>1 DEF IsDFAQueue, KeptIds
  <2>7. Keeping(<<>>, q, 0)
    BY <2>1, <2>3, <2>4, <2>5, <2>6, Zenon DEF Keeping
  <2> QED
    BY <2>7
<1> HIDE DEF x, how, r
<1>6. /\ 0 \in 0 .. N /\ N \in 0 .. N /\ g[0] = x
      /\ \A k \in 1 .. N : g[k] = OneMore(how, g[k - 1], k) /\ k \in 0 .. N
  BY <1>1, <1>2, TurnsFacts
<1> DEFINE P == {k \in 0 .. N : "inst" \in DOMAIN g[k] /\ Keeping(g[k].inst, q, k)}
<1>7. 0 \in P
  BY <1>4, <1>6
<1>8. ASSUME NEW k \in 1 .. N, k - 1 \in P PROVE k \in P
  <2> DEFINE u == g[k - 1]
             v == g[k]
  <2>1. "inst" \in DOMAIN u /\ Keeping(u.inst, q, k - 1) /\ v = KeepEntry(u, q, k, flag, matchkind)
    BY <1>3, <1>6, <1>8
  <2> HIDE DEF u, v
  <2>2. "inst" \in DOMAIN v /\ KeptNext(u.inst, q, k, v.inst)
    BY <2>1, KeepEntryIs
  <2>3. Keeping(v.inst, q, k)
    BY <2>1, <2>2, KeptTurn
  <2> QED
    BY <1>6, <2>2, <2>3 DEF v
<1> HIDE DEF P, N
<1>9. \A k \in 0 .. N : k \in P
  BY <1>1, <1>7, <1>8, Upward
<1>10. Keeping(g[N].inst, q, N)
  BY <1>6, <1>9 DEF P
<1> QED
  BY <1>2, <1>10 DEF r, N

\* Marks that separate something are fewer than what they separate.
LEMMA DropLastMarkFacts ==
    ASSUME IsFlat(prog), NEW p, NEW q, NEW k, Keeping(p, q, k), MarksUpto(q, k) \in Nat,
           NEW d, d = DropLastMark(p)
    PROVE  /\ KeptIds(d) /\ Marks(d) <= MarksUpto(q, k)
           /\ Marks(d) = 0 \/ 2 * Marks(d) < Len(d)
<1>1. p \in Seq(QIds) /\ IsDFAQueue(p) /\ KeptIds(p)
  BY DEF Keeping, KeptIds, IsDFAQueue
<1>2. Len(p) \in Nat /\ Marks(p) \in Nat
  BY <1>1, MarksFacts, LenProperties
<1>3. CASE p = <<>>
  <2>1. d = <<>>
    BY <1>3, Zenon DEF DropLastMark
  <2>2. <<>> \in Seq(Ids)
    BY SMT
  <2>3. Marks(<<>>) = 0
    BY <2>2, PlainIds
  <2> QED
    BY <1>1, <1>3, <2>1, <2>3, SMT
<1>4. CASE p # <<>> /\ Last(p) # MarkId
  <2>1. d = p
    BY <1>4, Zenon DEF DropLastMark
  <2> QED
    BY <1>1, <1>4, <2>1 DEF Keeping
<1>5. CASE p # <<>> /\ Last(p) = MarkId
  <2>1. d = Front(p)
    BY <1>5, Zenon DEF DropLastMark
  <2>2. d \in Seq(QIds) /\ p = Append(d, MarkId)
    BY <1>1, <1>5, <2>1, SMT DEF Front, Last
  <2>3. MarkId \in QIds /\ Grown(p, d, MarkId)
    BY <2>2 DEF QIds, Grown
  <2>4. Larger(QIds, p, d, MarkId)
    BY <2>2, <2>3, GrownFacts
  <2>5. /\ Len(p) = Len(d) + 1 /\ Len(d) \in Nat
        /\ \A j \in 1 .. Len(d) : j \in 1 .. Len(p) /\ p[j] = d[j]
        /\ Marks(p) = Marks(d) + 1
    BY <2>4 DEF Larger
  <2>6. IsDFAQueue(d)
    BY <1>1, <2>2, <2>5 DEF IsDFAQueue
  <2>7. KeptIds(d)
    BY <1>1, <2>5, <2>6 DEF KeptIds
  <2>8. 2 * Marks(p) <= Len(p) /\ Marks(p) <= MarksUpto(q, k)
    BY DEF Keeping
  <2>9. Marks(d) \in Nat
    BY <2>2, MarksFacts
  <2>10. 2 * Marks(d) < Len(d) /\ Marks(d) <= MarksUpto(q, k)
    BY <1>2, <2>5, <2>8, <2>9, SMT
  <2> QED
    BY <2>7, <2>10
<1> QED
  BY <1>3, <1>4, <1>5

-----------------------------------------------------------------------------
(* Sorting the sets between the marks changes their order only. *)

\* The sets by their number, then the instructions by theirs, then the mark.
GoesBefore(ids, j, k) ==
    IF MarksUpto(ids, j - 1) # MarksUpto(ids, k - 1)
    THEN MarksUpto(ids, j - 1) < MarksUpto(ids, k - 1)
    ELSE ids[k] = MarkId \/ (ids[j] # MarkId /\ ids[j] < ids[k])

SetOrder(ids) ==
    {e \in (1 .. Len(ids)) \X (1 .. Len(ids)) : e[1] # e[2] /\ GoesBefore(ids, e[1], e[2])}

\* There are not fewer marks further on, and more after a mark.
LEMMA MarksGrow ==
    ASSUME NEW S, NEW q \in Seq(S), NEW j \in 1 .. Len(q), NEW k \in 1 .. Len(q), j < k,
           q[j] = MarkId
    PROVE  MarksUpto(q, j - 1) < MarksUpto(q, k - 1)
<1> DEFINE A == {i \in 1 .. j : q[i] = MarkId}
           B == {i \in 1 .. k - 1 : q[i] = MarkId}
<1>1. Len(q) \in Nat
  BY LenProperties
<1>2. \A i \in 1 .. j : i \in 1 .. k - 1
  BY <1>1, SMT
<1>3. k - 1 \in Int /\ 1 \in Int
  BY <1>1, SMT
<1>4. IsFiniteSet(1 .. k - 1)
  BY <1>3, FS_Interval
<1>5. A \in SUBSET B /\ B \in SUBSET (1 .. k - 1)
  BY <1>2
<1> HIDE DEF A, B
<1>6. Cardinality(A) <= Cardinality(B) /\ Cardinality(B) \in Nat
  <2>1. IsFiniteSet(B)
    BY <1>4, <1>5, FS_Subset
  <2> QED
    BY <1>5, <2>1, FS_Subset, FS_CardinalityType
<1>7. MarksUpto(q, j) <= MarksUpto(q, k - 1) /\ MarksUpto(q, k - 1) \in Nat
  BY <1>6 DEF MarksUpto, A, B
<1>8. MarksUpto(q, j - 1) \in Nat /\ MarksUpto(q, j) = MarksUpto(q, j - 1) + One2(q[j])
  BY MarksUptoFacts
<1>9. One2(q[j]) = 1
  BY DEF One2
<1> QED
  BY <1>7, <1>8, <1>9, SMT

\* It is an order, because every instruction is there once, and between two marks there is
\* no third.
LEMMA SetOrderFacts ==
    ASSUME IsFlat(prog), NEW ids, IsDFAQueue(ids)
    PROVE  Orders(SetOrder(ids), 1 .. Len(ids))
<1> DEFINE D == 1 .. Len(ids)
           R == SetOrder(ids)
           B(k) == MarksUpto(ids, k - 1)
<1>1. /\ ids \in Seq(QIds) /\ Len(ids) \in Nat
      /\ \A j, k \in D : ids[j] = ids[k] /\ ids[j] # MarkId => j = k
  BY LenProperties DEF IsDFAQueue
<1>2. \A k \in D : B(k) \in Nat /\ ids[k] \in QIds
  BY <1>1, MarksUptoFacts
<1>3. \A k \in D : ids[k] # MarkId => ids[k] \in Nat
  BY <1>2, FlatFacts DEF QIds
<1>4. \A j, k \in D : <<j, k>> \in R <=> j # k /\ GoesBefore(ids, j, k)
  BY DEF SetOrder
<1>5. \A j, k \in D : GoesBefore(ids, j, k) <=>
            IF B(j) # B(k) THEN B(j) < B(k)
            ELSE ids[k] = MarkId \/ (ids[j] # MarkId /\ ids[j] < ids[k])
  BY Zenon DEF GoesBefore
<1>6. ASSUME NEW j \in D, NEW k \in D, j # k, ids[j] = MarkId, ids[k] = MarkId
      PROVE  B(j) # B(k)
  <2>1. j < k \/ k < j
    BY <1>1, <1>6, SMT
  <2>2. j < k => B(j) < B(k)
    BY <1>1, <1>6, MarksGrow
  <2>3. k < j => B(k) < B(j)
    BY <1>1, <1>6, MarksGrow
  <2>4. B(j) \in Nat /\ B(k) \in Nat
    BY <1>2
  <2> HIDE DEF B
  <2> QED
    BY <2>1, <2>2, <2>3, <2>4, SMT
<1> HIDE DEF D, R, B
<1>7. \A a \in D : <<a, a>> \notin R
  BY <1>4
<1>8. ASSUME NEW a \in D, NEW b \in D, a # b PROVE <<a, b>> \in R \/ <<b, a>> \in R
  <2>1. B(a) \in Nat /\ B(b) \in Nat
    BY <1>2
  <2>2. CASE B(a) # B(b)
    <3>1. B(a) < B(b) \/ B(b) < B(a)
      BY <2>1, <2>2, SMT
    <3> QED
      BY <1>4, <1>5, <1>8, <2>2, <3>1
  <2>3. CASE B(a) = B(b) /\ (ids[a] = MarkId \/ ids[b] = MarkId)
    BY <1>4, <1>5, <1>8, <2>3
  <2>4. CASE B(a) = B(b) /\ ~(ids[a] = MarkId \/ ids[b] = MarkId)
    <3>1. ids[a] \in Nat /\ ids[b] \in Nat /\ ids[a] # ids[b]
      BY <1>1, <1>3, <1>8, <2>4 DEF D
    <3>2. ids[a] < ids[b] \/ ids[b] < ids[a]
      BY <3>1, SMT
    <3> QED
      BY <1>4, <1>5, <1>8, <2>4, <3>2
  <2> QED
    BY <2>2, <2>3, <2>4
<1>9. ASSUME NEW a \in D, NEW b \in D, NEW c \in D, <<a, b>> \in R, <<b, c>> \in R
      PROVE  <<a, c>> \in R
  <2>1. B(a) \in Nat /\ B(b) \in Nat /\ B(c) \in Nat
    BY <1>2
  <2>2. a # b /\ b # c /\ GoesBefore(ids, a, b) /\ GoesBefore(ids, b, c)
    BY <1>4, <1>9
  <2>3. B(a) # B(b) => B(a) < B(b)
    BY <1>5, <2>2
  <2>4. B(b) # B(c) => B(b) < B(c)
    BY <1>5, <2>2
  <2>5. CASE B(a) # B(c)
    <3>1. B(a) < B(c)
      BY <2>1, <2>3, <2>4, <2>5, SMT
    <3>2. a # c
      BY <2>5
    <3> QED
      BY <1>4, <1>5, <2>5, <3>1, <3>2
  <2>6. CASE B(a) = B(c)
    <3>1. B(a) = B(b) /\ B(b) = B(c)
      BY <2>1, <2>3, <2>4, <2>6, SMT
    <3>2. ids[b] = MarkId \/ (ids[a] # MarkId /\ ids[a] < ids[b])
      BY <1>5, <2>2, <3>1
    <3>3. ids[c] = MarkId \/ (ids[b] # MarkId /\ ids[b] < ids[c])
      BY <1>5, <2>2, <3>1
    <3>4. CASE ids[c] = MarkId
      <4>1. a # c
        BY <1>6, <2>2, <3>1, <3>2, <3>4
      <4> QED
        BY <1>4, <1>5, <2>6, <3>4, <4>1
    <3>5. CASE ids[c] # MarkId
      <4>1. ids[b] # MarkId /\ ids[b] < ids[c]
        BY <3>3, <3>5
      <4>2. ids[a] # MarkId /\ ids[a] < ids[b]
        BY <3>2, <4>1
      <4>3. ids[a] \in Nat /\ ids[b] \in Nat /\ ids[c] \in Nat
        BY <1>3, <3>5, <4>1, <4>2
      <4>4. ids[a] < ids[c] /\ ids[a] # ids[c]
        BY <4>1, <4>2, <4>3, SMT
      <4>5. a # c
        BY <4>4
      <4> QED
        BY <1>4, <1>5, <2>6, <4>2, <4>4, <4>5
    <3> QED
      BY <3>4, <3>5
  <2> QED
    BY <2>5, <2>6
<1> QED
  BY <1>7, <1>8, <1>9 DEF Orders, D, R

\* Sorting adds no mark.
LEMMA SortedSetsFacts ==
    ASSUME IsFlat(prog), NEW ids, IsDFAQueue(ids), NEW s, s = SortedSets(ids)
    PROVE  s \in Seq(QIds) /\ Marks(s) <= Marks(ids)
<1> DEFINE n == Len(ids)
           D == 1 .. n
           R == SetOrder(ids)
           Place(k) == 1 + Cardinality({j \in DOMAIN ids : j # k /\ GoesBefore(ids, j, k)})
           pick(m) == CHOOSE k \in DOMAIN ids : Place(k) = m
<1>1. ids \in Seq(QIds) /\ n \in Nat /\ DOMAIN ids = D /\ \A k \in D : ids[k] \in QIds
  BY LenProperties DEF IsDFAQueue
<1>2. s = [m \in DOMAIN ids |-> ids[pick(m)]]
  BY Zenon DEF SortedSets, GoesBefore, MarksUpto
<1>3. IsFiniteSet(D) /\ Cardinality(D) = n
  <2> HIDE DEF n
  <2>1. n \in Int /\ 1 \in Int
    BY <1>1, SMT
  <2>2. IsFiniteSet(1 .. n) /\ Cardinality(1 .. n) = IF 1 > n THEN 0 ELSE n - 1 + 1
    BY <2>1, FS_Interval
  <2> QED
    BY <1>1, <2>2, SMT
<1>4. Orders(R, D)
  BY SetOrderFacts
<1>5. ASSUME NEW k \in D PROVE Place(k) = 1 + Cardinality(Below(R, D, k))
  <2>1. {j \in DOMAIN ids : j # k /\ GoesBefore(ids, j, k)} = Below(R, D, k)
    BY <1>1 DEF Below, SetOrder
  <2> QED
    BY <2>1
<1>6. \A m \in 0 .. n - 1 : \E a \in D : Cardinality(Below(R, D, a)) = m
  <2> HIDE DEF D, R, n
  <2>1. \A m \in 0 .. Cardinality(D) - 1 : \E a \in D : Cardinality(Below(R, D, a)) = m
    BY <1>3, <1>4, RankFacts
  <2> QED
    BY <1>3, <2>1
<1>7. ASSUME NEW m \in D PROVE pick(m) \in D /\ Place(pick(m)) = m
  <2>1. m - 1 \in 0 .. n - 1 /\ 1 + (m - 1) = m
    BY <1>1, SMT
  <2>2. PICK a \in D : Cardinality(Below(R, D, a)) = m - 1
    BY <1>6, <2>1
  <2>3. Place(a) = 1 + Cardinality(Below(R, D, a))
    BY <1>5
  <2> HIDE DEF Place
  <2>4. Place(a) = m
    BY <2>1, <2>2, <2>3
  <2>5. \E k \in DOMAIN ids : Place(k) = m
    BY <1>1, <2>4
  <2>6. pick(m) \in DOMAIN ids /\ Place(pick(m)) = m
    BY <2>5
  <2> QED
    BY <1>1, <2>6
<1> HIDE DEF Place, pick, R
<1>8. /\ DOMAIN s = D /\ s \in [D -> QIds]
      /\ \A m \in D : s[m] = ids[pick(m)]
  BY <1>1, <1>2, <1>7
<1>9. s \in Seq(QIds)
  <2> HIDE DEF n
  <2> QED
    BY <1>1, <1>8, SMT
<1> DEFINE M == MarkPlaces(s)
           N == MarkPlaces(ids)
           f == [m \in M |-> pick(m)]
<1>10. M \in SUBSET D
  BY <1>8 DEF MarkPlaces
<1>11. \A m \in M : pick(m) \in N
  BY <1>1, <1>7, <1>8, <1>10 DEF MarkPlaces
<1>12. f \in Injection(M, N)
  <2>1. f \in [M -> N]
    BY <1>11
  <2>2. ASSUME NEW j \in M, NEW k \in M, f[j] = f[k] PROVE j = k
    <3>1. pick(j) = pick(k)
      BY <2>2
    <3> QED
      BY <1>7, <1>10, <3>1
  <2> HIDE DEF f, M, N
  <2> QED
    BY <2>1, <2>2 DEF Injection, IsInjective
<1>13. IsFiniteSet(N) /\ Marks(ids) = Cardinality(N) /\ Marks(s) = Cardinality(M)
  BY <1>1, <1>9, MarksFacts
<1> HIDE DEF M, N, f
<1>14. Cardinality(M) <= Cardinality(N)
  BY <1>12, <1>13, FS_Injection
<1> QED
  BY <1>9, <1>13, <1>14

-----------------------------------------------------------------------------
(* States. *)

\* The marks that a step may add: of the lap when the state is loaded, when it is loaded
\* again, and after the byte.
Spare(matchkind) == IF MarksLoop(matchkind) THEN 3 ELSE 0

\* There is room for the marks of the state and for those.
StateOk(s, matchkind) ==
    /\ StateInsts(s) \in Seq(QIds)
    /\ Marks(StateInsts(s)) + Spare(matchkind) <= NMark(matchkind)

\* There is room for those if there is a .*? loop to mark.
LEMMA SpareFacts ==
    ASSUME IsFlat(prog), NEW matchkind
    PROVE  /\ Spare(matchkind) \in {0, 3} /\ 0 + Spare(matchkind) <= NMark(matchkind)
           /\ NMark(matchkind) \in Nat
<1>1. NMark(matchkind) \in Nat /\ NMark(matchkind) \in {0, ProgSize} /\ ProgSize \in Nat
  BY RoomFacts, FlatFacts
<1>2. MarksLoop(matchkind) => ProgSize >= 3 /\ NMark(matchkind) > 0
  BY HeadsFew DEF MarksLoop
<1>3. MarksLoop(matchkind) => 3 <= NMark(matchkind)
  BY <1>1, <1>2, SMT
<1> QED
  BY <1>1, <1>3, SMT DEF Spare

\* The special states have no instructions.
LEMMA SpecialOk ==
    ASSUME IsFlat(prog), NEW matchkind, NEW s \in {DeadState, FullMatchState}
    PROVE  StateOk(s, matchkind)
<1>1. s.inst = <<>>
  BY DEF DeadState, FullMatchState
<1>2. <<>> \in Seq(Ids) /\ DOMAIN <<>> = {}
  BY SMT
<1>3. StateInsts(s) = <<>>
  BY <1>1, <1>2, Zenon DEF StateInsts
<1>4. <<>> \in Seq(QIds) /\ Marks(<<>>) = 0
  BY <1>2, PlainIds
<1> QED
  BY <1>3, <1>4, SpareFacts DEF StateOk

\* The ids of the matches are a sequence.
LEMMA MatchIdsInFacts ==
    ASSUME NEW S, NEW q \in Seq(S)
    PROVE  \E T : MatchIdsIn(q) \in Seq(T)
<1> DEFINE N == Len(q)
           T == {prog.inst[q[k]].arg : k \in 1 .. N}
           how == [loop |-> "MatchIdsIn", q |-> q]
           x == <<>>
           Listed(y, k) == IF q[k] # MarkId /\ prog.inst[q[k]].op = "Match"
                          THEN Append(y, prog.inst[q[k]].arg) ELSE y
           Is(g) == g = [k \in 0 .. Len(q) |-> IF k = 0 THEN <<>> ELSE Listed(g[k - 1], k)]
           a == CHOOSE g : Is(g)
<1>1. \A y, n : OneMore(how, y, n) = Listed(y, n)
  BY DEF OneMore
<1>2. \A g : Is(g) <=> Turns(g, how, x, N)
  <2> HIDE DEF Listed
  <2> QED
    BY <1>1, Zenon DEF Turns
<1>3. N \in Nat
  BY LenProperties
<1>4. Is(a)
  <2>1. \E g : Is(g)
    <3> HIDE DEF Is, N
    <3> QED
      BY <1>2, <1>3, TurnsExist
  <2> HIDE DEF Is
  <2> QED
    BY <2>1, Zenon
<1>5. MatchIdsIn(q) = a[N]
  BY DEF MatchIdsIn
<1>6. x \in Seq(T)
  <2> HIDE DEF T
  <2> QED
    BY SMT
<1> HIDE DEF a, Is, x, how, T
<1>7. Turns(a, how, x, N)
  BY <1>2, <1>4
<1>8. /\ 0 \in 0 .. N /\ N \in 0 .. N /\ a[0] = x
      /\ \A k \in 1 .. N : a[k] = OneMore(how, a[k - 1], k) /\ k \in 0 .. N
  BY <1>3, <1>7, TurnsFacts
<1> DEFINE P == {k \in 0 .. N : a[k] \in Seq(T)}
<1>9. 0 \in P
  BY <1>6, <1>8
<1>10. ASSUME NEW k \in 1 .. N, k - 1 \in P PROVE k \in P
  <2> DEFINE e == prog.inst[q[k]].arg
             y == a[k - 1]
  <2>1. e \in T
    BY DEF T
  <2>2. y \in Seq(T)
    BY <1>10
  <2>3. a[k] = Append(y, e) \/ a[k] = y
    BY <1>1, <1>8
  <2> HIDE DEF e, y
  <2>4. Append(y, e) \in Seq(T)
    BY <2>1, <2>2, SMT
  <2>5. a[k] \in Seq(T)
    BY <2>2, <2>3, <2>4, Zenon
  <2> QED
    BY <1>8, <2>5
<1> HIDE DEF P, N
<1>11. \A k \in 0 .. N : k \in P
  BY <1>3, <1>9, <1>10, Upward
<1> QED
  BY <1>5, <1>8, <1>11 DEF P

\* What a state lists before the separator.
LEMMA StateInstsFacts ==
    ASSUME IsFlat(prog), NEW c \in Seq(QIds), NEW T, NEW t \in Seq(T), NEW s,
           s.inst = c \/ s.inst = c \o <<MatchSep>> \o t
    PROVE  StateInsts(s) = c
<1> DEFINE n == Len(c)
           seps == {k \in DOMAIN s.inst : s.inst[k] = MatchSep}
<1>1. n \in Nat /\ DOMAIN c = 1 .. n /\ \A k \in 1 .. n : c[k] \in QIds
  BY LenProperties
<1>2. MatchSep \notin QIds
  <2>1. MatchSep \notin Nat /\ MatchSep # MarkId
    BY SMT DEF MatchSep, MarkId
  <2> QED
    BY <2>1, FlatFacts DEF QIds
<1>3. CASE s.inst = c
  <2>1. seps = {}
    BY <1>1, <1>2, <1>3
  <2> QED
    BY <1>3, <2>1, Zenon DEF StateInsts
<1>4. CASE s.inst = c \o <<MatchSep>> \o t
  <2> DEFINE U == QIds \union {MatchSep} \union T
             v == s.inst
  <2>1. c \in Seq(U) /\ t \in Seq(U) /\ Len(t) \in Nat
    <3> DEFINE l == Len(t)
    <3>1. c \in [1 .. n -> U]
      <4>1. c \in [1 .. n -> QIds]
        BY <1>1, SMT
      <4> QED
        BY <4>1
    <3>2. l \in Nat /\ t \in [1 .. l -> U]
      <4>1. l \in Nat /\ t \in [1 .. l -> T]
        BY SMT
      <4> QED
        BY <4>1
    <3> HIDE DEF U, n, l
    <3> QED
      BY <1>1, <3>1, <3>2, SMT DEF l
  <2>2. MatchSep \in U
    OBVIOUS
  <2> HIDE DEF U
  <2>3. /\ v \in Seq(U) /\ Len(v) \in Nat /\ Len(v) >= n + 1 /\ v[n + 1] = MatchSep
        /\ \A k \in 1 .. n : v[k] = c[k]
    <3> HIDE DEF v, n
    <3>1. v = (c \o <<MatchSep>>) \o t
      BY <1>4 DEF v
    <3> DEFINE b == Append(c, MatchSep)
    <3>2. c \o <<MatchSep>> = b
      BY <2>1, SMT
    <3>3. b \in Seq(U) /\ Len(b) = n + 1 /\ b[n + 1] = MatchSep /\ \A k \in 1 .. n : b[k] = c[k]
      BY <2>1, <2>2, SMT DEF n
    <3> HIDE DEF b
    <3>4. /\ b \o t \in Seq(U) /\ Len(b \o t) = Len(b) + Len(t)
          /\ \A k \in 1 .. Len(b) + Len(t) :
                (b \o t)[k] = IF k <= Len(b) THEN b[k] ELSE t[k - Len(b)]
      BY <2>1, <3>3, ConcatProperties
    <3>5. n + 1 \in 1 .. Len(b) + Len(t) /\ n + 1 <= Len(b)
          /\ \A k \in 1 .. n : k \in 1 .. Len(b) + Len(t) /\ k <= Len(b)
      BY <1>1, <2>1, <3>3, SMT DEF n
    <3>6. v = b \o t
      BY <3>1, <3>2
    <3>7. v \in Seq(U) /\ v[n + 1] = b[n + 1] /\ \A k \in 1 .. n : v[k] = b[k]
      BY <3>4, <3>5, <3>6
    <3>8. Len(v) \in Nat /\ Len(v) >= n + 1
      BY <1>1, <2>1, <3>3, <3>4, <3>6, SMT DEF n
    <3> QED
      BY <3>3, <3>7, <3>8
  <2>4. DOMAIN v = 1 .. Len(v)
    BY <2>3, LenProperties
  <2> HIDE DEF v
  <2>5. seps = {k \in DOMAIN v : v[k] = MatchSep}
    BY DEF v
  <2> HIDE DEF seps
  <2>6. seps \in SUBSET Nat /\ n + 1 \in seps /\ \A m \in seps : n + 1 <= m
    <3>1. n + 1 \in 1 .. Len(v) /\ \A k \in 1 .. Len(v) : k \in Nat /\ (k \in 1 .. n \/ n + 1 <= k)
      BY <1>1, <2>3, SMT
    <3>2. \A k \in 1 .. n : v[k] # MatchSep
      BY <1>1, <1>2, <2>3
    <3> HIDE DEF n
    <3> QED
      BY <2>3, <2>4, <2>5, <3>1, <3>2
  <2>7. Min(seps) = n + 1
    <3> DEFINE m == n + 1
    <3>1. seps \in SUBSET Nat /\ m \in seps /\ \A l \in seps : m <= l
      BY <2>6
    <3> HIDE DEF m
    <3>2. Min(seps) = m
      BY <3>1, MinIsUnique
    <3> QED
      BY <3>2 DEF m
  <2>8. StateInsts(s) = SubSeq(v, 1, Min(seps) - 1)
    BY <2>6, Zenon DEF StateInsts, seps, v
  <2>9. Min(seps) - 1 = n
    BY <1>1, <2>7, SMT
  <2>10. SubSeq(v, 1, n) = c
    <3> HIDE DEF n
    <3>1. /\ SubSeq(v, 1, n) \in Seq(U) /\ Len(SubSeq(v, 1, n)) = n
          /\ \A k \in 1 .. n : SubSeq(v, 1, n)[k] = v[k]
      BY <1>1, <2>3, SMT
    <3>2. Len(c) = n
      BY DEF n
    <3> DEFINE w == SubSeq(v, 1, n)
    <3>3. w \in Seq(U) /\ c \in Seq(U) /\ Len(w) = Len(c) /\ \A k \in 1 .. Len(w) : w[k] = c[k]
      BY <2>1, <2>3, <3>1, <3>2
    <3> HIDE DEF w
    <3>4. w = c
      BY <3>3, SeqEqual
    <3> QED
      BY <3>4 DEF w
  <2> QED
    BY <2>8, <2>9, <2>10
<1> QED
  BY <1>3, <1>4

\* The state for a queue whose marks there was room for has fewer of them.
LEMMA CachedOk ==
    ASSUME IsFlat(prog), NEW matchkind, NEW q, IsDFAQueue(q), Marks(q) <= NMark(matchkind),
           NEW mq \in Seq(QIds), NEW flag
    PROVE  StateOk(WorkqToCachedState(q, mq, flag, matchkind), matchkind)
<1> DEFINE u == Keep(q, flag, matchkind)
           d == DropLastMark(u.inst)
           c == Canonical(d, matchkind)
           t == MatchIdsIn(mq)
           s == WorkqToCachedState(q, mq, flag, matchkind)
           n == Len(q)
<1> SUFFICES StateOk(s, matchkind)
  OBVIOUS
<1>1. q \in Seq(QIds) /\ n \in Nat
  BY LenProperties DEF IsDFAQueue
<1>2. MarksUpto(q, n) = Marks(q) /\ Marks(q) \in Nat
  BY <1>1, MarksUptoFacts, MarksFacts
<1>3. Keeping(u.inst, q, n)
  BY KeepFacts
<1>4. KeptIds(d) /\ Marks(d) <= Marks(q) /\ (Marks(d) = 0 \/ 2 * Marks(d) < Len(d))
  <2> HIDE DEF u
  <2>1. MarksUpto(q, n) \in Nat
    BY <1>2
  <2> HIDE DEF n, d
  <2>2. KeptIds(d) /\ Marks(d) <= MarksUpto(q, n) /\ (Marks(d) = 0 \/ 2 * Marks(d) < Len(d))
    BY <1>3, <2>1, DropLastMarkFacts DEF d
  <2> QED
    BY <1>2, <2>2
<1>5. s \in {DeadState, FullMatchState}
      \/ s.inst = c \/ s.inst = c \o <<MatchSep>> \o t
  BY Zenon DEF WorkqToCachedState, Cached, StateOf
<1> HIDE DEF u, d, s, t, c
<1>6. /\ Len(d) <= Marks(d) + Cardinality(ListHeads) /\ Len(d) \in Nat /\ Marks(d) \in Nat
      /\ d \in Seq(QIds) /\ IsDFAQueue(d)
  BY <1>4, KeptFew DEF KeptIds, IsDFAQueue
<1>7. /\ Cardinality(ListHeads) \in Nat /\ Cardinality(ListHeads) + 1 <= ProgSize
      /\ MarksLoop(matchkind) => Cardinality(ListHeads) + 2 <= ProgSize
      /\ ProgSize \in Nat
  BY HeadsFew, FlatFacts
<1>8. Marks(d) + Spare(matchkind) <= NMark(matchkind)
  <2>1. NMark(matchkind) \in {0, ProgSize} /\ NMark(matchkind) \in Nat
    BY RoomFacts
  <2>2. CASE Marks(d) = 0
    BY <2>2, SpareFacts
  <2>3. CASE Marks(d) # 0 /\ MarksLoop(matchkind)
    <3>1. NMark(matchkind) = ProgSize /\ Spare(matchkind) = 3
      BY <2>1, <2>3, SMT DEF MarksLoop, Spare
    <3> QED
      BY <1>4, <1>6, <1>7, <2>3, <3>1, SMT
  <2>4. CASE Marks(d) # 0 /\ ~MarksLoop(matchkind)
    <3>1. Spare(matchkind) = 0
      BY <2>4 DEF Spare
    <3> QED
      BY <1>2, <1>4, <1>6, <2>1, <3>1, SMT
  <2> QED
    BY <2>2, <2>3, <2>4
<1>9. c \in Seq(QIds) /\ Marks(c) <= Marks(d) /\ Marks(c) \in Nat
  <2>1. c = d \/ c = SortedSets(d)
    BY Zenon DEF Canonical, c
  <2>2. c \in Seq(QIds) /\ Marks(c) <= Marks(d)
    BY <1>6, <2>1, SortedSetsFacts
  <2> QED
    BY <2>2, MarksFacts
<1>10. CASE s \in {DeadState, FullMatchState}
  BY <1>10, SpecialOk
<1>11. CASE s.inst = c \/ s.inst = c \o <<MatchSep>> \o t
  <2>1. PICK T : t \in Seq(T)
    BY MatchIdsInFacts DEF t
  <2>2. StateInsts(s) = c
    BY <1>9, <1>11, <2>1, StateInstsFacts
  <2>3. Spare(matchkind) \in {0, 3} /\ NMark(matchkind) \in Nat
    BY SpareFacts
  <2>4. Marks(c) + Spare(matchkind) <= NMark(matchkind)
    BY <1>6, <1>8, <1>9, <2>3, SMT
  <2> QED
    BY <1>9, <2>2, <2>4 DEF StateOk
<1> QED
  BY <1>5, <1>10, <1>11

-----------------------------------------------------------------------------
(* Steps from state to state. *)

\* The mark of the lap, if there is a .*? loop to mark.
OneLap(matchkind) == IF MarksLoop(matchkind) THEN 1 ELSE 0

\* The marks to spare are those of three laps, and no queue has more than one.
LEMMA OneLapFacts ==
    ASSUME NEW matchkind
    PROVE  /\ OneLap(matchkind) \in {0, 1} /\ Spare(matchkind) = 3 * OneLap(matchkind)
           /\ \A q : Laps(q, matchkind) \in {0, 1} /\ Laps(q, matchkind) <= OneLap(matchkind)
BY SMT DEF OneLap, Spare, Laps

\* A work queue with nothing in it, and what becomes of it.
IsFresh(w, matchkind) ==
    /\ {"q", "nstack"} \subseteq DOMAIN w
    /\ w.q = <<>> /\ w.nstack \in Nat /\ w.nstack <= DFAStack(matchkind)

HasMarks(r, matchkind, n) ==
    /\ IsWorkq(r, matchkind)
    /\ Marks(r.q) \in Nat /\ Marks(r.q) <= n + OneLap(matchkind)

\* What becomes of it has no marks but those it is given and the lap's.
LEMMA FreshFacts ==
    ASSUME IsFlat(prog), NEW matchkind, NEW w, IsFresh(w, matchkind)
    PROVE  /\ IsWorkq(w, matchkind)
           /\ \A r : \A n \in Nat : Becomes(r, w, matchkind, n) => HasMarks(r, matchkind, n)
<1>0. <<>> \in Seq(Ids) /\ Len(<<>>) = 0
  BY SMT
<1>1. <<>> \in Seq(QIds) /\ Len(<<>>) = 0 /\ Marks(<<>>) = 0
  BY <1>0, PlainIds
<1>2. IsDFAQueue(<<>>)
  BY <1>1, SMT DEF IsDFAQueue
<1>3. IsWorkq(w, matchkind)
  BY <1>2 DEF IsFresh, IsWorkq
<1>4. ASSUME NEW r, NEW n \in Nat, Becomes(r, w, matchkind, n)
      PROVE  HasMarks(r, matchkind, n)
  <2> DEFINE l == Laps(w.q, matchkind)
             k == Laps(r.q, matchkind)
             a == OneLap(matchkind)
  <2>1. l \in {0, 1} /\ k \in {0, 1} /\ k <= a /\ a \in {0, 1}
    BY OneLapFacts
  <2>2. Marks(w.q) = 0
    BY <1>1 DEF IsFresh
  <2>3. n \in Int
    OBVIOUS
  <2> HIDE DEF l, k, a
  <2>4. MarksWithin(w, matchkind, n, n)
    BY <2>1, <2>2, SMT DEF MarksWithin, l
  <2>5. IsWorkq(r, matchkind) /\ MarksWithin(r, matchkind, n, 0)
    BY <1>4, <2>3, <2>4 DEF Becomes
  <2>6. Marks(r.q) \in Nat
    BY <2>5, MarksFacts DEF IsWorkq, IsDFAQueue
  <2>7. Marks(r.q) + 0 <= n + k
    BY <2>5 DEF MarksWithin, k
  <2>8. Marks(r.q) <= n + a
    BY <2>1, <2>6, <2>7, SMT
  <2> QED
    BY <2>5, <2>6, <2>8 DEF HasMarks, a
<1> QED
  BY <1>3, <1>4

\* A new work queue has nothing in it.
LEMMA NewWorkqFacts ==
    ASSUME IsFlat(prog), NEW matchkind
    PROVE  IsFresh(NewWorkq, matchkind)
<1>1. DFAStack(matchkind) \in Nat /\ 1 <= DFAStack(matchkind)
  BY RoomFacts, SMT
<1> QED
  BY <1>1 DEF IsFresh, NewWorkq

\* A state is loaded once, or again with the flags before the byte.
LEMMA LoadedFacts ==
    ASSUME IsFlat(prog), NEW matchkind, NEW s, StateOk(s, matchkind), NEW c
    PROVE  LET w == Loaded(s, c, matchkind)
           IN /\ IsWorkq(w, matchkind) /\ Marks(w.q) \in Nat
              /\ Marks(w.q) + OneLap(matchkind) <= NMark(matchkind)
<1> DEFINE ids == StateInsts(s)
           old == s.flag \intersect EmptyOps
           before == BeforeFlag(s, c)
           v == AddAll(NewWorkq, ids, old, matchkind)
           e == [v EXCEPT !.q = <<>>]
           z == AddAll(e, v.q, before, matchkind)
           w == Loaded(s, c, matchkind)
           m == Marks(ids)
           a == OneLap(matchkind)
<1> SUFFICES /\ IsWorkq(w, matchkind) /\ Marks(w.q) \in Nat
             /\ Marks(w.q) + a <= NMark(matchkind)
  OBVIOUS
<1>1. ids \in Seq(QIds) /\ m + Spare(matchkind) <= NMark(matchkind) /\ m \in Nat
  BY MarksFacts DEF StateOk
<1>2. w = v \/ w = z
  BY Zenon DEF Loaded
<1> HIDE DEF ids, old, before, w, m, a
<1>3. IsFresh(NewWorkq, matchkind)
  BY NewWorkqFacts
<1>4. IsWorkq(NewWorkq, matchkind)
  BY <1>3, FreshFacts
<1>5. Becomes(v, NewWorkq, matchkind, m)
  BY <1>1, <1>4, AddAllFacts DEF m
<1> HIDE DEF v
<1>6. HasMarks(v, matchkind, m)
  BY <1>1, <1>3, <1>5, FreshFacts
<1>7. IsFresh(e, matchkind)
  <2>1. IsWorkq(v, matchkind)
    BY <1>6 DEF HasMarks
  <2>2. DOMAIN e = DOMAIN v /\ e.q = <<>> /\ e.nstack = v.nstack
    BY <2>1 DEF IsWorkq
  <2> HIDE DEF e
  <2> QED
    BY <2>1, <2>2 DEF IsWorkq, IsFresh
<1> DEFINE n == Marks(v.q)
<1>8. n \in Nat /\ n <= m + a /\ v.q \in Seq(QIds)
  BY <1>6 DEF HasMarks, IsWorkq, IsDFAQueue, a
<1> HIDE DEF e
<1>9. Becomes(z, e, matchkind, n)
  BY <1>7, <1>8, FreshFacts, AddAllFacts
<1> HIDE DEF z, n
<1>10. HasMarks(z, matchkind, n)
  BY <1>7, <1>8, <1>9, FreshFacts
<1>11. a \in {0, 1} /\ Spare(matchkind) = 3 * a /\ NMark(matchkind) \in Nat
  BY OneLapFacts, SpareFacts DEF a
<1>12. IsWorkq(w, matchkind) /\ Marks(w.q) \in Nat /\ (Marks(w.q) <= m + a \/ Marks(w.q) <= n + a)
  BY <1>2, <1>6, <1>10 DEF HasMarks, a
<1>13. Marks(w.q) + a <= NMark(matchkind)
  BY <1>1, <1>8, <1>11, <1>12, SMT
<1> QED
  BY <1>12, <1>13

\* What a step is to return: a state with room for its marks, and how high the stack and
\* the marks got.
RunOk(r, matchkind) ==
    /\ StateOk(r.state, matchkind)
    /\ r.nstack \in Nat /\ r.nstack <= DFAStack(matchkind)
    /\ r.nmark \in Nat /\ r.nmark <= NMark(matchkind)

\* The state for two queues that keep within their bounds.
LEMMA StateForOk ==
    ASSUME IsFlat(prog), NEW matchkind, NEW w1, NEW w2, NEW c,
           IsWorkq(w1, matchkind), Marks(w1.q) \in Nat, Marks(w1.q) <= NMark(matchkind),
           IsWorkq(w2, matchkind), Marks(w2.q) \in Nat, Marks(w2.q) <= NMark(matchkind)
    PROVE  RunOk(StateFor(w1, w2, c, matchkind), matchkind)
<1> DEFINE r == StateFor(w1, w2, c, matchkind)
           mq == IF w2.ismatch /\ matchkind = "many" THEN w1.q ELSE <<>>
           S == {Marks(w1.q), Marks(w2.q)}
<1>1. mq \in Seq(QIds)
  <2>1. w1.q \in Seq(QIds) /\ <<>> \in Seq(QIds)
    BY SMT DEF IsWorkq, IsDFAQueue
  <2> QED
    BY <2>1
<1>2. PICK flag : /\ r.state = WorkqToCachedState(w2.q, mq, flag, matchkind)
                  /\ r.nstack = w2.nstack /\ r.nmark = Max(S)
  BY DEF StateFor
<1> HIDE DEF r, mq
<1>3. StateOk(r.state, matchkind)
  BY <1>1, <1>2, CachedOk DEF IsWorkq
<1>4. NMark(matchkind) \in Nat
  BY RoomFacts
<1>5. S \in SUBSET (0 .. NMark(matchkind)) /\ S # {}
  BY <1>4, SMT
<1> HIDE DEF S
<1>6. Max(S) \in 0 .. NMark(matchkind)
  BY <1>4, <1>5, MaxIsGreatest
<1>7. Max(S) \in Nat /\ Max(S) <= NMark(matchkind)
  BY <1>4, <1>6, SMT
<1> QED
  BY <1>2, <1>3, <1>7 DEF RunOk, IsWorkq, r

\* RunStateOnByte keeps the stack and the marks within their bounds.
LEMMA RunStateOnByteOk ==
    ASSUME IsFlat(prog), NEW matchkind, NEW s, StateOk(s, matchkind), NEW c
    PROVE  RunOk(RunStateOnByte(s, c, matchkind), matchkind)
<1> DEFINE w == Loaded(s, c, matchkind)
           e == [ismatch |-> FALSE, q |-> <<>>, nstack |-> w.nstack]
           z == RunOnByte(e, w.q, c, AfterFlag(c), matchkind)
           a == OneLap(matchkind)
<1>1. /\ IsWorkq(w, matchkind) /\ Marks(w.q) \in Nat
      /\ Marks(w.q) + a <= NMark(matchkind)
  BY LoadedFacts
<1>2. a \in {0, 1} /\ NMark(matchkind) \in Nat
  BY OneLapFacts, RoomFacts
<1>3. RunState(s, c, matchkind) = StateFor(w, z, c, matchkind)
  BY DEF RunState
<1> HIDE DEF w, a
<1>4. IsFresh(e, matchkind)
  BY <1>1 DEF IsFresh, IsWorkq
<1> HIDE DEF e
<1>5. Becomes(z, e, matchkind, Marks(w.q))
  BY <1>1, <1>4, FreshFacts, RunOnByteFacts DEF IsWorkq
<1> HIDE DEF z
<1>6. IsWorkq(z, matchkind) /\ Marks(z.q) \in Nat /\ Marks(z.q) <= Marks(w.q) + a
  BY <1>1, <1>4, <1>5, FreshFacts DEF HasMarks, a
<1>7. Marks(w.q) <= NMark(matchkind) /\ Marks(z.q) <= NMark(matchkind)
  BY <1>1, <1>2, <1>6, SMT
<1>8. RunOk(RunState(s, c, matchkind), matchkind)
  BY <1>1, <1>3, <1>6, <1>7, StateForOk
<1>9. RunOk([state |-> s, nstack |-> 1, nmark |-> 0], matchkind)
  <2>1. DFAStack(matchkind) \in Nat /\ 1 <= DFAStack(matchkind) /\ 0 <= NMark(matchkind)
    BY RoomFacts, SMT
  <2> QED
    BY <2>1, SMT DEF RunOk
<1> QED
  BY <1>8, <1>9 DEF RunStateOnByte

\* So does the start of a search.
LEMMA StartStateOk ==
    ASSUME IsFlat(prog), NEW matchkind, NEW anchored, NEW flag
    PROVE  RunOk(StartState(anchored, flag, matchkind), matchkind)
<1> DEFINE id == IF anchored THEN prog.start ELSE prog.start_unanchored
           w == AddToQueue(NewWorkq, id, flag, matchkind)
           r == StartState(anchored, flag, matchkind)
<1>1. id \in Ids /\ MarkId \notin Ids
  BY RoomFacts
<1>2. /\ r.state = WorkqToCachedState(w.q, <<>>, flag, matchkind)
      /\ r.nstack = w.nstack /\ r.nmark = Marks(w.q)
  BY DEF StartState
<1> HIDE DEF id, r
<1>3. IsFresh(NewWorkq, matchkind) /\ id \in QIds /\ One2(id) = 0 /\ 0 \in Nat
  BY <1>1, NewWorkqFacts DEF QIds, One2
<1>4. Becomes(w, NewWorkq, matchkind, 0)
  BY <1>3, FreshFacts, AddToQueueFacts
<1> HIDE DEF w
<1>5. HasMarks(w, matchkind, 0)
  BY <1>3, <1>4, FreshFacts
<1>6. OneLap(matchkind) \in {0, 1} /\ 3 * OneLap(matchkind) <= NMark(matchkind)
      /\ NMark(matchkind) \in Nat
  BY OneLapFacts, SpareFacts
<1>7. Marks(w.q) \in Nat /\ Marks(w.q) <= NMark(matchkind)
  BY <1>5, <1>6, SMT DEF HasMarks
<1>8. IsWorkq(w, matchkind) /\ <<>> \in Seq(QIds)
  BY <1>5, SMT DEF HasMarks
<1>9. StateOk(r.state, matchkind)
  BY <1>2, <1>7, <1>8, CachedOk DEF IsWorkq
<1> QED
  BY <1>2, <1>7, <1>8, <1>9 DEF RunOk, IsWorkq, r

-----------------------------------------------------------------------------
(* The export of a DFA. *)

\* There are as many slots as classes of bytes, and one.
LEMMA InputsFacts ==
    /\ Len(Inputs) \in Nat
    /\ \A k \in 1 .. Len(Inputs) : Inputs[k] \in Slots
<1> DEFINE T == {prog.bytemap[c] : c \in Byte}
           f == [c \in Byte |-> prog.bytemap[c]]
           n == bytemap_range
<1>1. IsFiniteSet(Byte)
  <2>1. MaxByte \in Int /\ 0 \in Int
    BY ByteAssumption, SMT
  <2> QED
    BY <2>1, FS_Interval DEF Byte
<1>2. f \in Surjection(Byte, T)
  BY DEF Surjection
<1> HIDE DEF f
<1>3. IsFiniteSet(T)
  BY <1>1, <1>2, FS_Surjection
<1>4. n \in Nat
  BY <1>3, FS_CardinalityType DEF bytemap_range
<1>5. Inputs = [k \in 1 .. n + 1 |-> IF k = n + 1 THEN kByteEndText ELSE k - 1]
  BY DEF Inputs
<1>6. Slots = (0 .. n - 1) \union {kByteEndText}
  BY DEF Slots
<1> HIDE DEF n
<1> DEFINE A == {IF k = n + 1 THEN kByteEndText ELSE k - 1 : k \in 1 .. n + 1}
<1>7. Inputs \in Seq(A) /\ Len(Inputs) = n + 1
  <2>1. n + 1 \in Nat
    BY <1>4, SMT
  <2>2. Inputs \in [1 .. n + 1 -> A]
    BY <1>5
  <2> HIDE DEF A
  <2> QED
    BY <2>1, <2>2, SeqDef, LenProperties, SMT
<1>8. ASSUME NEW k \in 1 .. n + 1 PROVE Inputs[k] \in Slots
  <2>1. k # n + 1 => k - 1 \in 0 .. n - 1
    BY <1>4, SMT
  <2> QED
    BY <1>5, <1>6, <2>1
<1> QED
  BY <1>4, <1>7, <1>8, SMT

\* A sequence of states with room for their marks.
StatesOk(m, matchkind) ==
    /\ \E T : m \in Seq(T)
    /\ \A n \in 1 .. Len(m) : StateOk(m[n], matchkind)

\* One more is added to it.
LEMMA WithStateOk ==
    ASSUME NEW matchkind, NEW m, StatesOk(m, matchkind), NEW s, StateOk(s, matchkind)
    PROVE  StatesOk(WithState(m, s), matchkind)
<1> DEFINE r == Append(m, s)
<1>1. PICK T : m \in Seq(T)
  BY DEF StatesOk
<1> DEFINE U == T \union {s}
<1>2. T \in SUBSET U /\ s \in U
  OBVIOUS
<1> HIDE DEF U
<1>3. m \in Seq(U)
  BY <1>1, <1>2, SMT
<1>4. /\ r \in Seq(U) /\ Len(r) = Len(m) + 1 /\ Len(m) \in Nat
      /\ \A n \in 1 .. Len(m) : r[n] = m[n]
      /\ r[Len(m) + 1] = s
  BY <1>2, <1>3, SMT
<1> HIDE DEF r
<1>5. ASSUME NEW n \in 1 .. Len(r) PROVE StateOk(r[n], matchkind)
  <2>1. n \in 1 .. Len(m) \/ n = Len(m) + 1
    BY <1>4, SMT
  <2> QED
    BY <1>4, <2>1 DEF StatesOk
<1>6. StatesOk(r, matchkind)
  BY <1>4, <1>5 DEF StatesOk
<1> QED
  BY <1>6 DEF WithState, r

\* The states that a row adds.
WithStates(m, r) ==
    LET numbered[k \in 0 .. Len(Inputs)] ==
            IF k = 0 THEN m ELSE WithState(numbered[k - 1], r[Inputs[k]].state)
    IN numbered[Len(Inputs)]

\* They are added one by one.
LEMMA WithStatesOk ==
    ASSUME NEW matchkind, NEW m, StatesOk(m, matchkind), NEW r,
           \A b \in Slots : StateOk(r[b].state, matchkind)
    PROVE  StatesOk(WithStates(m, r), matchkind)
<1> DEFINE N == Len(Inputs)
           how == [loop |-> "WithRow", r |-> r]
           Is(g) == g = [k \in 0 .. Len(Inputs) |->
                            IF k = 0 THEN m ELSE WithState(g[k - 1], r[Inputs[k]].state)]
           a == CHOOSE g : Is(g)
<1>1. \A y, n : OneMore(how, y, n) = WithState(y, r[Inputs[n]].state)
  BY DEF OneMore
<1>2. \A g : Is(g) <=> Turns(g, how, m, N)
  <2> DEFINE Adds(y, n) == WithState(y, r[Inputs[n]].state)
  <2>1. \A g : Is(g) <=> g = [k \in 0 .. N |-> IF k = 0 THEN m ELSE Adds(g[k - 1], k)]
    OBVIOUS
  <2>2. \A y, n : OneMore(how, y, n) = Adds(y, n)
    BY <1>1
  <2> HIDE DEF Is, how, N, Adds
  <2> QED
    BY <2>1, <2>2, Zenon DEF Turns
<1>3. N \in Nat /\ \A k \in 1 .. N : Inputs[k] \in Slots
  BY InputsFacts
<1>4. Is(a)
  <2>1. \E g : Is(g)
    <3> HIDE DEF Is, N
    <3> QED
      BY <1>2, <1>3, TurnsExist
  <2> HIDE DEF Is
  <2> QED
    BY <2>1, Zenon
<1>5. WithStates(m, r) = a[N]
  BY DEF WithStates
<1> HIDE DEF a, Is, how, N
<1>6. Turns(a, how, m, N)
  BY <1>2, <1>4
<1>7. /\ 0 \in 0 .. N /\ N \in 0 .. N /\ a[0] = m
      /\ \A k \in 1 .. N : a[k] = OneMore(how, a[k - 1], k) /\ k \in 0 .. N
  BY <1>3, <1>6, TurnsFacts
<1> DEFINE P == {k \in 0 .. N : StatesOk(a[k], matchkind)}
<1>8. 0 \in P
  BY <1>7
<1>9. ASSUME NEW k \in 1 .. N, k - 1 \in P PROVE k \in P
  <2>1. StatesOk(a[k - 1], matchkind)
    BY <1>9
  <2>2. a[k] = WithState(a[k - 1], r[Inputs[k]].state)
    BY <1>1, <1>7
  <2>3. StateOk(r[Inputs[k]].state, matchkind)
    BY <1>3
  <2>4. StatesOk(a[k], matchkind)
    BY <2>1, <2>2, <2>3, WithStateOk
  <2> QED
    BY <1>7, <2>4
<1> HIDE DEF P
<1>10. \A k \in 0 .. N : k \in P
  BY <1>3, <1>8, <1>9, Upward
<1> QED
  BY <1>5, <1>7, <1>10 DEF P

-----------------------------------------------------------------------------
(* The DFA's stack and marks keep within their bounds. *)

\* How high the stack and the marks got.
DFABounds(d) ==
    /\ {"matchkind", "nstack", "nmark"} \subseteq DOMAIN d
    /\ d.nstack \in Nat /\ d.nstack <= DFAStack(d.matchkind)
    /\ d.nmark \in Nat /\ d.nmark <= NMark(d.matchkind)

\* A search, in a state with room for its marks.
SearchOk(d) == DFABounds(d) /\ "s" \in DOMAIN d /\ StateOk(d.s, d.matchkind)

\* An export, with such states only.
ExportOk(d) ==
    /\ DFABounds(d) /\ {"m", "next"} \subseteq DOMAIN d
    /\ StatesOk(d.m, d.matchkind)
    /\ \E T : d.next \in Seq(T)

\* What a step returns is noted.
LEMMA HighOk ==
    ASSUME NEW d, SearchOk(d), NEW r, RunOk(r, d.matchkind)
    PROVE  SearchOk(High(d, r)) /\ High(d, r).matchkind = d.matchkind
<1> DEFINE h == High(d, r)
<1>1. /\ DOMAIN h = DOMAIN d /\ h.matchkind = d.matchkind /\ h.s = d.s
      /\ h.nstack \in {d.nstack, r.nstack} /\ h.nmark \in {d.nmark, r.nmark}
  BY DEF High, SearchOk, DFABounds
<1> HIDE DEF h
<1>2. SearchOk(h)
  BY <1>1 DEF SearchOk, DFABounds, RunOk
<1> QED
  BY <1>1, <1>2 DEF h

\* A state is entered.
LEMMA EntersOk ==
    ASSUME NEW d, SearchOk(d), NEW s, StateOk(s, d.matchkind), NEW p
    PROVE  SearchOk(Enters(d, s, p))
<1> DEFINE e == Enters(d, s, p)
<1>1. /\ DOMAIN e = DOMAIN d /\ e.matchkind = d.matchkind /\ e.s = s
      /\ e.nstack = d.nstack /\ e.nmark = d.nmark
  BY DEF Enters, SearchOk, DFABounds
<1> HIDE DEF e
<1>2. SearchOk(e)
  BY <1>1 DEF SearchOk, DFABounds
<1> QED
  BY <1>2 DEF e

\* Bytes are skipped.
LEMMA SkipsOk ==
    ASSUME NEW d, SearchOk(d), NEW q
    PROVE  /\ SearchOk([d EXCEPT !.p = q])
           /\ [d EXCEPT !.p = q].matchkind = d.matchkind
<1> DEFINE e == [d EXCEPT !.p = q]
<1>1. /\ DOMAIN e = DOMAIN d /\ e.matchkind = d.matchkind /\ e.s = d.s
      /\ e.nstack = d.nstack /\ e.nmark = d.nmark
  BY DEF SearchOk, DFABounds
<1> HIDE DEF e
<1>2. SearchOk(e)
  BY <1>1 DEF SearchOk, DFABounds
<1> QED
  BY <1>1, <1>2 DEF e

\* A byte leads to a state with room for its marks.
LEMMA AfterByteOk ==
    ASSUME SearchOk(dfa), NEW v, NEW q, NEW r, RunOk(r, dfa.matchkind), AfterByte(v, q, r)
    PROVE  SearchOk(dfa')
<1> DEFINE h == High(dfa, r)
           k == [h EXCEPT !.p = q + 1]
           d == Enters(k, r.state, q)
<1>1. dfa' = h \/ dfa' = d
  BY DEF AfterByte
<1>2. SearchOk(h) /\ h.matchkind = dfa.matchkind
  BY HighOk
<1> HIDE DEF h
<1>3. SearchOk(k) /\ k.matchkind = dfa.matchkind
  BY <1>2, SkipsOk
<1> HIDE DEF k
<1>4. SearchOk(d)
  BY <1>3, EntersOk DEF RunOk
<1> QED
  BY <1>1, <1>2, <1>4

\* So does the end of the text.
LEMMA AfterEndOk ==
    ASSUME SearchOk(dfa), NEW v, NEW r, RunOk(r, dfa.matchkind), AfterEnd(v, r)
    PROVE  SearchOk(dfa')
<1> DEFINE h == High(dfa, r)
<1>1. dfa' = Enters(h, r.state, v.to)
  BY DEF AfterEnd
<1>2. SearchOk(h) /\ h.matchkind = dfa.matchkind
  BY HighOk
<1> HIDE DEF h
<1> QED
  BY <1>1, <1>2, EntersOk DEF RunOk

\* A search begins in such a state.
LEMMA SearchFromOk ==
    ASSUME NEW r, NEW s, NEW v, NEW matchkind, NEW anchored, NEW endmatch, RunOk(r, matchkind)
    PROVE  SearchOk(SearchFrom(r, s, v, matchkind, anchored, endmatch))
<1> DEFINE d == SearchFrom(r, s, v, matchkind, anchored, endmatch)
<1>1. /\ {"matchkind", "nstack", "nmark", "s"} \subseteq DOMAIN d
      /\ d.matchkind = matchkind /\ d.s = r.state /\ d.nstack = r.nstack /\ d.nmark = r.nmark
  BY DEF SearchFrom
<1> HIDE DEF d
<1>2. SearchOk(d)
  BY <1>1 DEF SearchOk, DFABounds, RunOk
<1> QED
  BY <1>2 DEF d

\* The most of what was noted before and of what the steps of a row return.
LEMMA MostOf ==
    ASSUME NEW N \in Nat, NEW a \in Nat, a <= N, NEW f,
           \A b \in Slots : f[b] \in Nat /\ f[b] <= N
    PROVE  LET most == Max({a} \union {f[b] : b \in Slots}) IN most \in Nat /\ most <= N
<1> DEFINE S == {a} \union {f[b] : b \in Slots}
<1>1. a \in 0 .. N /\ \A b \in Slots : f[b] \in 0 .. N
  BY SMT
<1>2. S \in SUBSET (0 .. N) /\ S # {}
  BY <1>1
<1> HIDE DEF S
<1>3. Max(S) \in 0 .. N
  BY <1>2, MaxIsGreatest
<1>4. Max(S) \in Nat /\ Max(S) <= N
  BY <1>3, SMT
<1> QED
  BY <1>4 DEF S

\* A row of an export keeps it well.
LEMMA WithRowOk ==
    ASSUME IsFlat(prog), NEW d, ExportOk(d), NEW r,
           \A b \in Slots : RunOk(r[b], d.matchkind)
    PROVE  ExportOk(WithRow(d, r))
<1> DEFINE e == WithRow(d, r)
           m == WithStates(d.m, r)
           row == [b \in Slots |-> Number(m, r[b].state)]
           stacks == [b \in Slots |-> r[b].nstack]
           marks == [b \in Slots |-> r[b].nmark]
           nstack == Max({d.nstack} \union {stacks[b] : b \in Slots})
           nmark == Max({d.nmark} \union {marks[b] : b \in Slots})
<1>1. {r[b].nstack : b \in Slots} = {stacks[b] : b \in Slots}
      /\ {r[b].nmark : b \in Slots} = {marks[b] : b \in Slots}
  OBVIOUS
<1>2. e = [d EXCEPT !.m = m, !.next = Append(@, row),
                    !.nstack = Max({@} \union {r[b].nstack : b \in Slots}),
                    !.nmark = Max({@} \union {r[b].nmark : b \in Slots})]
  BY Zenon DEF WithRow, WithStates
<1>3. \A b \in Slots : /\ stacks[b] \in Nat /\ stacks[b] <= DFAStack(d.matchkind)
                       /\ marks[b] \in Nat /\ marks[b] <= NMark(d.matchkind)
                       /\ StateOk(r[b].state, d.matchkind)
  BY DEF RunOk
<1> HIDE DEF e, m, row, stacks, marks
<1>4. /\ DOMAIN e = DOMAIN d /\ e.m = m /\ e.next = Append(d.next, row)
      /\ e.nstack = nstack /\ e.nmark = nmark /\ e.matchkind = d.matchkind
  BY <1>1, <1>2 DEF ExportOk, DFABounds
<1>5. StatesOk(m, d.matchkind)
  BY <1>3, WithStatesOk DEF m, ExportOk
<1>6. DFAStack(d.matchkind) \in Nat /\ NMark(d.matchkind) \in Nat
  BY RoomFacts, SMT
<1>7. nstack \in Nat /\ nstack <= DFAStack(d.matchkind)
  BY <1>3, <1>6, MostOf DEF ExportOk, DFABounds
<1>8. nmark \in Nat /\ nmark <= NMark(d.matchkind)
  BY <1>3, <1>6, MostOf DEF ExportOk, DFABounds
<1> HIDE DEF nstack, nmark
<1>9. \E U : Append(d.next, row) \in Seq(U)
  <2>1. PICK T : d.next \in Seq(T)
    BY DEF ExportOk
  <2> DEFINE U == T \union {row}
  <2>2. T \in SUBSET U /\ row \in U
    OBVIOUS
  <2> HIDE DEF U
  <2>3. Append(d.next, row) \in Seq(U)
    BY <2>1, <2>2, SMT
  <2> QED
    BY <2>3
<1>10. ExportOk(e)
  BY <1>4, <1>5, <1>7, <1>8, <1>9 DEF ExportOk, DFABounds
<1> QED
  BY <1>10 DEF e

\* What was noted is within the bounds, and while a search or an export lasts, so are the
\* marks of its states.
DFAInv ==
    /\ dfa # Unset => DFABounds(dfa)
    /\ Searching("DFA") => SearchOk(dfa)
    /\ Searching("Export") => ExportOk(dfa)

\* Every step of a search of the DFA keeps it well.
LEMMA DFASearchesOk ==
    ASSUME IsFlat(prog), SearchInv, DFAInv, DFASearchesText
    PROVE  SearchOk(dfa') \/ (dfa' = Unset /\ answer' # Unset) \/ UNCHANGED <<dfa, searchVars>>
           \/ (UNCHANGED <<dfa, search>> /\ SearchOk(dfa))
<1>1. \A matchkind : \A s : StateOk(s, matchkind)
                              => \A c : RunOk(RunStateOnByte(s, c, matchkind), matchkind)
  BY RunStateOnByteOk
<1>2. CASE SearchDFA
  <2>1. dfa = Unset
    BY <1>2 DEF SearchDFA, Idle, NoSearch, SearchInv
  <2>2. NoneFound # Unset
    BY DFAAssumption
  <2>3. \A s, v, matchkind, anchored, endmatch :
            SearchOk(SearchFrom(StartState(anchored, StartFlags(v), matchkind),
                                s, v, matchkind, anchored, endmatch))
    BY StartStateOk, SearchFromOk
  <2>4. \/ answer' = NoneFound /\ UNCHANGED dfa
        \/ \E s, v, matchkind, anchored, endmatch :
              dfa' = SearchFrom(StartState(anchored, StartFlags(v), matchkind),
                                s, v, matchkind, anchored, endmatch)
    <3>1. PICK s \in DFASearches :
            LET v == View(s)
                endmatch == s.kind = "full" \/ (s.kind # "many" /\ prog.anchor_end)
                matchkind == IF s.kind # "many" /\ (endmatch \/ s.nmatch = 0)
                             THEN "longest" ELSE s.kind
                anchored == s.anchored \/ prog.anchor_start \/ s.kind = "full"
            IN IF ~Possible(v)
               THEN answer' = NoneFound /\ UNCHANGED dfa
               ELSE dfa' = SearchFrom(StartState(anchored, StartFlags(v), matchkind),
                                      s, v, matchkind, anchored, endmatch)
      BY <1>2, Zenon DEF SearchDFA
    <3> DEFINE v == View(s)
               endmatch == s.kind = "full" \/ (s.kind # "many" /\ prog.anchor_end)
               matchkind == IF s.kind # "many" /\ (endmatch \/ s.nmatch = 0)
                            THEN "longest" ELSE s.kind
               anchored == s.anchored \/ prog.anchor_start \/ s.kind = "full"
    <3>2. \/ answer' = NoneFound /\ UNCHANGED dfa
          \/ dfa' = SearchFrom(StartState(anchored, StartFlags(v), matchkind),
                               s, v, matchkind, anchored, endmatch)
      BY <3>1, Zenon
    <3> HIDE DEF v, endmatch, matchkind, anchored
    <3> QED
      BY <3>2
  <2> QED
    BY <2>1, <2>2, <2>3, <2>4
<1>3. CASE SpecialStart
  BY <1>3 DEF SpecialStart, DFAInv, Searching, Returns, Answers
<1>4. CASE DFAByte
  <2>1. SearchOk(dfa)
    BY <1>4 DEF DFAByte, DFAInv
  <2>2. \/ \E q : dfa' = [dfa EXCEPT !.p = q]
        \/ \E v, q, c : AfterByte(v, q, RunStateOnByte(dfa.s, c, dfa.matchkind))
    BY <1>4, Zenon DEF DFAByte
  <2>3. \A c : RunOk(RunStateOnByte(dfa.s, c, dfa.matchkind), dfa.matchkind)
    BY <1>1, <2>1 DEF SearchOk
  <2> QED
    BY <2>1, <2>2, <2>3, SkipsOk, AfterByteOk
<1>5. CASE DFAEnd
  <2>1. SearchOk(dfa)
    BY <1>5 DEF DFAEnd, DFAInv
  <2>2. \E v, c : AfterEnd(v, RunStateOnByte(dfa.s, c, dfa.matchkind))
    BY <1>5, Zenon DEF DFAEnd
  <2>3. \A c : RunOk(RunStateOnByte(dfa.s, c, dfa.matchkind), dfa.matchkind)
    BY <1>1, <2>1 DEF SearchOk
  <2> QED
    BY <2>1, <2>2, <2>3, AfterEndOk
<1> QED
  BY <1>2, <1>3, <1>4, <1>5 DEF DFASearchesText

\* Every step of the export of a DFA keeps it well.
LEMMA DFAIsExportedOk ==
    ASSUME IsFlat(prog), SearchInv, DFAInv, DFAIsExported
    PROVE  ExportOk(dfa') \/ (dfa' = Unset /\ answer' # Unset)
<1>1. CASE BuildAllStates
  <2>1. dfa = Unset
    BY <1>1 DEF BuildAllStates, Idle, NoSearch, SearchInv
  <2>2. NoStates # Unset
    BY DFAAssumption
  <2>3. PICK k : LET r == StartState(FALSE, BeginText, k) IN
                 \/ answer' = NoStates /\ UNCHANGED dfa
                 \/ dfa' = [m |-> <<r.state>>, next |-> <<>>, matchkind |-> k,
                            nstack |-> r.nstack, nmark |-> r.nmark]
    BY <1>1, Zenon DEF BuildAllStates
  <2> DEFINE r == StartState(FALSE, BeginText, k)
             d == [m |-> <<r.state>>, next |-> <<>>, matchkind |-> k,
                   nstack |-> r.nstack, nmark |-> r.nmark]
  <2>4. RunOk(r, k)
    BY StartStateOk
  <2>5. (answer' = NoStates /\ UNCHANGED dfa) \/ dfa' = d
    BY <2>3
  <2> HIDE DEF r
  <2>6. DFABounds(d) /\ {"m", "next"} \subseteq DOMAIN d
    BY <2>4 DEF DFABounds, RunOk
  <2>7. StatesOk(d.m, k)
    <3> DEFINE m == <<r.state>>
    <3>1. m \in Seq({r.state}) /\ \A n \in 1 .. Len(m) : m[n] = r.state
      BY SMT
    <3>2. d.m = m
      OBVIOUS
    <3> HIDE DEF m, d
    <3> QED
      BY <2>4, <3>1, <3>2 DEF StatesOk, RunOk
  <2>8. \E T : d.next \in Seq(T)
    <3>1. <<>> \in Seq({})
      BY SMT
    <3> QED
      BY <3>1
  <2>9. ExportOk(d)
    BY <2>6, <2>7, <2>8 DEF ExportOk
  <2> QED
    BY <2>1, <2>2, <2>5, <2>9
<1>2. CASE ExpandState
  <2> DEFINE n == Len(dfa.next) + 1
             r == [b \in Slots |-> RunStateOnByte(dfa.m[n], Input(b), dfa.matchkind)]
  <2>1. ExportOk(dfa) /\ Len(dfa.next) < Len(dfa.m) /\ dfa' = WithRow(dfa, r)
    BY <1>2 DEF ExpandState, DFAInv
  <2>2. n \in 1 .. Len(dfa.m)
    <3>1. Len(dfa.next) \in Nat /\ Len(dfa.m) \in Nat
      BY <2>1, LenProperties DEF ExportOk, StatesOk
    <3> QED
      BY <2>1, <3>1, SMT
  <2>3. StateOk(dfa.m[n], dfa.matchkind)
    BY <2>1, <2>2 DEF ExportOk, StatesOk
  <2>4. \A b \in Slots : RunOk(r[b], dfa.matchkind)
    BY <2>3, RunStateOnByteOk
  <2> HIDE DEF r
  <2> QED
    BY <2>1, <2>4, WithRowOk
<1>3. CASE Exported
  BY <1>3 DEF Exported, DFAInv
<1> QED
  BY <1>1, <1>2, <1>3 DEF DFAIsExported

\* Every step of the engines keeps the DFA within its bounds.
LEMMA DFAInvNext ==
    ASSUME SearchInv, DFAInv, FlatProg, [EnginesNext]_engineState
    PROVE  DFAInv'
<1>1. UNCHANGED prog => /\ \A d : DFABounds(d) => DFABounds(d)'
                        /\ \A d : SearchOk(d) => SearchOk(d)'
                        /\ \A d : ExportOk(d) => ExportOk(d)'
  <2> SUFFICES ASSUME UNCHANGED prog
               PROVE  /\ \A d : DFABounds(d) => DFABounds(d)'
                      /\ \A d : SearchOk(d) => SearchOk(d)'
                      /\ \A d : ExportOk(d) => ExportOk(d)'
    OBVIOUS
  <2>1. ProgSize' = ProgSize /\ Ids' = Ids /\ QIds' = QIds
        /\ \A ops : InstCount(ops)' = InstCount(ops)
    BY DEF ProgSize, Ids, QIds, InstCount
  <2>2. \A k : NMark(k)' = NMark(k) /\ DFAStack(k)' = DFAStack(k)
    BY <2>1 DEF NMark, DFAStack
  <2>3. \A k : MarksLoop(k)' = MarksLoop(k)
    BY <2>2 DEF MarksLoop
  <2>4. \A k : Spare(k)' = Spare(k)
    BY <2>3 DEF Spare
  <2>5. \A s, k : StateOk(s, k) => StateOk(s, k)'
    BY <2>1, <2>2, <2>4 DEF StateOk, StateInsts, Marks
  <2>6. \A d : DFABounds(d) => DFABounds(d)'
    BY <2>2 DEF DFABounds
  <2>7. \A m, k : StatesOk(m, k) => StatesOk(m, k)'
    BY <2>5 DEF StatesOk
  <2> QED
    BY <2>5, <2>6, <2>7 DEF SearchOk, ExportOk
<1>2. \A d : (SearchOk(d) \/ ExportOk(d)) => DFABounds(d)
  BY DEF SearchOk, ExportOk
<1>3. CASE DFASearchesText /\ Within("DFA")
  <2>1. UNCHANGED prog /\ stage = "flat"
    BY <1>3, DFASearchesTextFacts DEF vars, SearchInv
  <2>2. IsFlat(prog)
    BY <2>1 DEF FlatProg
  <2>3. search'.engine # "Export"
    BY <1>3 DEF Within
  <2>4. \/ SearchOk(dfa') \/ (dfa' = Unset /\ answer' # Unset)
        \/ UNCHANGED <<dfa, searchVars>> \/ (UNCHANGED <<dfa, search>> /\ SearchOk(dfa))
    BY <1>3, <2>2, DFASearchesOk
  <2>5. CASE SearchOk(dfa')
    BY <1>1, <1>2, <2>1, <2>3, <2>5 DEF DFAInv, Searching
  <2>6. CASE dfa' = Unset /\ answer' # Unset
    BY <2>6 DEF DFAInv, Searching
  <2>7. CASE UNCHANGED <<dfa, searchVars>>
    BY <1>1, <2>1, <2>7 DEF DFAInv, Searching, searchVars
  <2>8. CASE UNCHANGED <<dfa, search>> /\ SearchOk(dfa)
    BY <1>1, <1>2, <2>1, <2>3, <2>8 DEF DFAInv, Searching
  <2> QED
    BY <2>4, <2>5, <2>6, <2>7, <2>8
<1>4. CASE DFAIsExported /\ Within("Export")
  <2>1. UNCHANGED prog /\ stage = "flat"
    BY <1>4, DFAIsExportedFacts DEF vars, SearchInv
  <2>2. IsFlat(prog)
    BY <2>1 DEF FlatProg
  <2>3. search'.engine # "DFA"
    BY <1>4 DEF Within
  <2>4. ExportOk(dfa') \/ (dfa' = Unset /\ answer' # Unset)
    BY <1>4, <2>2, DFAIsExportedOk
  <2>5. CASE ExportOk(dfa')
    BY <1>1, <1>2, <2>1, <2>3, <2>5 DEF DFAInv, Searching
  <2>6. CASE dfa' = Unset /\ answer' # Unset
    BY <2>6 DEF DFAInv, Searching
  <2> QED
    BY <2>4, <2>5, <2>6
<1>5. CASE Aside
  <2>1. UNCHANGED dfa
    BY <1>5 DEF Aside
  <2>2. CASE search.engine \in {"DFA", "Export"} \/ dfa # Unset
    <3>1. stage = "flat" /\ search.engine \in {"DFA", "Export", "Library"}
      BY <2>2 DEF SearchInv
    <3>2. UNCHANGED prog
      BY <1>5, <3>1 DEF Aside, vars
    <3>3. UNCHANGED searchVars \/ search'.engine \in {"BitState", "Range", "Library"}
      BY <1>5 DEF Aside
    <3> QED
      BY <1>1, <2>1, <3>2, <3>3 DEF DFAInv, Searching, searchVars
  <2>3. CASE search.engine \notin {"DFA", "Export"} /\ dfa = Unset
    BY <1>5, <2>1, <2>3 DEF DFAInv, Aside, Searching, searchVars
  <2> QED
    BY <2>2, <2>3
<1>6. CASE UNCHANGED <<vars, dfa>> /\ (Within("NFA") \/ Within("OnePass"))
  <2>1. UNCHANGED prog /\ search'.engine \notin {"DFA", "Export"}
    BY <1>6 DEF vars, Within
  <2> QED
    BY <1>1, <1>6, <2>1 DEF DFAInv, Searching
<1> QED
  BY <1>3, <1>4, <1>5, <1>6, SearchStep DEF vars

\* Before anything is searched there is no DFA.
LEMMA InitDFA == EnginesInit => SearchInv /\ DFAInv
<1> SUFFICES ASSUME EnginesInit PROVE SearchInv /\ DFAInv
  OBVIOUS
<1>1. SearchInv
  BY InitSearch
<1>2. search.engine = "None"
  BY DEF EnginesInit, SearchInit, NoSearch
<1> QED
  BY <1>1, <1>2 DEF EnginesInit, DFAInit, DFAInv, Searching

\* The stack and the marks of the DFA's work queues are never too few, though a leftmost-
\* longest search loads its state twice and marks its .*? loop each time.
THEOREM SpecDFAStackFits == EnginesSpec /\ []FlatProg => []DFAStackFits
<1>1. SearchInv /\ DFAInv /\ FlatProg /\ [EnginesNext]_engineState => (SearchInv /\ DFAInv)'
  BY SearchStep, DFAInvNext
<1>2. DFAInv => DFAStackFits
  BY DEF DFAInv, DFABounds, DFAStackFits
<1>3. EnginesSpec => EnginesInit /\ [][EnginesNext]_engineState
  BY DEF EnginesSpec, engineState
<1> QED
  BY <1>1, <1>2, <1>3, InitDFA, PTL

\* No engine writes beyond the end of a stack that it sized by counting the instructions of
\* a flattened program.
THEOREM SpecStacksFit == EnginesSpec /\ []FlatProg => []StacksFit
<1>1. FlatProg /\ NFAStackFits /\ OnePassStackFits /\ DFAStackFits => StacksFit
  BY DEF StacksFit
<1> QED
  BY <1>1, SpecNFAStackFits, SpecOnePassStackFits, SpecDFAStackFits, PTL

=============================================================================
