--------------------------- MODULE CompilerProofs ---------------------------
(***************************************************************************)
(* No hole of a program is lost, shared or left open.                      *)
(*                                                                         *)
(* The argument.  A fragment stands on the instructions that it reaches and*)
(* those on its list, its foot.  The feet of fragments that wait for their *)
(* parents have nothing in common but the fail instruction, so patching the*)
(* list of one leaves the others alone.  An operation changes the feet of  *)
(* its operands only, and leaves a fragment that stands on them and on new *)
(* instructions.                                                           *)
(***************************************************************************)
EXTENDS Compiler, OrderLemmas

\* An instruction, of which only an Alt has a second field to be patched.
IsInst(i) ==
    /\ i = [f \in DOMAIN i |-> i[f]] /\ {"op", "out", "out1"} \subseteq DOMAIN i
    /\ i.op \notin Alts => i.out1 # Hole

\* What inst_ is from the first allocation on.
IsProgram(insts) ==
    /\ Cardinality(DOMAIN insts) \in Nat \ {0}
    /\ insts = [i \in 0 .. Cardinality(DOMAIN insts) - 1 |-> insts[i]]
    /\ insts[0] = Fail
    /\ \A i \in DOMAIN insts :
        IsInst(insts[i]) /\ {insts[i].out, insts[i].out1} \subseteq DOMAIN insts \union {Hole}

Leads(insts, T) == \A i \in T : Outs(insts[i]) \subseteq T \union {Hole}

Foot(insts, f) == Reach(insts, {f.begin}) \union {h[1] : h \in f.end}

\* A fragment of a program.
IsFragment(insts, f) ==
    /\ f = [begin |-> f.begin, end |-> f.end, nullable |-> f.nullable]
    /\ f.begin \in DOMAIN insts
    /\ f.end \subseteq HolesIn(insts, DOMAIN insts)
    /\ f.begin # 0 => f.end = HolesIn(insts, Reach(insts, {f.begin}))

\* One with an end to be patched, and one that ends with its matches.
Loose(f) == f.begin # 0 => f.end # {}
Ended(f) == f.begin # 0 => f.end = {}

\* Fragments that do not touch.
Separate(insts, f, g) == Foot(insts, f) \intersect Foot(insts, g) \subseteq {0}

FragsInv ==
    /\ frags \in Seq({frags[k] : k \in DOMAIN frags})
    /\ \A k \in DOMAIN frags :
        /\ IsFragment(inst, frags[k].frag)
        /\ IF frags[k].ids = {} THEN Loose(frags[k].frag)
           ELSE Ended(frags[k].frag) /\ IsSet(kind)
    /\ \A j, k \in DOMAIN frags : j # k => Separate(inst, frags[j].frag, frags[k].frag)

Inv ==
    /\ family \in Families /\ kind \in family.kinds /\ failed \in BOOLEAN
    /\ stage = "walk" /\ ~failed => IsProgram(inst) /\ FragsInv
    /\ prog # <<>> =>
        HolesIn(prog.inst, Reach(prog.inst, {prog.start, prog.start_unanchored})) = {}
-----------------------------------------------------------------------------
(* What can be reached *)

LEMMA ProgramFacts ==
    ASSUME NEW insts, IsProgram(insts)
    PROVE  /\ Cardinality(DOMAIN insts) \in Nat /\ 0 \in DOMAIN insts
           /\ DOMAIN insts = 0 .. Cardinality(DOMAIN insts) - 1
           /\ IsFiniteSet(DOMAIN insts) /\ DOMAIN insts \in SUBSET Nat /\ Hole \notin DOMAIN insts
           /\ insts[0] = Fail
           /\ \A i \in DOMAIN insts : IsInst(insts[i])
           /\ \A i \in DOMAIN insts : insts[i].out \in DOMAIN insts \union {Hole}
           /\ \A i \in DOMAIN insts : insts[i].out1 \in DOMAIN insts \union {Hole}
           /\ \A i \in DOMAIN insts : Outs(insts[i]) \subseteq DOMAIN insts \union {Hole}
<1> DEFINE n == Cardinality(DOMAIN insts)
<1>1. n \in Nat \ {0} /\ insts = [i \in 0 .. n - 1 |-> insts[i]] /\ insts[0] = Fail
  BY DEF IsProgram
<1>2. DOMAIN insts = 0 .. n - 1
  <2> HIDE DEF n
  <2> QED
    BY <1>1
<1>3. 0 \in 0 .. n - 1 /\ IsFiniteSet(0 .. n - 1) /\ 0 .. n - 1 \in SUBSET Nat
      /\ Hole \notin 0 .. n - 1
  <2>1. n \in Nat /\ 0 \in 0 .. n - 1 /\ 0 .. n - 1 \in SUBSET Nat /\ Hole \notin 0 .. n - 1
    <3> HIDE DEF n
    <3> QED
      BY <1>1, SMT DEF Hole
  <2> HIDE DEF n
  <2> QED
    BY <2>1, CountFacts
<1>4. \A i \in DOMAIN insts :
        /\ IsInst(insts[i])
        /\ insts[i].out \in DOMAIN insts \union {Hole}
        /\ insts[i].out1 \in DOMAIN insts \union {Hole}
  BY DEF IsProgram
<1>5. \A i \in DOMAIN insts : Outs(insts[i]) \subseteq DOMAIN insts \union {Hole}
  BY <1>4 DEF Outs
<1> QED
  BY <1>1, <1>2, <1>3, <1>4, <1>5

\* Reach is the least set that has S and whatever its instructions lead to.
LEMMA ReachIsLeast ==
    ASSUME NEW insts, IsProgram(insts), NEW S \in SUBSET DOMAIN insts
    PROVE  /\ S \subseteq Reach(insts, S) /\ Reach(insts, S) \subseteq DOMAIN insts
           /\ Leads(insts, Reach(insts, S))
           /\ \A T \in SUBSET DOMAIN insts :
                S \subseteq T /\ Leads(insts, T) => Reach(insts, S) \subseteq T
<1> DEFINE n == Cardinality(DOMAIN insts)
           D == DOMAIN insts
           After(R) == R \union ((UNION {Outs(insts[i]) : i \in R}) \ {Hole})
           Begins(g, m) == /\ g = [k \in 0 .. m |-> g[k]]
                           /\ g[0] = S /\ \A k \in 1 .. m : g[k] = After(g[k - 1])
           IsReach(g) == g = [k \in 0 .. n |-> IF k = 0 THEN S ELSE After(g[k - 1])]
<1>1. /\ n \in Nat /\ IsFiniteSet(D)
      /\ \A i \in D : Outs(insts[i]) \subseteq D \union {Hole}
  BY ProgramFacts
<1>2. \A R \in SUBSET D : After(R) \in SUBSET D /\ R \subseteq After(R)
  BY <1>1
<1>3. \A R \in SUBSET D : After(R) = R => Leads(insts, R)
  BY DEF Leads
<1>4. \A R, T \in SUBSET D : R \subseteq T /\ Leads(insts, T) => After(R) \subseteq T
  BY DEF Leads
<1> HIDE DEF n, After
<1>5. \A m \in 0 .. n : \E g : Begins(g, m)
  <2> DEFINE P == {m \in 0 .. n : \E g : Begins(g, m)}
  <2>1. 0 \in P
    <3> DEFINE g == [k \in 0 .. 0 |-> S]
    <3>1. 0 \in 0 .. 0 /\ 1 .. 0 = {} /\ 0 \in 0 .. n
      BY <1>1, SMT
    <3>2. g = [k \in 0 .. 0 |-> g[k]] /\ g[0] = S
      BY <3>1
    <3> HIDE DEF g
    <3>3. Begins(g, 0)
      BY <3>1, <3>2
    <3> QED
      BY <3>1, <3>3
  <2>2. ASSUME NEW m \in 1 .. n, m - 1 \in P PROVE m \in P
    <3>1. PICK g : Begins(g, m - 1)
      BY <2>2
    <3> DEFINE f == [k \in 0 .. m |-> IF k = m THEN After(g[m - 1]) ELSE g[k]]
    <3>2. /\ m \in Nat /\ m \in 0 .. n /\ 0 \in 0 .. m /\ 0 # m /\ m \in 0 .. m
          /\ \A k \in 1 .. m : /\ k \in 0 .. m /\ k - 1 \in 0 .. m /\ k - 1 # m
                               /\ (k # m => k \in 1 .. m - 1)
      BY <1>1, SMT
    <3>3. f[0] = S
      BY <3>1, <3>2
    <3>4. ASSUME NEW k \in 1 .. m PROVE f[k] = After(f[k - 1])
      <4>1. f[k - 1] = g[k - 1]
        BY <3>2
      <4>2. CASE k = m
        BY <3>2, <4>1, <4>2
      <4>3. CASE k # m
        <5>1. f[k] = g[k] /\ g[k] = After(g[k - 1])
          BY <3>1, <3>2, <4>3
        <5> QED
          BY <4>1, <5>1
      <4> QED
        BY <4>2, <4>3
    <3>5. f = [k \in 0 .. m |-> f[k]]
      OBVIOUS
    <3> HIDE DEF f
    <3>6. Begins(f, m)
      BY <3>3, <3>4, <3>5
    <3> QED
      BY <3>2, <3>6
  <2> HIDE DEF P
  <2>3. \A m \in 0 .. n : m \in P
    BY <1>1, <2>1, <2>2, Upward
  <2> QED
    BY <2>3 DEF P
<1>6. \E g : IsReach(g)
  <2>1. n \in 0 .. n
    BY <1>1, SMT
  <2>2. PICK g : Begins(g, n)
    BY <1>5, <2>1
  <2>3. \A k \in 0 .. n : k # 0 => k \in 1 .. n
    BY <1>1, SMT
  <2>4. \A k \in 0 .. n : g[k] = IF k = 0 THEN S ELSE After(g[k - 1])
    BY <2>2, <2>3
  <2> QED
    BY <2>2, <2>4
<1>7. PICK g : IsReach(g) /\ Reach(insts, S) = g[n]
  <2> DEFINE c == CHOOSE g : IsReach(g)
  <2>1. IsReach(c)
    BY <1>6
  <2>2. Reach(insts, S) = c[n]
    BY DEF Reach, After, n
  <2> HIDE DEF c
  <2> QED
    BY <2>1, <2>2
<1>8. /\ 0 \in 0 .. n /\ n \in 0 .. n
      /\ \A k \in 1 .. n : k \in 0 .. n /\ k - 1 \in 0 .. n /\ k # 0 /\ k - 1 \in Nat /\ k \in Nat
  BY <1>1, SMT
<1>9. g[0] = S /\ \A k \in 1 .. n : g[k] = After(g[k - 1])
  BY <1>7, <1>8
<1>10. \A k \in 0 .. n : g[k] \in SUBSET D /\ S \subseteq g[k]
  <2> DEFINE P == {k \in 0 .. n : g[k] \in SUBSET D /\ S \subseteq g[k]}
  <2>1. 0 \in P
    BY <1>8, <1>9
  <2>2. \A k \in 1 .. n : k - 1 \in P => k \in P
    BY <1>2, <1>8, <1>9
  <2> HIDE DEF P
  <2>3. \A k \in 0 .. n : k \in P
    BY <1>1, <2>1, <2>2, Upward
  <2> QED
    BY <2>3 DEF P
<1>11. ASSUME NEW T \in SUBSET D, S \subseteq T, Leads(insts, T)
       PROVE  \A k \in 0 .. n : g[k] \subseteq T
  <2> DEFINE P == {k \in 0 .. n : g[k] \subseteq T}
  <2>1. 0 \in P
    BY <1>8, <1>9, <1>11
  <2>2. \A k \in 1 .. n : k - 1 \in P => k \in P
    BY <1>4, <1>8, <1>9, <1>10, <1>11
  <2> HIDE DEF P
  <2>3. \A k \in 0 .. n : k \in P
    BY <1>1, <2>1, <2>2, Upward
  <2> QED
    BY <2>3 DEF P
<1>12. \A k \in 0 .. n : IsFiniteSet(g[k]) /\ Cardinality(g[k]) \in Nat
  BY <1>1, <1>10, FS_Subset, FS_CardinalityType
<1>13. \A k \in 0 .. n : After(g[k]) = g[k] \/ Cardinality(g[k]) >= k
  <2> DEFINE P == {k \in 0 .. n : After(g[k]) = g[k] \/ Cardinality(g[k]) >= k}
  <2>1. 0 \in P
    BY <1>8, <1>12, SMT
  <2>2. ASSUME NEW k \in 1 .. n, k - 1 \in P PROVE k \in P
    <3>1. CASE After(g[k - 1]) = g[k - 1]
      <4>1. After(g[k]) = g[k]
        BY <1>9, <3>1
      <4> QED
        BY <1>8, <4>1
    <3>2. CASE After(g[k - 1]) # g[k - 1]
      <4>1. /\ g[k - 1] \subseteq g[k] /\ g[k - 1] # g[k] /\ IsFiniteSet(g[k])
            /\ Cardinality(g[k]) \in Nat /\ Cardinality(g[k - 1]) \in Nat
        BY <1>2, <1>8, <1>9, <1>10, <1>12, <3>2
      <4>2. /\ Cardinality(g[k - 1]) <= Cardinality(g[k])
            /\ Cardinality(g[k - 1]) # Cardinality(g[k])
        BY <4>1, FS_Subset
      <4>3. Cardinality(g[k - 1]) >= k - 1
        BY <2>2, <3>2
      <4>4. Cardinality(g[k]) >= k
        BY <1>8, <4>1, <4>2, <4>3, SMT
      <4> QED
        BY <1>8, <4>4
    <3> QED
      BY <3>1, <3>2
  <2> HIDE DEF P
  <2>3. \A k \in 0 .. n : k \in P
    BY <1>1, <2>1, <2>2, Upward
  <2> QED
    BY <2>3 DEF P
<1>14. Leads(insts, g[n])
  <2>1. CASE After(g[n]) = g[n]
    BY <1>3, <1>8, <1>10, <2>1
  <2>2. CASE Cardinality(g[n]) >= n
    <3>1. Cardinality(g[n]) <= Cardinality(D) /\ (Cardinality(g[n]) = Cardinality(D) => g[n] = D)
      BY <1>1, <1>8, <1>10, FS_Subset
    <3>2. g[n] = D
      BY <1>1, <1>8, <1>12, <2>2, <3>1, SMT DEF n
    <3> QED
      BY <1>1, <3>2 DEF Leads
  <2> QED
    BY <1>8, <1>13, <2>1, <2>2
<1> QED
  BY <1>7, <1>8, <1>10, <1>11, <1>14

\* How to find out what can be reached.
LEMMA ReachIs ==
    ASSUME NEW insts, IsProgram(insts), NEW R \in SUBSET DOMAIN insts, NEW x \in R,
           Leads(insts, R),
           \A T \in SUBSET DOMAIN insts : x \in T /\ Leads(insts, T) => R \subseteq T
    PROVE  Reach(insts, {x}) = R
<1>1. {x} \in SUBSET DOMAIN insts /\ {x} \subseteq R
  OBVIOUS
<1>2. /\ x \in Reach(insts, {x}) /\ Reach(insts, {x}) \in SUBSET DOMAIN insts
      /\ Leads(insts, Reach(insts, {x}))
      /\ Reach(insts, {x}) \subseteq R
  BY <1>1, ReachIsLeast
<1> QED
  BY <1>2

\* From one instruction.
LEMMA ReachOne ==
    ASSUME NEW insts, IsProgram(insts), NEW x \in DOMAIN insts
    PROVE  /\ x \in Reach(insts, {x}) /\ Reach(insts, {x}) \in SUBSET DOMAIN insts
           /\ Leads(insts, Reach(insts, {x}))
           /\ \A T \in SUBSET DOMAIN insts :
                x \in T /\ Leads(insts, T) => Reach(insts, {x}) \subseteq T
<1>1. {x} \in SUBSET DOMAIN insts
  OBVIOUS
<1>2. \A T \in SUBSET DOMAIN insts : x \in T => {x} \subseteq T
  OBVIOUS
<1> QED
  BY <1>1, <1>2, ReachIsLeast

\* From the fail instruction nothing else.
LEMMA ReachFail ==
    ASSUME NEW insts, IsProgram(insts)
    PROVE  Reach(insts, {0}) = {0} /\ HolesIn(insts, {0}) = {}
<1>1. 0 \in DOMAIN insts /\ insts[0] = Fail
  BY ProgramFacts
<1>2. Fail.op = "Fail" /\ Fail.out = 0 /\ Fail.out1 = 0
  BY DEF Fail, Inst
<1>3. Outs(insts[0]) = {0}
  BY <1>1, <1>2 DEF Outs, Alts
<1>4. Leads(insts, {0})
  BY <1>3 DEF Leads
<1>5. Reach(insts, {0}) = {0}
  BY <1>1, <1>4, ReachIs
<1>6. HolesIn(insts, {0}) = {}
  BY <1>1, <1>2 DEF HolesIn, Hole
<1> QED
  BY <1>5, <1>6

\* What can be reached depends on nothing else.
LEMMA ReachLocal ==
    ASSUME NEW old, IsProgram(old), NEW new, IsProgram(new), NEW x \in DOMAIN old,
           Reach(old, {x}) \subseteq DOMAIN new,
           \A i \in Reach(old, {x}) : new[i] = old[i]
    PROVE  /\ Reach(new, {x}) = Reach(old, {x})
           /\ HolesIn(new, Reach(new, {x})) = HolesIn(old, Reach(old, {x}))
<1> DEFINE R == Reach(old, {x})
<1>1. x \in R /\ R \in SUBSET DOMAIN old /\ Leads(old, R)
      /\ \A T \in SUBSET DOMAIN old : x \in T /\ Leads(old, T) => R \subseteq T
  BY ReachOne
<1>2. R \in SUBSET DOMAIN new /\ \A i \in R : new[i] = old[i]
  OBVIOUS
<1> HIDE DEF R
<1>3. Leads(new, R)
  BY <1>1, <1>2 DEF Leads
<1>4. ASSUME NEW T \in SUBSET DOMAIN new, x \in T, Leads(new, T) PROVE R \subseteq T
  <2>1. R \intersect T \in SUBSET DOMAIN old
    BY <1>1
  <2>2. Leads(old, R \intersect T)
    <3> SUFFICES ASSUME NEW i \in R \intersect T
                 PROVE  Outs(old[i]) \subseteq (R \intersect T) \union {Hole}
      BY DEF Leads
    <3>1. Outs(old[i]) \subseteq R \union {Hole} /\ Outs(new[i]) \subseteq T \union {Hole}
      BY <1>1, <1>4 DEF Leads
    <3>2. new[i] = old[i]
      BY <1>2
    <3> QED
      BY <3>1, <3>2
  <2>3. R \subseteq R \intersect T
    BY <1>1, <1>4, <2>1, <2>2
  <2> QED
    BY <2>3
<1>5. Reach(new, {x}) = R
  BY <1>1, <1>2, <1>3, <1>4, ReachIs
<1>6. HolesIn(new, R) = HolesIn(old, R)
  BY <1>2 DEF HolesIn
<1> QED
  BY <1>5, <1>6 DEF R

-----------------------------------------------------------------------------
(* Holes *)

LEMMA HolesFacts ==
    ASSUME NEW insts, IsProgram(insts), NEW S \in SUBSET DOMAIN insts
    PROVE  /\ HolesIn(insts, S) \subseteq HolesIn(insts, DOMAIN insts)
           /\ \A h \in HolesIn(insts, DOMAIN insts) :
                /\ h[1] \in DOMAIN insts \ {0}
                /\ h \in HolesIn(insts, S) <=> h[1] \in S
                /\ \/ h = <<h[1], "out">> /\ insts[h[1]].out = Hole
                   \/ /\ h = <<h[1], "out1">> /\ insts[h[1]].out1 = Hole
                      /\ insts[h[1]].op \in Alts
<1> DEFINE D == DOMAIN insts
<1>1. HolesIn(insts, S) \subseteq HolesIn(insts, D)
  BY DEF HolesIn
<1>2. ASSUME NEW h \in HolesIn(insts, D)
      PROVE  /\ h[1] \in D /\ (h \in HolesIn(insts, S) <=> h[1] \in S)
             /\ \/ h = <<h[1], "out">> /\ insts[h[1]].out = Hole
                \/ h = <<h[1], "out1">> /\ insts[h[1]].out1 = Hole
  <2>1. \/ \E i \in D : h = <<i, "out">> /\ insts[i].out = Hole
        \/ \E i \in D : h = <<i, "out1">> /\ insts[i].out1 = Hole
    BY DEF HolesIn
  <2> QED
    BY <2>1 DEF HolesIn
<1>3. ASSUME NEW h \in HolesIn(insts, D) PROVE h[1] # 0
  <2>1. 0 \in D
    BY ProgramFacts
  <2>2. {0} \in SUBSET D
    BY <2>1
  <2>3. h \in HolesIn(insts, {0}) <=> h[1] \in {0}
    <3>1. \/ \E i \in D : h = <<i, "out">> /\ insts[i].out = Hole
          \/ \E i \in D : h = <<i, "out1">> /\ insts[i].out1 = Hole
      BY DEF HolesIn
    <3> QED
      BY <3>1, <2>1 DEF HolesIn
  <2> QED
    BY <2>3, ReachFail
<1>4. ASSUME NEW i \in D, insts[i].out1 = Hole PROVE insts[i].op \in Alts
  <2>1. IsInst(insts[i])
    BY ProgramFacts
  <2> QED
    BY <1>4, <2>1 DEF IsInst
<1> QED
  BY <1>1, <1>2, <1>3, <1>4

LEMMA HolesUnion ==
    ASSUME NEW insts, NEW S, NEW T
    PROVE  HolesIn(insts, S \union T) = HolesIn(insts, S) \union HolesIn(insts, T)
BY DEF HolesIn

\* An instruction whose fields are patched.
Redirected(i, a, b) == [i EXCEPT !.out = a, !.out1 = b]

LEMMA ExceptFacts ==
    ASSUME NEW i, IsInst(i), NEW a, NEW b, i.op \in Alts \/ b # Hole,
           NEW r, r = Redirected(i, a, b)
    PROVE  /\ IsInst(r) /\ r.op = i.op /\ r.out = a /\ r.out1 = b
           /\ a = i.out /\ b = i.out1 => r = i
<1>1. DOMAIN r = DOMAIN i /\ r = [f \in DOMAIN r |-> r[f]]
  BY DEF Redirected
<1>2. r.op = i.op /\ r.out = a /\ r.out1 = b
  BY DEF IsInst, Redirected
<1>3. IsInst(r)
  BY <1>1, <1>2 DEF IsInst
<1>4. ASSUME a = i.out, b = i.out1 PROVE r = i
  <2>1. \A f \in DOMAIN i : r[f] = i[f]
    BY <1>4 DEF Redirected
  <2>2. i = [f \in DOMAIN i |-> i[f]]
    BY DEF IsInst
  <2> QED
    BY <1>1, <2>1, <2>2
<1> QED
  BY <1>2, <1>3, <1>4

\* What becomes of a program whose holes are patched with q.
Rewired(old, new, holes, q) ==
    /\ IsProgram(new) /\ DOMAIN new = DOMAIN old
    /\ \A i \in DOMAIN old : (\A h \in holes : h[1] # i) => new[i] = old[i]
    /\ \A T \in SUBSET DOMAIN old :
        /\ Leads(new, T) => Leads(old, T) /\ ((\E h \in holes : h[1] \in T) => q \in T)
        /\ Leads(old, T) /\ q \in T => Leads(new, T)
    /\ \A S \in SUBSET DOMAIN old : HolesIn(new, S) = HolesIn(old, S) \ holes

LEMMA PatchFacts ==
    ASSUME NEW insts, IsProgram(insts), NEW holes,
           holes \subseteq HolesIn(insts, DOMAIN insts), NEW q \in DOMAIN insts
    PROVE  Rewired(insts, Patch(insts, holes, q), holes, q)
<1> DEFINE new == Patch(insts, holes, q)
           D == DOMAIN insts
           first(i) == IF <<i, "out">> \in holes THEN q ELSE insts[i].out
           second(i) == IF <<i, "out1">> \in holes THEN q ELSE insts[i].out1
<1>1. /\ D = 0 .. Cardinality(D) - 1 /\ Cardinality(D) \in Nat \ {0}
      /\ 0 \in D /\ Hole \notin D /\ q # Hole /\ insts[0] = Fail
      /\ \A i \in D : /\ IsInst(insts[i])
                      /\ insts[i].out \in D \union {Hole} /\ insts[i].out1 \in D \union {Hole}
  BY ProgramFacts DEF IsProgram
<1>2. D \in SUBSET D
  OBVIOUS
<1>3. \A h \in holes : /\ h[1] \in D \ {0}
                       /\ \/ h = <<h[1], "out">> /\ insts[h[1]].out = Hole
                          \/ /\ h = <<h[1], "out1">> /\ insts[h[1]].out1 = Hole
                             /\ insts[h[1]].op \in Alts
  BY <1>2, HolesFacts
<1>4. new = [i \in D |-> [insts[i] EXCEPT !.out = first(i), !.out1 = second(i)]]
  BY DEF Patch
<1>5. ASSUME NEW i \in D
      PROVE  /\ IsInst(new[i]) /\ new[i].op = insts[i].op
             /\ new[i].out = first(i) /\ new[i].out1 = second(i)
             /\ first(i) \in D \union {Hole} /\ second(i) \in D \union {Hole}
             /\ i \notin {h[1] : h \in holes} => new[i] = insts[i]
  <2> DEFINE a == first(i)
             b == second(i)
             old == insts[i]
  <2>1. new[i] = Redirected(insts[i], a, b)
    BY <1>4 DEF Redirected
  <2>2. IsInst(insts[i]) /\ insts[i].out \in D \union {Hole} /\ insts[i].out1 \in D \union {Hole}
    BY <1>1
  <2>3. insts[i].op \in Alts \/ b # Hole
    BY <1>1, <2>2 DEF IsInst
  <2>4. i \notin {h[1] : h \in holes} => a = insts[i].out /\ b = insts[i].out1
    <3>1. <<i, "out">>[1] = i /\ <<i, "out1">>[1] = i
      OBVIOUS
    <3> QED
      BY <3>1
  <2>5. a \in D \union {Hole} /\ b \in D \union {Hole}
    BY <2>2
  <2> HIDE DEF a, b, new, old
  <2>6. IsInst(old) /\ (old.op \in Alts \/ b # Hole)
    BY <2>2, <2>3 DEF old
  <2>8. new[i] = Redirected(old, a, b)
    BY <2>1 DEF old
  <2>9. /\ IsInst(new[i]) /\ new[i].op = old.op /\ new[i].out = a /\ new[i].out1 = b
        /\ a = old.out /\ b = old.out1 => new[i] = old
    BY <2>6, <2>8, ExceptFacts
  <2> QED
    BY <2>4, <2>5, <2>9 DEF a, b, old
<1>6. DOMAIN new = D /\ new = [i \in D |-> new[i]]
  BY <1>4
<1> HIDE DEF new, first, second
<1>7. IsProgram(new)
  <2>1. new[0] = Fail
    <3>1. 0 \in D /\ 0 \notin {h[1] : h \in holes}
      BY <1>1, <1>3
    <3> QED
      BY <1>1, <1>5, <3>1
  <2>2. /\ Cardinality(DOMAIN new) \in Nat \ {0}
        /\ new = [i \in 0 .. Cardinality(DOMAIN new) - 1 |-> new[i]]
    BY <1>1, <1>6
  <2>3. ASSUME NEW i \in DOMAIN new
        PROVE  IsInst(new[i]) /\ {new[i].out, new[i].out1} \subseteq DOMAIN new \union {Hole}
    <3>1. /\ i \in D /\ IsInst(new[i]) /\ new[i].out \in D \union {Hole}
          /\ new[i].out1 \in D \union {Hole}
      BY <1>5, <1>6
    <3> QED
      BY <1>6, <3>1
  <2> QED
    BY <2>1, <2>2, <2>3 DEF IsProgram
<1>8. ASSUME NEW i \in D, NEW T \in SUBSET D, Outs(new[i]) \subseteq T \union {Hole}
      PROVE  Outs(insts[i]) \subseteq T \union {Hole}
  <2>1. <<i, "out">> \in holes => insts[i].out = Hole
    BY <1>3
  <2>2. <<i, "out1">> \in holes => insts[i].out1 = Hole
    BY <1>3
  <2>3. new[i].op = insts[i].op /\ new[i].out = first(i) /\ new[i].out1 = second(i)
    BY <1>5
  <2>4. insts[i].out = first(i) \/ insts[i].out = Hole
    BY <2>1 DEF first
  <2>5. insts[i].out1 = second(i) \/ insts[i].out1 = Hole
    BY <2>2 DEF second
  <2> QED
    BY <1>8, <2>3, <2>4, <2>5 DEF Outs
<1>9. ASSUME NEW T \in SUBSET D, Leads(new, T)
      PROVE  Leads(insts, T) /\ ((\E h \in holes : h[1] \in T) => q \in T)
  <2>1. Leads(insts, T)
    BY <1>8, <1>9 DEF Leads
  <2>2. ASSUME NEW h \in holes, h[1] \in T PROVE q \in T
    <3> DEFINE i == h[1]
    <3>1. i \in D /\ Outs(new[i]) \subseteq T \union {Hole}
      BY <1>9, <2>2 DEF Leads
    <3>2. CASE h = <<i, "out">>
      <4>1. new[i].out = q
        <5>1. <<i, "out">> \in holes
          BY <3>2
        <5>2. first(i) = q /\ new[i].out = first(i)
          BY <1>5, <3>1, <5>1 DEF first
        <5> QED
          BY <5>2
      <4>2. q \in Outs(new[i])
        BY <4>1 DEF Outs
      <4> QED
        BY <1>1, <3>1, <4>2
    <3>3. CASE h = <<i, "out1">> /\ insts[i].op \in Alts
      <4>1. new[i].out1 = q /\ new[i].op \in Alts
        <5>1. <<i, "out1">> \in holes
          BY <3>3
        <5>2. second(i) = q /\ new[i].out1 = second(i) /\ new[i].op = insts[i].op
          BY <1>5, <3>1, <5>1 DEF second
        <5> QED
          BY <3>3, <5>2
      <4>2. q \in Outs(new[i])
        BY <4>1 DEF Outs
      <4> QED
        BY <1>1, <3>1, <4>2
    <3>4. \/ h = <<h[1], "out">>
          \/ h = <<h[1], "out1">> /\ insts[h[1]].op \in Alts
      BY <1>3
    <3> QED
      BY <3>2, <3>3, <3>4
  <2> QED
    BY <2>1, <2>2
<1>10. ASSUME NEW T \in SUBSET D, Leads(insts, T), q \in T PROVE Leads(new, T)
  <2> SUFFICES ASSUME NEW i \in T PROVE Outs(new[i]) \subseteq T \union {Hole}
    BY DEF Leads
  <2>1. Outs(insts[i]) \subseteq T \union {Hole}
    BY <1>10 DEF Leads
  <2>2. new[i].op = insts[i].op /\ new[i].out = first(i) /\ new[i].out1 = second(i)
    BY <1>5
  <2>3. first(i) \in {q, insts[i].out} /\ second(i) \in {q, insts[i].out1}
    BY DEF first, second
  <2> QED
    BY <1>10, <2>1, <2>2, <2>3 DEF Outs
<1>11. ASSUME NEW S \in SUBSET D PROVE HolesIn(new, S) = HolesIn(insts, S) \ holes
  <2>1. \A i \in S : new[i].out = Hole <=> insts[i].out = Hole /\ <<i, "out">> \notin holes
    BY <1>1, <1>5 DEF first
  <2>2. \A i \in S : new[i].out1 = Hole <=> insts[i].out1 = Hole /\ <<i, "out1">> \notin holes
    BY <1>1, <1>5 DEF second
  <2> QED
    BY <2>1, <2>2 DEF HolesIn
<1> QED
  <2>1. new = Patch(insts, holes, q)
    BY DEF new
  <2>2. \A i \in D : (\A h \in holes : h[1] # i) => new[i] = insts[i]
    BY <1>5
  <2>3. Rewired(insts, new, holes, q)
    BY <1>6, <1>7, <1>9, <1>10, <1>11, <2>2 DEF Rewired
  <2> QED
    BY <2>1, <2>3


-----------------------------------------------------------------------------
(* What an operation does *)

\* The record that the operations take and leave.
IsCompiler(c) ==
    /\ c = [inst |-> c.inst, failed |-> c.failed, frag |-> c.frag]
    /\ c.failed \in BOOLEAN
    /\ ~c.failed => IsProgram(c.inst)

\* No instruction is lost, and outside F none is changed.
Grown(old, new, F) ==
    DOMAIN old \subseteq DOMAIN new /\ \A i \in DOMAIN old \ F : new[i] = old[i]

\* From c an operation on the instructions in F makes d: from then on, unless it
\* has failed, d.frag stands on instructions in F, on new ones and on the fail
\* instruction, and all the others are as they were.
Makes(c, d, F) ==
    /\ IsCompiler(d)
    /\ c.failed => d.failed
    /\ ~d.failed =>
        /\ Grown(c.inst, d.inst, F)
        /\ IsFragment(d.inst, d.frag)
        /\ Foot(d.inst, d.frag) \subseteq F \union {0} \union (DOMAIN d.inst \ DOMAIN c.inst)

LEMMA FragmentFacts ==
    ASSUME NEW insts, IsProgram(insts), NEW f, IsFragment(insts, f)
    PROVE  /\ f.begin \in DOMAIN insts /\ f.begin \in Reach(insts, {f.begin})
           /\ Reach(insts, {f.begin}) \in SUBSET DOMAIN insts
           /\ Leads(insts, Reach(insts, {f.begin}))
           /\ f.end \subseteq HolesIn(insts, DOMAIN insts)
           /\ HolesIn(insts, Reach(insts, {f.begin})) \subseteq f.end
           /\ f.begin # 0 => f.end = HolesIn(insts, Reach(insts, {f.begin}))
           /\ \A h \in f.end : h[1] \in DOMAIN insts \ {0} /\ h[1] \in Foot(insts, f)
           /\ f.begin # 0 => \A h \in f.end : h[1] \in Reach(insts, {f.begin})
           /\ Reach(insts, {f.begin}) \subseteq Foot(insts, f)
           /\ Foot(insts, f) \in SUBSET DOMAIN insts
<1> DEFINE R == Reach(insts, {f.begin})
<1>1. /\ f.begin \in DOMAIN insts /\ f.end \subseteq HolesIn(insts, DOMAIN insts)
      /\ f.begin # 0 => f.end = HolesIn(insts, R)
  BY DEF IsFragment
<1>2. f.begin \in R /\ R \in SUBSET DOMAIN insts /\ Leads(insts, R)
  BY <1>1, ReachOne
<1>3. HolesIn(insts, R) \subseteq f.end
  BY <1>1, ReachFail
<1>4. \A h \in HolesIn(insts, DOMAIN insts) :
        h[1] \in DOMAIN insts \ {0} /\ (h \in HolesIn(insts, R) <=> h[1] \in R)
  BY <1>2, HolesFacts
<1>5. Foot(insts, f) = R \union {h[1] : h \in f.end}
  BY DEF Foot
<1> HIDE DEF R
<1>6. \A h \in f.end : h[1] \in DOMAIN insts \ {0} /\ h[1] \in {g[1] : g \in f.end}
  BY <1>1, <1>4
<1>7. Foot(insts, f) \in SUBSET DOMAIN insts
  BY <1>2, <1>5, <1>6
<1> QED
  BY <1>1, <1>2, <1>3, <1>4, <1>5, <1>6, <1>7 DEF R

\* A fragment that does not touch what is changed is not changed.
LEMMA Kept ==
    ASSUME NEW old, IsProgram(old), NEW new, IsProgram(new), NEW F, Grown(old, new, F),
           NEW f, IsFragment(old, f), Foot(old, f) \intersect F \subseteq {0}
    PROVE  IsFragment(new, f) /\ Foot(new, f) = Foot(old, f)
<1> DEFINE R == Reach(old, {f.begin})
<1>1. /\ f.begin \in DOMAIN old /\ R \in SUBSET DOMAIN old
      /\ f.end \subseteq HolesIn(old, DOMAIN old)
      /\ f.begin # 0 => f.end = HolesIn(old, R)
      /\ \A h \in f.end : h[1] \in DOMAIN old \ {0} /\ h[1] \in Foot(old, f)
      /\ R \subseteq Foot(old, f) /\ Foot(old, f) \in SUBSET DOMAIN old
  BY FragmentFacts
<1>2. DOMAIN old \subseteq DOMAIN new
  BY DEF Grown
<1>3. \A i \in Foot(old, f) : new[i] = old[i]
  <2>1. old[0] = new[0]
    BY ProgramFacts
  <2> QED
    BY <1>1, <2>1 DEF Grown
<1>4. Reach(new, {f.begin}) = R /\ HolesIn(new, R) = HolesIn(old, R)
  <2>1. /\ f.begin \in DOMAIN old /\ Reach(old, {f.begin}) \subseteq DOMAIN new
        /\ \A i \in Reach(old, {f.begin}) : new[i] = old[i]
    BY <1>1, <1>2, <1>3
  <2> QED
    BY <2>1, ReachLocal
<1>5. f.end \subseteq HolesIn(new, DOMAIN new)
  <2> SUFFICES ASSUME NEW h \in f.end PROVE h \in HolesIn(new, DOMAIN new)
    OBVIOUS
  <2>1. \/ \E i \in DOMAIN old : h = <<i, "out">> /\ old[i].out = Hole
        \/ \E i \in DOMAIN old : h = <<i, "out1">> /\ old[i].out1 = Hole
    BY <1>1 DEF HolesIn
  <2>2. h[1] \in DOMAIN new /\ new[h[1]] = old[h[1]]
    BY <1>1, <1>2, <1>3
  <2>3. CASE \E i \in DOMAIN old : h = <<i, "out">> /\ old[i].out = Hole
    BY <2>2, <2>3 DEF HolesIn
  <2>4. CASE \E i \in DOMAIN old : h = <<i, "out1">> /\ old[i].out1 = Hole
    BY <2>2, <2>4 DEF HolesIn
  <2> QED
    BY <2>1, <2>3, <2>4
<1>6. IsFragment(new, f)
  <2>1. f = [begin |-> f.begin, end |-> f.end, nullable |-> f.nullable]
    BY DEF IsFragment
  <2>2. f.begin \in DOMAIN new
    BY <1>1, <1>2
  <2>3. f.begin # 0 => f.end = HolesIn(new, Reach(new, {f.begin}))
    BY <1>1, <1>4
  <2> QED
    BY <1>5, <2>1, <2>2, <2>3 DEF IsFragment
<1> QED
  BY <1>4, <1>6 DEF Foot

\* One operation after another.
LEMMA Chain ==
    ASSUME NEW c, NEW d, NEW e, NEW F, NEW G, IsCompiler(c), Makes(c, d, F), Makes(d, e, G),
           ~d.failed => G \subseteq F \union {0} \union (DOMAIN d.inst \ DOMAIN c.inst)
    PROVE  Makes(c, e, F)
<1>1. IsCompiler(e) /\ IsCompiler(d) /\ (c.failed => e.failed)
  BY DEF Makes
<1>2. ASSUME ~e.failed
      PROVE  /\ Grown(c.inst, e.inst, F)
             /\ IsFragment(e.inst, e.frag)
             /\ Foot(e.inst, e.frag)
                    \subseteq F \union {0} \union (DOMAIN e.inst \ DOMAIN c.inst)
  <2>1. ~d.failed /\ ~c.failed
    BY <1>2 DEF Makes
  <2>2. IsProgram(c.inst) /\ IsProgram(d.inst) /\ IsProgram(e.inst)
    BY <1>1, <1>2, <2>1 DEF IsCompiler
  <2>3. /\ Grown(c.inst, d.inst, F) /\ Grown(d.inst, e.inst, G)
        /\ IsFragment(e.inst, e.frag)
        /\ Foot(e.inst, e.frag) \subseteq G \union {0} \union (DOMAIN e.inst \ DOMAIN d.inst)
        /\ G \subseteq F \union {0} \union (DOMAIN d.inst \ DOMAIN c.inst)
    BY <1>2, <2>1 DEF Makes
  <2>4. DOMAIN c.inst \subseteq DOMAIN d.inst /\ DOMAIN d.inst \subseteq DOMAIN e.inst
    BY <2>3 DEF Grown
  <2>5. ASSUME NEW i \in DOMAIN c.inst \ F PROVE e.inst[i] = c.inst[i]
    <3>1. c.inst[0] = Fail /\ e.inst[0] = Fail
      BY <2>2, ProgramFacts
    <3>2. CASE i # 0
      <4>1. i \in DOMAIN d.inst \ G
        BY <2>3, <2>4, <3>2
      <4> QED
        BY <2>3, <4>1 DEF Grown
    <3> QED
      BY <3>1, <3>2
  <2>6. Foot(e.inst, e.frag) \subseteq F \union {0} \union (DOMAIN e.inst \ DOMAIN c.inst)
    BY <2>3, <2>4
  <2> QED
    BY <2>3, <2>4, <2>5, <2>6 DEF Grown
<1> QED
  BY <1>1, <1>2 DEF Makes

\* What is made is apart from what was apart from its parts.
LEMMA Apart ==
    ASSUME NEW c, NEW d, NEW F, IsCompiler(c), Makes(c, d, F), ~d.failed,
           NEW g, IsFragment(c.inst, g), Foot(c.inst, g) \intersect F \subseteq {0}
    PROVE  /\ ~c.failed /\ IsProgram(c.inst) /\ IsProgram(d.inst)
           /\ IsFragment(d.inst, g) /\ Foot(d.inst, g) = Foot(c.inst, g)
           /\ IsFragment(d.inst, d.frag) /\ Separate(d.inst, d.frag, g)
<1>1. ~c.failed /\ IsProgram(c.inst) /\ IsProgram(d.inst) /\ Grown(c.inst, d.inst, F)
  BY DEF Makes, IsCompiler
<1>2. IsFragment(d.inst, g) /\ Foot(d.inst, g) = Foot(c.inst, g)
  BY <1>1, Kept
<1>3. /\ IsFragment(d.inst, d.frag)
      /\ Foot(d.inst, d.frag) \subseteq F \union {0} \union (DOMAIN d.inst \ DOMAIN c.inst)
  BY DEF Makes
<1>4. Foot(c.inst, g) \in SUBSET DOMAIN c.inst
  BY <1>1, FragmentFacts
<1> QED
  BY <1>1, <1>2, <1>3, <1>4 DEF Separate

-----------------------------------------------------------------------------
(* Joining fragments *)

\* From an instruction that leads to x and to y, and may have a hole.
From(insts, x) == Reach(insts, {x})

LEMMA ReachNew ==
    ASSUME NEW insts, IsProgram(insts), NEW n \in DOMAIN insts,
           NEW x \in DOMAIN insts, NEW y \in DOMAIN insts,
           x \in Outs(insts[n]), y \in Outs(insts[n]), Outs(insts[n]) \subseteq {x, y, Hole}
    PROVE  From(insts, n) = {n} \union From(insts, x) \union From(insts, y)
<1> DEFINE A == Reach(insts, {x})
           B == Reach(insts, {y})
           R == {n} \union A \union B
<1>1. /\ x \in A /\ A \in SUBSET DOMAIN insts /\ Leads(insts, A)
      /\ \A T \in SUBSET DOMAIN insts : x \in T /\ Leads(insts, T) => A \subseteq T
  BY ReachOne
<1>2. /\ y \in B /\ B \in SUBSET DOMAIN insts /\ Leads(insts, B)
      /\ \A T \in SUBSET DOMAIN insts : y \in T /\ Leads(insts, T) => B \subseteq T
  BY ReachOne
<1> HIDE DEF A, B
<1>3. R \in SUBSET DOMAIN insts /\ n \in R
  BY <1>1, <1>2
<1>4. Leads(insts, R)
  BY <1>1, <1>2 DEF Leads
<1>5. ASSUME NEW T \in SUBSET DOMAIN insts, n \in T, Leads(insts, T) PROVE R \subseteq T
  <2>1. x # Hole /\ y # Hole
    BY ProgramFacts
  <2>2. x \in T /\ y \in T
    BY <1>5, <2>1 DEF Leads
  <2> QED
    BY <1>1, <1>2, <1>5, <2>2
<1> HIDE DEF R
<1>6. Reach(insts, {n}) = R
  BY <1>3, <1>4, <1>5, ReachIs
<1> QED
  BY <1>6 DEF R, A, B, From

\* From one that has only a hole.
LEMMA ReachEnd ==
    ASSUME NEW insts, IsProgram(insts), NEW n \in DOMAIN insts, Outs(insts[n]) = {Hole}
    PROVE  Reach(insts, {n}) = {n}
<1>1. {n} \in SUBSET DOMAIN insts /\ n \in {n} /\ Leads(insts, {n})
  BY DEF Leads
<1>2. \A T \in SUBSET DOMAIN insts : n \in T /\ Leads(insts, T) => {n} \subseteq T
  OBVIOUS
<1> QED
  BY <1>1, <1>2, ReachIs

\* Patching the list of a changes a alone.
LEMMA PatchGrows ==
    ASSUME NEW insts, IsProgram(insts), NEW a, IsFragment(insts, a), NEW q \in DOMAIN insts
    PROVE  /\ IsProgram(Patch(insts, a.end, q))
           /\ DOMAIN Patch(insts, a.end, q) = DOMAIN insts
           /\ Grown(insts, Patch(insts, a.end, q), {h[1] : h \in a.end})
           /\ Grown(insts, Patch(insts, a.end, q), Foot(insts, a))
<1>1. /\ a.end \subseteq HolesIn(insts, DOMAIN insts)
      /\ {h[1] : h \in a.end} \subseteq Foot(insts, a)
  BY FragmentFacts
<1> DEFINE new == Patch(insts, a.end, q)
           F == {h[1] : h \in a.end}
<1>0. Rewired(insts, new, a.end, q)
  BY <1>1, PatchFacts
<1> HIDE DEF new
<1>2. /\ IsProgram(new) /\ DOMAIN new = DOMAIN insts
      /\ \A i \in DOMAIN insts : i \notin F => new[i] = insts[i]
  BY <1>0 DEF Rewired
<1> HIDE DEF F
<1>3. Grown(insts, new, F)
  BY <1>2 DEF Grown
<1>4. Grown(insts, new, Foot(insts, a))
  BY <1>1, <1>2 DEF Grown, F
<1> QED
  BY <1>2, <1>3, <1>4 DEF new, F

\* b after a.
LEMMA Joined ==
    ASSUME NEW insts, IsProgram(insts), NEW a, IsFragment(insts, a), NEW b, IsFragment(insts, b),
           Separate(insts, a, b), a.begin # 0, a.end # {}, NEW f,
           f = Frag(a.begin, b.end, f.nullable), b.begin # 0
    PROVE  /\ IsFragment(Patch(insts, a.end, b.begin), b)
           /\ Foot(Patch(insts, a.end, b.begin), b) = Foot(insts, b)
           /\ IsFragment(Patch(insts, a.end, b.begin), f)
           /\ Foot(Patch(insts, a.end, b.begin), f) \subseteq Foot(insts, a) \union Foot(insts, b)
<1> DEFINE new == Patch(insts, a.end, b.begin)
           D == DOMAIN insts
           A == Reach(insts, {a.begin})
           B == Reach(insts, {b.begin})
           R == A \union B
<1>1. /\ a.begin \in A /\ A \in SUBSET D /\ Leads(insts, A)
      /\ a.end \subseteq HolesIn(insts, D) /\ a.end = HolesIn(insts, A)
      /\ \A h \in a.end : h[1] \in A
      /\ A \subseteq Foot(insts, a) /\ a.begin \in D
  BY FragmentFacts
<1>2. /\ b.begin \in B /\ B \in SUBSET D /\ Leads(insts, B)
      /\ b.end \subseteq HolesIn(insts, D) /\ b.end = HolesIn(insts, B)
      /\ \A h \in b.end : h[1] \in D \ {0} /\ h[1] \in B
      /\ B \subseteq Foot(insts, b) /\ b.begin \in D
  BY FragmentFacts
<1>3. /\ IsProgram(new) /\ DOMAIN new = D /\ Grown(insts, new, Foot(insts, a))
  BY <1>2, PatchGrows
<1>4. /\ \A T \in SUBSET D :
            /\ Leads(new, T) =>
                    /\ Leads(insts, T)
                    /\ (\E h \in a.end : h[1] \in T) => b.begin \in T
            /\ Leads(insts, T) /\ b.begin \in T => Leads(new, T)
      /\ \A S \in SUBSET D : HolesIn(new, S) = HolesIn(insts, S) \ a.end
  <2>1. Rewired(insts, new, a.end, b.begin)
    BY <1>1, <1>2, PatchFacts
  <2> HIDE DEF new, A, B
  <2> QED
    BY <2>1 DEF Rewired
<1>5. Foot(insts, b) \intersect Foot(insts, a) \subseteq {0}
  BY DEF Separate
<1>6. IsFragment(new, b) /\ Foot(new, b) = Foot(insts, b)
  BY <1>3, <1>5, Kept
<1>7. /\ \A T \in SUBSET D : a.begin \in T /\ Leads(insts, T) => A \subseteq T
      /\ \A T \in SUBSET D : b.begin \in T /\ Leads(insts, T) => B \subseteq T
  BY <1>1, <1>2, ReachOne
<1> HIDE DEF A, B, new
<1>8. Reach(new, {a.begin}) = R
  <2>1. R \in SUBSET D /\ a.begin \in R /\ b.begin \in R
    BY <1>1, <1>2
  <2>2. Leads(insts, R)
    BY <1>1, <1>2 DEF Leads
  <2>3. Leads(new, R)
    BY <1>4, <2>1, <2>2
  <2>4. ASSUME NEW T \in SUBSET D, a.begin \in T, Leads(new, T) PROVE R \subseteq T
    <3>1. Leads(insts, T) /\ ((\E h \in a.end : h[1] \in T) => b.begin \in T)
      BY <1>4, <2>4
    <3>2. A \subseteq T
      BY <1>7, <2>4, <3>1
    <3>3. b.begin \in T
      BY <1>1, <3>1, <3>2
    <3> QED
      BY <1>7, <3>1, <3>2, <3>3
  <2> HIDE DEF R
  <2> QED
    BY <1>3, <2>1, <2>3, <2>4, ReachIs
<1>9. HolesIn(new, R) = b.end
  <2>1. HolesIn(insts, R) = a.end \union b.end
    BY <1>1, <1>2, HolesUnion
  <2>2. R \in SUBSET D
    BY <1>1, <1>2
  <2>3. HolesIn(new, R) = (a.end \union b.end) \ a.end
    BY <1>4, <2>1, <2>2
  <2>4. a.end \intersect b.end = {}
    BY <1>1, <1>2, <1>5
  <2> QED
    BY <2>3, <2>4
<1>10. f.begin = a.begin /\ f.end = b.end
       /\ f = [begin |-> f.begin, end |-> f.end, nullable |-> f.nullable]
  BY DEF Frag
<1>11. b.end \subseteq HolesIn(new, DOMAIN new)
  BY <1>6 DEF IsFragment
<1>12. IsFragment(new, f)
  BY <1>1, <1>3, <1>8, <1>9, <1>10, <1>11 DEF IsFragment
<1>13. Foot(new, f) = R \union {h[1] : h \in b.end}
  BY <1>8, <1>10 DEF Foot
<1>14. Foot(new, f) \subseteq Foot(insts, a) \union Foot(insts, b)
  BY <1>1, <1>2, <1>13
<1> QED
  BY <1>6, <1>12, <1>14 DEF new

\* a in a loop whose choice is n: f is entered at n, g at a.
LEMMA Looped ==
    ASSUME NEW insts, IsProgram(insts), NEW a, IsFragment(insts, a),
           NEW n \in DOMAIN insts \ Foot(insts, a), n # 0,
           Outs(insts[n]) = {a.begin, Hole}, NEW f, NEW g,
           f = Frag(n, HolesIn(insts, {n}), f.nullable),
           g = Frag(a.begin, HolesIn(insts, {n}), g.nullable),
           Loose(a)
    PROVE  /\ IsFragment(Patch(insts, a.end, n), f) /\ IsFragment(Patch(insts, a.end, n), g)
           /\ Foot(Patch(insts, a.end, n), f) \subseteq Foot(insts, a) \union {n}
           /\ Foot(Patch(insts, a.end, n), g) \subseteq Foot(insts, a) \union {n}
<1> DEFINE new == Patch(insts, a.end, n)
           D == DOMAIN insts
           A == Reach(insts, {a.begin})
           R == {n} \union A
           W == HolesIn(insts, {n})
<1>1. /\ a.begin \in D /\ a.begin \in A /\ A \in SUBSET D /\ Leads(insts, A)
      /\ a.end \subseteq HolesIn(insts, D) /\ HolesIn(insts, A) \subseteq a.end
      /\ \A h \in a.end : h[1] \in Foot(insts, a)
      /\ a.begin # 0 => \A h \in a.end : h[1] \in A
      /\ A \subseteq Foot(insts, a)
  BY FragmentFacts
<1>2. /\ IsProgram(new) /\ DOMAIN new = D
  BY PatchGrows
<1>3. /\ \A T \in SUBSET D :
            /\ Leads(new, T) =>
                    /\ Leads(insts, T)
                    /\ (\E h \in a.end : h[1] \in T) => n \in T
            /\ Leads(insts, T) /\ n \in T => Leads(new, T)
      /\ \A S \in SUBSET D : HolesIn(new, S) = HolesIn(insts, S) \ a.end
  <2>1. Rewired(insts, new, a.end, n)
    BY <1>1, PatchFacts
  <2> HIDE DEF new, A
  <2> QED
    BY <2>1 DEF Rewired
<1>4. \A T \in SUBSET D : a.begin \in T /\ Leads(insts, T) => A \subseteq T
  BY <1>1, ReachOne
<1>5. \A h \in W : h[1] = n
  BY DEF HolesIn
<1>6. W \subseteq HolesIn(insts, D)
  <2>1. {n} \in SUBSET D
    OBVIOUS
  <2> QED
    BY <2>1, HolesFacts
<1>7. a.begin # Hole
  BY <1>1, ProgramFacts
<1> HIDE DEF A, new, W
<1>8. R \in SUBSET D /\ n \in R /\ a.begin \in R /\ Leads(insts, R) /\ Leads(new, R)
  <2>1. R \in SUBSET D /\ n \in R /\ a.begin \in R
    BY <1>1
  <2>2. Leads(insts, R)
    BY <1>1 DEF Leads
  <2> QED
    BY <1>3, <2>1, <2>2
<1>9. Reach(new, {n}) = R
  <2>1. ASSUME NEW T \in SUBSET D, n \in T, Leads(new, T) PROVE R \subseteq T
    <3>1. Leads(insts, T)
      BY <1>3, <2>1
    <3>2. a.begin \in T
      BY <1>7, <2>1, <3>1 DEF Leads
    <3> QED
      BY <1>4, <2>1, <3>1, <3>2
  <2> HIDE DEF R
  <2> QED
    BY <1>2, <1>8, <2>1, ReachIs
<1>10. ASSUME a.begin # 0 PROVE Reach(new, {a.begin}) = R
  <2>1. ASSUME NEW T \in SUBSET D, a.begin \in T, Leads(new, T) PROVE R \subseteq T
    <3>1. Leads(insts, T) /\ ((\E h \in a.end : h[1] \in T) => n \in T)
      BY <1>3, <2>1
    <3>2. A \subseteq T
      BY <1>4, <2>1, <3>1
    <3>3. n \in T
      BY <1>1, <1>10, <3>1, <3>2 DEF Loose
    <3> QED
      BY <3>2, <3>3
  <2> HIDE DEF R
  <2> QED
    BY <1>2, <1>8, <2>1, ReachIs
<1>11. HolesIn(new, R) = W
  <2>1. HolesIn(insts, R) = W \union HolesIn(insts, A)
    BY HolesUnion DEF W
  <2>2. W \intersect a.end = {}
    BY <1>1, <1>5
  <2>3. HolesIn(new, R) = HolesIn(insts, R) \ a.end
    BY <1>3, <1>8
  <2> QED
    BY <1>1, <2>1, <2>2, <2>3
<1>12. W \subseteq HolesIn(new, D)
  <2>1. D \in SUBSET D
    OBVIOUS
  <2>2. R \in SUBSET DOMAIN new
    BY <1>2, <1>8
  <2>3. HolesIn(new, R) \subseteq HolesIn(new, DOMAIN new)
    BY <1>2, <2>2, HolesFacts
  <2> QED
    BY <1>2, <1>11, <2>3
<1>13. /\ f.begin = n /\ f.end = W
       /\ f = [begin |-> f.begin, end |-> f.end, nullable |-> f.nullable]
       /\ g.begin = a.begin /\ g.end = W
       /\ g = [begin |-> g.begin, end |-> g.end, nullable |-> g.nullable]
  BY DEF Frag, W
<1>14. IsFragment(new, f)
  BY <1>2, <1>9, <1>11, <1>12, <1>13 DEF IsFragment
<1>15. IsFragment(new, g)
  BY <1>1, <1>2, <1>10, <1>11, <1>12, <1>13 DEF IsFragment
<1>16. Foot(new, f) \subseteq Foot(insts, a) \union {n}
  <2>1. Foot(new, f) = R \union {h[1] : h \in W}
    BY <1>9, <1>13 DEF Foot
  <2> QED
    BY <1>1, <1>5, <2>1
<1>17. Foot(new, g) \subseteq Foot(insts, a) \union {n}
  <2>1. Foot(new, g) = Reach(new, {a.begin}) \union {h[1] : h \in W}
    BY <1>13 DEF Foot
  <2>2. Reach(new, {a.begin}) \subseteq R \union {0}
    <3>1. CASE a.begin = 0
      BY <1>2, <3>1, ReachFail
    <3>2. CASE a.begin # 0
      BY <1>10, <3>2
    <3> QED
      BY <3>1, <3>2
  <2>3. a.begin = 0 => 0 \in Foot(insts, a) /\ Reach(new, {a.begin}) \subseteq {0}
    BY <1>1, <1>2, ReachFail
  <2>4. Reach(new, {a.begin}) \subseteq Foot(insts, a) \union {n}
    BY <1>1, <1>10, <2>3
  <2> QED
    BY <1>5, <2>1, <2>4
<1> QED
  BY <1>14, <1>15, <1>16, <1>17 DEF new

\* A choice n between a and b, or between a and a hole.
LEMMA Forked ==
    ASSUME NEW insts, IsProgram(insts), NEW a, IsFragment(insts, a), NEW b, IsFragment(insts, b),
           a.begin # 0, b.begin # 0, NEW n \in DOMAIN insts \ {0},
           a.begin \in Outs(insts[n]), b.begin \in Outs(insts[n]),
           Outs(insts[n]) \subseteq {a.begin, b.begin, Hole},
           NEW f, f = Frag(n, HolesIn(insts, {n}) \union a.end \union b.end, f.nullable)
    PROVE  /\ IsFragment(insts, f)
           /\ Foot(insts, f) \subseteq {n} \union Foot(insts, a) \union Foot(insts, b)
<1> DEFINE P == From(insts, a.begin)
           Q == From(insts, b.begin)
           W == HolesIn(insts, {n})
<1>1. /\ a.begin \in DOMAIN insts /\ a.end \subseteq HolesIn(insts, DOMAIN insts)
      /\ a.end = HolesIn(insts, P) /\ P \subseteq Foot(insts, a)
      /\ \A h \in a.end : h[1] \in Foot(insts, a)
  BY FragmentFacts DEF From
<1>2. /\ b.begin \in DOMAIN insts /\ b.end \subseteq HolesIn(insts, DOMAIN insts)
      /\ b.end = HolesIn(insts, Q) /\ Q \subseteq Foot(insts, b)
      /\ \A h \in b.end : h[1] \in Foot(insts, b)
  BY FragmentFacts DEF From
<1>3. From(insts, n) = {n} \union P \union Q
  BY <1>1, <1>2, ReachNew
<1>4. Reach(insts, {n}) = {n} \union P \union Q
  BY <1>3 DEF From
<1> HIDE DEF P, Q
<1>5. HolesIn(insts, {n} \union P \union Q) = W \union a.end \union b.end
  <2>1. HolesIn(insts, {n} \union P \union Q)
            = HolesIn(insts, {n} \union P) \union HolesIn(insts, Q)
    BY HolesUnion
  <2>2. HolesIn(insts, {n} \union P) = W \union HolesIn(insts, P)
    BY HolesUnion
  <2> QED
    BY <1>1, <1>2, <2>1, <2>2
<1>6. W \subseteq HolesIn(insts, DOMAIN insts) /\ \A h \in W : h[1] = n
  <2>1. {n} \in SUBSET DOMAIN insts
    OBVIOUS
  <2>2. W \subseteq HolesIn(insts, DOMAIN insts)
    BY <2>1, HolesFacts
  <2> QED
    BY <2>2 DEF HolesIn
<1> HIDE DEF W
<1>7. /\ f.begin = n /\ f.end = W \union a.end \union b.end
      /\ f = [begin |-> f.begin, end |-> f.end, nullable |-> f.nullable]
  BY DEF Frag, W
<1>8. IsFragment(insts, f)
  BY <1>1, <1>2, <1>4, <1>5, <1>6, <1>7 DEF IsFragment
<1>9. Foot(insts, f) = {n} \union P \union Q \union {h[1] : h \in W \union a.end \union b.end}
  BY <1>4, <1>7 DEF Foot
<1>10. Foot(insts, f) \subseteq {n} \union Foot(insts, a) \union Foot(insts, b)
  BY <1>1, <1>2, <1>6, <1>9
<1> QED
  BY <1>8, <1>10

-----------------------------------------------------------------------------
(* The operations *)

\* A compiler whose instructions are patched.
LEMMA PatchedFacts ==
    ASSUME NEW c, IsCompiler(c), NEW holes, NEW p
    PROVE  /\ Patched(c, holes, p).inst = Patch(c.inst, holes, p)
           /\ Patched(c, holes, p).failed = c.failed /\ Patched(c, holes, p).frag = c.frag
           /\ Patched(c, holes, p) = [inst |-> Patch(c.inst, holes, p), failed |-> c.failed,
                                      frag |-> c.frag]
<1>1. c = [inst |-> c.inst, failed |-> c.failed, frag |-> c.frag]
  BY DEF IsCompiler
<1> DEFINE x == c.inst
           y == c.failed
           z == c.frag
           w == Patch(c.inst, holes, p)
<1>2. Patched(c, holes, p) = [c EXCEPT !.inst = w]
  BY DEF Patched
<1>3. c = [inst |-> x, failed |-> y, frag |-> z]
  BY <1>1
<1> HIDE DEF x, y, z, w
<1>4. [c EXCEPT !.inst = w] = [inst |-> w, failed |-> y, frag |-> z]
  BY <1>3
<1>5. Patched(c, holes, p) = [inst |-> w, failed |-> y, frag |-> z]
  BY <1>2, <1>4
<1> QED
  BY <1>5 DEF w, y, z

\* One that fails.
LEMMA FailedFacts ==
    ASSUME NEW c, IsCompiler(c), NEW d, d = [c EXCEPT !.failed = TRUE, !.frag = NoMatch]
    PROVE  IsCompiler(d) /\ d.failed
<1>1. c = [inst |-> c.inst, failed |-> c.failed, frag |-> c.frag]
  BY DEF IsCompiler
<1> DEFINE x == c.inst
           y == c.failed
           z == c.frag
           w == NoMatch
<1>2. c = [inst |-> x, failed |-> y, frag |-> z] /\ d = [c EXCEPT !.failed = TRUE, !.frag = w]
  BY <1>1
<1> HIDE DEF x, y, z, w
<1>3. d = [inst |-> x, failed |-> TRUE, frag |-> w]
  BY <1>2
<1> QED
  BY <1>3 DEF IsCompiler

\* One whose fragment is another.
LEMMA FragFacts ==
    ASSUME NEW c, IsCompiler(c), NEW d, NEW f, d = [c EXCEPT !.frag = f]
    PROVE  /\ IsCompiler(d) /\ d.inst = c.inst /\ d.failed = c.failed /\ d.frag = f
<1>1. c = [inst |-> c.inst, failed |-> c.failed, frag |-> c.frag]
  BY DEF IsCompiler
<1> DEFINE x == c.inst
           y == c.failed
           z == c.frag
<1>2. c = [inst |-> x, failed |-> y, frag |-> z]
  BY <1>1
<1>3. (y \in BOOLEAN) /\ (~y => IsProgram(x))
  BY DEF IsCompiler
<1> HIDE DEF x, y, z
<1>4. d = [inst |-> x, failed |-> y, frag |-> f]
  BY <1>2
<1>5. IsCompiler(d) /\ d.inst = x /\ d.failed = y /\ d.frag = f
  BY <1>3, <1>4 DEF IsCompiler
<1> QED
  BY <1>5 DEF x, y

\* Instructions that can come next.
CanFollow(c, new) ==
    \A k \in 1 .. Len(new) :
        /\ IsInst(new[k])
        /\ {new[k].out, new[k].out1} \subseteq 0 .. Size(c) + Len(new) - 1 \union {Hole}

\* They have come.
Emitted(c, d, new, f) ==
    /\ ~c.failed /\ IsProgram(c.inst) /\ IsProgram(d.inst)
    /\ Size(c) \in Nat \ {0} /\ d.frag = f
    /\ DOMAIN c.inst = 0 .. Size(c) - 1
    /\ DOMAIN d.inst = 0 .. Size(c) + Len(new) - 1
    /\ Grown(c.inst, d.inst, {})
    /\ \A k \in 1 .. Len(new) : d.inst[Size(c) + k - 1] = new[k]

LEMMA EmitFacts ==
    ASSUME NEW c, IsCompiler(c), NEW new, NEW f,
           Len(new) \in Nat \ {0}, ~c.failed => CanFollow(c, new)
    PROVE  /\ IsCompiler(Emit(c, new, f)) /\ (c.failed => Emit(c, new, f).failed)
           /\ ~Emit(c, new, f).failed => Emitted(c, Emit(c, new, f), new, f)
<1> DEFINE d == Emit(c, new, f)
<1> DEFINE n == Size(c)
           l == Len(new)
           more == [i \in 0 .. n + l - 1 |-> IF i < n THEN c.inst[i] ELSE new[i - n + 1]]
<1> SUFFICES /\ IsCompiler(d) /\ (c.failed => d.failed)
             /\ ~d.failed => Emitted(c, d, new, f)
  OBVIOUS
<1> HIDE DEF d
<1>1. d = IF HasRoomFor(c, l) THEN [inst |-> more, failed |-> FALSE, frag |-> f]
          ELSE [c EXCEPT !.failed = TRUE, !.frag = NoMatch]
  BY DEF Emit, d
<1>2. HasRoomFor(c, l) => ~c.failed
  BY DEF HasRoomFor
<1>3. CASE ~HasRoomFor(c, l)
  <2>1. d = [c EXCEPT !.failed = TRUE, !.frag = NoMatch]
    BY <1>1, <1>3
  <2>2. IsCompiler(d) /\ d.failed
    BY <2>1, FailedFacts
  <2> QED
    BY <2>2
<1>4. CASE HasRoomFor(c, l)
  <2>1. ~c.failed /\ IsProgram(c.inst) /\ CanFollow(c, new)
    BY <1>2, <1>4 DEF IsCompiler
  <2>2. n \in Nat /\ 0 \in DOMAIN c.inst /\ DOMAIN c.inst = 0 .. n - 1 /\ c.inst[0] = Fail
        /\ \A i \in DOMAIN c.inst : /\ IsInst(c.inst[i])
                                    /\ c.inst[i].out \in DOMAIN c.inst \union {Hole}
                                    /\ c.inst[i].out1 \in DOMAIN c.inst \union {Hole}
    BY <2>1, ProgramFacts DEF Size
  <2>3. d = [inst |-> more, failed |-> FALSE, frag |-> f]
    BY <1>1, <1>4
  <2>4. \A k \in 1 .. l :
            /\ IsInst(new[k]) /\ new[k].out \in 0 .. n + l - 1 \union {Hole}
            /\ new[k].out1 \in 0 .. n + l - 1 \union {Hole}
    BY <2>1 DEF CanFollow
  <2> HIDE DEF n, l
  <2>5. /\ n \in Nat \ {0} /\ n + l \in Nat \ {0} /\ 0 \in 0 .. n + l - 1
        /\ 0 .. n - 1 \subseteq 0 .. n + l - 1 /\ 0 < n
        /\ \A i \in 0 .. n - 1 : i < n
        /\ \A i \in 0 .. n + l - 1 :
                (i < n => i \in 0 .. n - 1) /\ (~(i < n) => i - n + 1 \in 1 .. l)
        /\ \A k \in 1 .. l : /\ n + k - 1 \in 0 .. n + l - 1 /\ ~(n + k - 1 < n)
                             /\ n + k - 1 - n + 1 = k
    <3>1. n \in Nat /\ 0 \in 0 .. n - 1 /\ l \in Nat \ {0}
      BY <2>2 DEF l
    <3> QED
      BY <3>1, SMT
  <2>6. /\ more = [i \in 0 .. n + l - 1 |-> more[i]]
        /\ DOMAIN more = 0 .. n + l - 1
        /\ \A i \in 0 .. n - 1 : more[i] = c.inst[i]
        /\ \A k \in 1 .. l : more[n + k - 1] = new[k]
        /\ \A i \in 0 .. n + l - 1 :
            \/ i \in 0 .. n - 1 /\ more[i] = c.inst[i]
            \/ i - n + 1 \in 1 .. l /\ more[i] = new[i - n + 1]
    BY <2>5
  <2> HIDE DEF more
  <2>7. Cardinality(DOMAIN more) = n + l
    <3>1. n + l - 1 \in Nat /\ n + l - 1 + 1 = n + l
      BY <2>5, SMT DEF l
    <3> HIDE <2>6
    <3>2. Cardinality(0 .. n + l - 1) = n + l
      BY <3>1, CountFacts
    <3> QED
      BY <2>6, <3>2
  <2>8. IsProgram(more)
    <3>1. more[0] = Fail
      BY <2>2, <2>6
    <3>2. ASSUME NEW i \in DOMAIN more
          PROVE  IsInst(more[i]) /\ {more[i].out, more[i].out1} \subseteq DOMAIN more \union {Hole}
      <4>1. CASE i \in 0 .. n - 1 /\ more[i] = c.inst[i]
        BY <2>2, <2>5, <2>6, <4>1
      <4>2. CASE i - n + 1 \in 1 .. l /\ more[i] = new[i - n + 1]
        BY <2>4, <2>6, <4>2
      <4> QED
        BY <2>6, <4>1, <4>2
    <3>3. Cardinality(DOMAIN more) \in Nat \ {0}
          /\ more = [i \in 0 .. Cardinality(DOMAIN more) - 1 |-> more[i]]
      <4> DEFINE top == n + l - 1
      <4>1. Cardinality(DOMAIN more) - 1 = top
        <5>1. n \in Nat /\ l \in Nat
          BY <2>5 DEF l
        <5> QED
          BY <2>7, <5>1
      <4>2. more = [i \in 0 .. top |-> more[i]]
        BY <2>6
      <4> HIDE DEF top
      <4> QED
        BY <2>5, <2>7, <4>1, <4>2
    <3> QED
      BY <3>1, <3>2, <3>3 DEF IsProgram
  <2>9. Grown(c.inst, more, {})
    BY <2>2, <2>5, <2>6 DEF Grown
  <2>10. d.inst = more /\ d.failed = FALSE /\ d.frag = f /\ IsCompiler(d)
    BY <2>3, <2>8 DEF IsCompiler
  <2> QED
    BY <2>1, <2>2, <2>5, <2>6, <2>8, <2>9, <2>10 DEF n, l, Emitted
<1> QED
  BY <1>3, <1>4

\* The new instructions.
LEMMA InstFacts ==
    /\ \A x, y : /\ AltInst(x, y).op = "Alt" /\ AltInst(x, y).out = x /\ AltInst(x, y).out1 = y
                 /\ IsInst(AltInst(x, y))
    /\ \A x : /\ NopInst(x).op = "Nop" /\ NopInst(x).out = x /\ NopInst(x).out1 = 0
              /\ IsInst(NopInst(x))
    /\ \A x, y, z, o : LET i == RangeInst(x, y, z, o) IN
            i.op = "ByteRange" /\ i.out = o /\ i.out1 = 0 /\ IsInst(i)
    /\ \A x, o : LET i == CaptureInst(x, o) IN
            i.op = "Capture" /\ i.out = o /\ i.out1 = 0 /\ IsInst(i)
    /\ \A x, o : LET i == EmptyInst(x, o) IN
            i.op = "EmptyWidth" /\ i.out = o /\ i.out1 = 0 /\ IsInst(i)
    /\ \A x : LET i == MatchInst(x) IN i.op = "Match" /\ i.out = 0 /\ i.out1 = 0 /\ IsInst(i)
<1>1. \A o, x : LET i == Inst(o, x) IN
        /\ i.op = o /\ i.out = x /\ i.out1 = 0
        /\ DOMAIN i = {"op", "out", "out1", "lo", "hi", "foldcase", "arg", "hint", "last"}
        /\ i = [f \in DOMAIN i |-> i[f]]
  BY DEF Inst
<1> DEFINE Good(i) == i = [f \in DOMAIN i |-> i[f]] /\ {"op", "out", "out1"} \subseteq DOMAIN i
<1>2. \A i : Good(i) /\ i.out1 # Hole => IsInst(i)
  BY DEF IsInst
<1>3. \A i : Good(i) /\ i.op \in Alts => IsInst(i)
  BY DEF IsInst
<1>4. "Alt" \in Alts /\ 0 # Hole
  BY DEF Alts, Hole
<1>5. ASSUME NEW x, NEW y
      PROVE  /\ AltInst(x, y).op = "Alt" /\ AltInst(x, y).out = x /\ AltInst(x, y).out1 = y
             /\ Good(AltInst(x, y))
  BY DEF AltInst, Inst
<1>6. ASSUME NEW x
      PROVE  /\ NopInst(x).op = "Nop" /\ NopInst(x).out = x /\ NopInst(x).out1 = 0
             /\ Good(NopInst(x))
  BY DEF NopInst, Inst
<1>7. ASSUME NEW x, NEW y, NEW z, NEW o
      PROVE  LET i == RangeInst(x, y, z, o) IN
                i.op = "ByteRange" /\ i.out = o /\ i.out1 = 0 /\ Good(i)
  BY DEF RangeInst, Inst
<1>8. ASSUME NEW x, NEW o
      PROVE  LET i == CaptureInst(x, o) IN
                i.op = "Capture" /\ i.out = o /\ i.out1 = 0 /\ Good(i)
  BY DEF CaptureInst, Inst
<1>9. ASSUME NEW x, NEW o
      PROVE  LET i == EmptyInst(x, o) IN
                i.op = "EmptyWidth" /\ i.out = o /\ i.out1 = 0 /\ Good(i)
  BY DEF EmptyInst, Inst
<1>10. ASSUME NEW x
       PROVE  LET i == MatchInst(x) IN i.op = "Match" /\ i.out = 0 /\ i.out1 = 0 /\ Good(i)
  BY DEF MatchInst, Inst
<1> HIDE DEF Good
<1> QED
  BY <1>2, <1>3, <1>4, <1>5, <1>6, <1>7, <1>8, <1>9, <1>10

EmittedOne(c, d, x, f) ==
    /\ ~c.failed /\ IsProgram(c.inst) /\ IsProgram(d.inst)
    /\ Size(c) \in Nat \ {0} /\ d.frag = f
    /\ Size(c) \notin DOMAIN c.inst
    /\ DOMAIN d.inst = DOMAIN c.inst \union {Size(c)}
    /\ Grown(c.inst, d.inst, {})
    /\ d.inst[Size(c)] = x

LEMMA EmitOne ==
    ASSUME NEW c, IsCompiler(c), NEW x, NEW f,
           ~c.failed => IsInst(x) /\ {x.out, x.out1} \subseteq DOMAIN c.inst \union {Hole}
    PROVE  /\ IsCompiler(Emit(c, <<x>>, f)) /\ (c.failed => Emit(c, <<x>>, f).failed)
           /\ ~Emit(c, <<x>>, f).failed => EmittedOne(c, Emit(c, <<x>>, f), x, f)
<1> DEFINE new == <<x>>
           n == Size(c)
           d == Emit(c, new, f)
<1>1. Len(new) = 1 /\ new[1] = x /\ 1 .. Len(new) = {1}
  <2>1. Len(new) = 1 /\ new[1] = x
    OBVIOUS
  <2> HIDE DEF new
  <2> QED
    BY <2>1, SMT
<1> HIDE DEF new
<1>3. ASSUME ~c.failed PROVE CanFollow(c, new)
  <2>1. IsProgram(c.inst)
    BY <1>3 DEF IsCompiler
  <2>2. n \in Nat /\ DOMAIN c.inst = 0 .. n - 1
    BY <2>1, ProgramFacts DEF Size
  <2> HIDE DEF n
  <2>3. 0 .. n - 1 \subseteq 0 .. n + 1 - 1
    BY <2>2, SMT
  <2>4. IsInst(x) /\ {x.out, x.out1} \subseteq 0 .. n + 1 - 1 \union {Hole}
    BY <1>3, <2>2, <2>3
  <2> QED
    BY <1>1, <2>4 DEF CanFollow, n
<1>4. Len(new) \in Nat \ {0}
  BY <1>1
<1>5. /\ IsCompiler(d) /\ (c.failed => d.failed)
      /\ ~d.failed => Emitted(c, d, new, f)
  BY <1>3, <1>4, EmitFacts
<1> HIDE DEF n, d
<1>6. ASSUME ~d.failed PROVE EmittedOne(c, d, x, f)
  <2>1. /\ ~c.failed /\ IsProgram(c.inst) /\ IsProgram(d.inst) /\ n \in Nat \ {0}
        /\ d.frag = f /\ DOMAIN c.inst = 0 .. n - 1
        /\ DOMAIN d.inst = 0 .. n + Len(new) - 1
        /\ Grown(c.inst, d.inst, {})
        /\ \A k \in 1 .. Len(new) : d.inst[n + k - 1] = new[k]
    BY <1>5, <1>6 DEF Emitted, n
  <2>2. n \notin 0 .. n - 1 /\ 0 .. n + 1 - 1 = (0 .. n - 1) \union {n} /\ n + 1 - 1 = n
    BY <2>1, SMT
  <2>3. DOMAIN d.inst = DOMAIN c.inst \union {n}
    BY <1>1, <2>1, <2>2
  <2>4. d.inst[n] = x
    BY <1>1, <2>1, <2>2
  <2>5. n \notin DOMAIN c.inst
    BY <2>1, <2>2
  <2> QED
    BY <2>1, <2>3, <2>4, <2>5 DEF EmittedOne, n
<1> QED
  BY <1>5, <1>6 DEF d, new

\* One instruction, with its way out.
LEMMA LeafMade ==
    ASSUME NEW c, IsCompiler(c), NEW x, IsInst(x), x.op \notin Alts, x.out = Hole, x.out1 = 0,
           NEW nullable, NEW d,
           d = Emit(c, <<x>>, Frag(Size(c), {<<Size(c), "out">>}, nullable))
    PROVE  /\ Makes(c, d, {})
           /\ ~d.failed => Loose(d.frag) /\ d.frag.begin # 0
<1> DEFINE n == Size(c)
           f == Frag(n, {<<n, "out">>}, nullable)
<1>1. ~c.failed => IsInst(x) /\ {x.out, x.out1} \subseteq DOMAIN c.inst \union {Hole}
  BY ProgramFacts DEF IsCompiler
<1>2. d = Emit(c, <<x>>, f)
  OBVIOUS
<1>3. /\ f.begin = n /\ f.end = {<<n, "out">>}
      /\ f = [begin |-> f.begin, end |-> f.end, nullable |-> f.nullable]
  BY DEF Frag
<1> HIDE DEF f
<1>4. /\ IsCompiler(d) /\ (c.failed => d.failed)
      /\ ~d.failed =>
            /\ IsProgram(d.inst) /\ n \in Nat \ {0} /\ d.frag = f /\ n \notin DOMAIN c.inst
            /\ DOMAIN d.inst = DOMAIN c.inst \union {n}
            /\ Grown(c.inst, d.inst, {}) /\ d.inst[n] = x
  <2>1. IsCompiler(d) /\ (c.failed => d.failed) /\ (~d.failed => EmittedOne(c, d, x, f))
    BY <1>1, <1>2, EmitOne
  <2> QED
    BY <2>1 DEF EmittedOne
<1> HIDE DEF n
<1>5. ASSUME ~d.failed
      PROVE  /\ IsFragment(d.inst, f) /\ f.begin # 0 /\ Loose(f)
             /\ Foot(d.inst, f) \subseteq DOMAIN d.inst \ DOMAIN c.inst
  <2>1. n \in DOMAIN d.inst /\ Outs(d.inst[n]) = {Hole}
    BY <1>4, <1>5 DEF Outs
  <2>2. Reach(d.inst, {n}) = {n}
    BY <1>4, <1>5, <2>1, ReachEnd
  <2>3. HolesIn(d.inst, {n}) = {<<n, "out">>}
    <3>1. d.inst[n].out = Hole /\ d.inst[n].out1 = 0 /\ Hole # 0
      BY <1>4, <1>5 DEF Hole
    <3> QED
      BY <3>1 DEF HolesIn
  <2>4. {n} \in SUBSET DOMAIN d.inst
    BY <2>1
  <2>5. HolesIn(d.inst, {n}) \subseteq HolesIn(d.inst, DOMAIN d.inst)
    BY <1>4, <1>5, <2>4, HolesFacts
  <2>6. IsFragment(d.inst, f)
    BY <1>3, <2>1, <2>2, <2>3, <2>5 DEF IsFragment
  <2>7. Foot(d.inst, f) \subseteq {n}
    BY <1>3, <2>2 DEF Foot
  <2> QED
    BY <1>3, <1>4, <1>5, <2>6, <2>7 DEF Loose
<1> QED
  BY <1>4, <1>5 DEF Makes

LEMMA ByteRangeMade ==
    ASSUME NEW c, IsCompiler(c), NEW lo, NEW hi, NEW foldcase
    PROVE  /\ Makes(c, ByteRange(c, lo, hi, foldcase), {})
           /\ ~ByteRange(c, lo, hi, foldcase).failed =>
                /\ Loose(ByteRange(c, lo, hi, foldcase).frag)
                /\ ByteRange(c, lo, hi, foldcase).frag.begin # 0
<1> DEFINE x == RangeInst(lo, hi, foldcase, Hole)
           d == ByteRange(c, lo, hi, foldcase)
<1>1. IsInst(x) /\ x.op \notin Alts /\ x.out = Hole /\ x.out1 = 0
  BY InstFacts DEF Alts
<1>2. d = Emit(c, <<x>>, Frag(Size(c), {<<Size(c), "out">>}, FALSE))
  BY DEF ByteRange
<1> HIDE DEF x, d
<1>3. Makes(c, d, {}) /\ (~d.failed => Loose(d.frag) /\ d.frag.begin # 0)
  BY <1>1, <1>2, LeafMade
<1> QED
  BY <1>3 DEF d

LEMMA NopMade ==
    ASSUME NEW c, IsCompiler(c)
    PROVE  Makes(c, Nop(c), {}) /\ (~Nop(c).failed => Loose(Nop(c).frag))
<1> DEFINE x == NopInst(Hole)
           d == Nop(c)
<1>1. IsInst(x) /\ x.op \notin Alts /\ x.out = Hole /\ x.out1 = 0
  BY InstFacts DEF Alts
<1>2. d = Emit(c, <<x>>, Frag(Size(c), {<<Size(c), "out">>}, TRUE))
  BY DEF Nop
<1> HIDE DEF x, d
<1>3. Makes(c, d, {}) /\ (~d.failed => Loose(d.frag) /\ d.frag.begin # 0)
  BY <1>1, <1>2, LeafMade
<1> QED
  BY <1>3 DEF d

LEMMA EmptyWidthMade ==
    ASSUME NEW c, IsCompiler(c), NEW flag
    PROVE  /\ Makes(c, EmptyWidth(c, flag), {})
           /\ ~EmptyWidth(c, flag).failed => Loose(EmptyWidth(c, flag).frag)
<1> DEFINE x == EmptyInst(flag, Hole)
           d == EmptyWidth(c, flag)
<1>1. IsInst(x) /\ x.op \notin Alts /\ x.out = Hole /\ x.out1 = 0
  BY InstFacts DEF Alts
<1>2. d = Emit(c, <<x>>, Frag(Size(c), {<<Size(c), "out">>}, TRUE))
  BY DEF EmptyWidth
<1> HIDE DEF x, d
<1>3. Makes(c, d, {}) /\ (~d.failed => Loose(d.frag) /\ d.frag.begin # 0)
  BY <1>1, <1>2, LeafMade
<1> QED
  BY <1>3 DEF d

LEMMA MatchMade ==
    ASSUME NEW c, IsCompiler(c), NEW id
    PROVE  Makes(c, Match(c, id), {}) /\ (~Match(c, id).failed => Ended(Match(c, id).frag))
<1> DEFINE n == Size(c)
           x == MatchInst(id)
           d == Match(c, id)
           f == Frag(n, {}, FALSE)
<1>1. IsInst(x) /\ x.op = "Match" /\ x.out = 0 /\ x.out1 = 0 /\ Outs(x) = {0}
  BY InstFacts DEF Outs, Alts
<1>2. d = Emit(c, <<x>>, f)
  BY DEF Match
<1>3. /\ f.begin = n /\ f.end = {}
      /\ f = [begin |-> f.begin, end |-> f.end, nullable |-> f.nullable]
  BY DEF Frag
<1>4. ~c.failed => IsInst(x) /\ {x.out, x.out1} \subseteq DOMAIN c.inst \union {Hole}
  BY <1>1, ProgramFacts DEF IsCompiler
<1> HIDE DEF x, d, f
<1>5. /\ IsCompiler(d) /\ (c.failed => d.failed)
      /\ ~d.failed =>
            /\ IsProgram(d.inst) /\ n \in Nat \ {0} /\ d.frag = f /\ n \notin DOMAIN c.inst
            /\ DOMAIN d.inst = DOMAIN c.inst \union {n}
            /\ Grown(c.inst, d.inst, {}) /\ d.inst[n] = x
  <2>1. IsCompiler(d) /\ (c.failed => d.failed) /\ (~d.failed => EmittedOne(c, d, x, f))
    BY <1>2, <1>4, EmitOne
  <2> QED
    BY <2>1 DEF EmittedOne
<1> HIDE DEF n
<1>6. ASSUME ~d.failed
      PROVE  /\ IsFragment(d.inst, f) /\ Ended(f)
             /\ Foot(d.inst, f) \subseteq {0} \union (DOMAIN d.inst \ DOMAIN c.inst)
  <2>1. n \in DOMAIN d.inst /\ 0 \in DOMAIN d.inst /\ Outs(d.inst[n]) = {0}
        /\ d.inst[n].out # Hole /\ d.inst[n].out1 # Hole
    BY <1>1, <1>5, <1>6, ProgramFacts DEF Hole
  <2>2. Reach(d.inst, {n}) = {n} \union Reach(d.inst, {0}) \union Reach(d.inst, {0})
    <3>1. From(d.inst, n) = {n} \union From(d.inst, 0) \union From(d.inst, 0)
      BY <1>5, <1>6, <2>1, ReachNew
    <3> QED
      BY <3>1 DEF From
  <2>3. Reach(d.inst, {0}) = {0} /\ HolesIn(d.inst, {0}) = {}
    BY <1>5, <1>6, ReachFail
  <2>4. Reach(d.inst, {n}) = {n} \union {0}
    BY <2>2, <2>3
  <2>5. HolesIn(d.inst, {n}) = {}
    BY <2>1 DEF HolesIn
  <2>6. HolesIn(d.inst, Reach(d.inst, {n})) = {}
    BY <2>3, <2>4, <2>5, HolesUnion
  <2>7. IsFragment(d.inst, f)
    BY <1>3, <2>1, <2>6 DEF IsFragment
  <2>8. Foot(d.inst, f) = {n, 0}
    BY <1>3, <2>4 DEF Foot
  <2> QED
    BY <1>3, <1>5, <1>6, <2>7, <2>8 DEF Ended
<1>7. Makes(c, d, {}) /\ (~d.failed => Ended(d.frag))
  BY <1>5, <1>6 DEF Makes
<1> QED
  BY <1>7 DEF d

\* a in front of b, both on the program of c.
Touching(c, a, b) ==
    IsFragment(c.inst, a) /\ IsFragment(c.inst, b) /\ Separate(c.inst, a, b)

\* No fragment: nothing is done.
LEMMA NoneMade ==
    ASSUME NEW c, IsCompiler(c), NEW d, d = [c EXCEPT !.frag = NoMatch], NEW F
    PROVE  /\ Makes(c, d, F) /\ Loose(d.frag) /\ Ended(d.frag)
           /\ ~d.failed => Grown(c.inst, d.inst, F)
<1>1. IsCompiler(d) /\ d.inst = c.inst /\ d.failed = c.failed /\ d.frag = NoMatch
  BY FragFacts
<1>2. NoMatch.begin = 0 /\ NoMatch.end = {} /\ NoMatch.nullable = FALSE
      /\ NoMatch = [begin |-> 0, end |-> {}, nullable |-> FALSE]
  BY DEF NoMatch, Frag
<1>3. ASSUME ~d.failed
      PROVE  IsFragment(d.inst, d.frag) /\ Foot(d.inst, d.frag) \subseteq {0}
  <2>1. IsProgram(d.inst)
    BY <1>1, <1>3 DEF IsCompiler
  <2>2. 0 \in DOMAIN d.inst /\ Reach(d.inst, {0}) = {0}
    BY <2>1, ProgramFacts, ReachFail
  <2>3. IsFragment(d.inst, d.frag)
    BY <1>1, <1>2, <2>2 DEF IsFragment
  <2>4. Foot(d.inst, d.frag) \subseteq {0}
    BY <1>1, <1>2, <2>2 DEF Foot
  <2> QED
    BY <2>3, <2>4
<1>4. Grown(c.inst, d.inst, F)
  BY <1>1 DEF Grown
<1> QED
  BY <1>1, <1>2, <1>3, <1>4 DEF Makes, Loose, Ended

\* One of the fragments as it is.
LEMMA SameMade ==
    ASSUME NEW c, IsCompiler(c), NEW f, ~c.failed => IsFragment(c.inst, f),
           NEW d, d = [c EXCEPT !.frag = f], NEW F, ~c.failed => Foot(c.inst, f) \subseteq F
    PROVE  Makes(c, d, F) /\ d.frag = f
<1>1. IsCompiler(d) /\ d.inst = c.inst /\ d.failed = c.failed /\ d.frag = f
  BY FragFacts
<1>2. Grown(c.inst, d.inst, F)
  BY <1>1 DEF Grown
<1> QED
  BY <1>1, <1>2 DEF Makes

LEMMA CatMade ==
    ASSUME NEW c, IsCompiler(c), NEW a, NEW b, NEW reversed \in BOOLEAN,
           ~c.failed => Touching(c, a, b) /\ Loose(a) /\ (reversed => Loose(b)),
           NEW d, d = Cat(c, a, b, reversed)
    PROVE  /\ Makes(c, d, Foot(c.inst, a) \union Foot(c.inst, b))
           /\ ~d.failed =>
                /\ Loose(b) => Loose(d.frag)
                /\ ~reversed => Grown(c.inst, d.inst, Foot(c.inst, a))
                /\ ~reversed /\ Ended(b) => Ended(d.frag)
<1> DEFINE A == Foot(c.inst, a)
           B == Foot(c.inst, b)
<1>1. CASE IsNoMatch(a) \/ IsNoMatch(b)
  <2>1. d = [c EXCEPT !.frag = NoMatch]
    BY <1>1 DEF Cat
  <2> HIDE DEF A, B
  <2>2. /\ Makes(c, d, A \union B) /\ Loose(d.frag) /\ Ended(d.frag)
        /\ (~d.failed => Grown(c.inst, d.inst, A))
    BY <2>1, NoneMade
  <2> QED
    BY <2>2 DEF A, B
<1>2. CASE ~IsNoMatch(a) /\ ~IsNoMatch(b)
  <2> DEFINE first == Patch(c.inst, a.end, b.begin)
             second == Patch(c.inst, b.end, a.begin)
             nullable == b.nullable /\ a.nullable
             other == a.nullable /\ b.nullable
             x == Patched(c, a.end, b.begin)
             y == Patched(c, b.end, a.begin)
             f == Frag(b.begin, a.end, nullable)
             g == Frag(a.begin, b.end, other)
  <2>1. /\ a.begin # 0 /\ b.begin # 0
        /\ d = IF IsElided(c, a) THEN [x EXCEPT !.frag = b]
               ELSE IF reversed THEN [y EXCEPT !.frag = f]
               ELSE [x EXCEPT !.frag = g]
    BY <1>2 DEF Cat, IsNoMatch
  <2>2. /\ x.inst = first /\ x.failed = c.failed
        /\ x = [inst |-> x.inst, failed |-> x.failed, frag |-> x.frag]
        /\ y.inst = second /\ y.failed = c.failed
        /\ y = [inst |-> y.inst, failed |-> y.failed, frag |-> y.frag]
    BY PatchedFacts
  <2>3. /\ f.begin = b.begin /\ f.end = a.end /\ f = Frag(b.begin, a.end, f.nullable)
        /\ g.begin = a.begin /\ g.end = b.end /\ g = Frag(a.begin, b.end, g.nullable)
    BY DEF Frag
  <2> HIDE DEF A, B, first, second, x, y, f, g
  <2>4. ASSUME ~c.failed
        PROVE  /\ IsProgram(c.inst) /\ IsFragment(c.inst, a) /\ IsFragment(c.inst, b)
               /\ Separate(c.inst, a, b) /\ Separate(c.inst, b, a)
               /\ IsProgram(first) /\ DOMAIN first = DOMAIN c.inst
               /\ Grown(c.inst, first, A) /\ Grown(c.inst, first, A \union B)
               /\ IsProgram(second) /\ DOMAIN second = DOMAIN c.inst
               /\ Grown(c.inst, second, A \union B)
               /\ IsFragment(first, b) /\ Foot(first, b) = B
               /\ IsFragment(first, g) /\ Foot(first, g) \subseteq A \union B
               /\ Loose(b) => b.end # {}
               /\ reversed =>
                    IsFragment(second, f) /\ Foot(second, f) \subseteq A \union B
               /\ Loose(f)
    <3>1. /\ IsProgram(c.inst) /\ IsFragment(c.inst, a) /\ IsFragment(c.inst, b)
          /\ Separate(c.inst, a, b) /\ Separate(c.inst, b, a) /\ a.end # {}
          /\ Loose(b) => b.end # {}
          /\ reversed => Loose(b)
      BY <2>1, <2>4 DEF IsCompiler, Touching, Separate, Loose
    <3>2. a.begin \in DOMAIN c.inst /\ b.begin \in DOMAIN c.inst
      BY <3>1 DEF IsFragment
    <3>3. IsProgram(first) /\ DOMAIN first = DOMAIN c.inst /\ Grown(c.inst, first, A)
      BY <3>1, <3>2, PatchGrows DEF first, A
    <3>4. IsProgram(second) /\ DOMAIN second = DOMAIN c.inst /\ Grown(c.inst, second, B)
      BY <3>1, <3>2, PatchGrows DEF second, B
    <3>5. /\ IsFragment(first, b) /\ Foot(first, b) = B
          /\ IsFragment(first, g) /\ Foot(first, g) \subseteq A \union B
      BY <2>1, <2>3, <3>1, Joined DEF first, A, B
    <3>6. ASSUME reversed
          PROVE  IsFragment(second, f) /\ Foot(second, f) \subseteq A \union B
      <4>1. b.end # {}
        BY <3>1, <3>6
      <4>2. IsFragment(second, f) /\ Foot(second, f) \subseteq B \union A
        BY <2>1, <2>3, <3>1, <4>1, Joined DEF second, A, B
      <4> QED
        BY <4>2
    <3>7. Grown(c.inst, first, A \union B) /\ Grown(c.inst, second, A \union B)
      BY <3>3, <3>4 DEF Grown
    <3>8. Loose(f)
      BY <2>3, <3>1 DEF Loose
    <3> QED
      BY <3>1, <3>3, <3>4, <3>5, <3>6, <3>7, <3>8
  <2>5. IsCompiler(x) /\ IsCompiler(y)
    <3>1. c.failed \in BOOLEAN
      BY DEF IsCompiler
    <3> QED
      BY <2>2, <2>4, <3>1 DEF IsCompiler
  <2>6. CASE IsElided(c, a)
    <3>1. IsCompiler(d) /\ d.inst = first /\ d.failed = c.failed /\ d.frag = b
      BY <2>1, <2>2, <2>5, <2>6, FragFacts
    <3>2. Makes(c, d, A \union B)
      BY <2>4, <3>1 DEF Makes
    <3> QED
      BY <2>4, <3>1, <3>2 DEF A, B
  <2>7. CASE ~IsElided(c, a) /\ reversed
    <3>1. IsCompiler(d) /\ d.inst = second /\ d.failed = c.failed /\ d.frag = f
      BY <2>1, <2>2, <2>5, <2>7, FragFacts
    <3>2. Makes(c, d, A \union B)
      BY <2>4, <2>7, <3>1 DEF Makes
    <3> QED
      BY <2>4, <2>7, <3>1, <3>2 DEF A, B
  <2>8. CASE ~IsElided(c, a) /\ ~reversed
    <3>1. IsCompiler(d) /\ d.inst = first /\ d.failed = c.failed /\ d.frag = g
      BY <2>1, <2>2, <2>5, <2>8, FragFacts
    <3>2. Makes(c, d, A \union B)
      BY <2>4, <3>1 DEF Makes
    <3>3. (Loose(b) => Loose(g)) /\ (Ended(b) => Ended(g))
      BY <2>1, <2>3 DEF Loose, Ended
    <3> QED
      BY <2>4, <3>1, <3>2, <3>3 DEF A, B
  <2> QED
    BY <2>6, <2>7, <2>8
<1> QED
  BY <1>1, <1>2

\* The Alt over a and b, however it is reached.
LEMMA ForkMade ==
    ASSUME NEW c, IsCompiler(c), NEW a, NEW b, NEW nullable,
           ~c.failed => IsFragment(c.inst, a) /\ IsFragment(c.inst, b),
           a.begin # 0, b.begin # 0, NEW d,
           d = Emit(c, <<AltInst(a.begin, b.begin)>>,
                    Frag(Size(c), a.end \union b.end, nullable))
    PROVE  /\ Makes(c, d, Foot(c.inst, a) \union Foot(c.inst, b))
           /\ ~d.failed =>
                /\ Loose(a) /\ Loose(b) => Loose(d.frag)
                /\ Ended(a) /\ Ended(b) => Ended(d.frag)
                /\ d.frag.begin # 0
<1> DEFINE n == Size(c)
           x == AltInst(a.begin, b.begin)
           f == Frag(n, a.end \union b.end, nullable)
           F == Foot(c.inst, a) \union Foot(c.inst, b)
<1>1. IsInst(x) /\ x.out = a.begin /\ x.out1 = b.begin /\ Outs(x) = {a.begin, b.begin}
  BY InstFacts DEF Outs, Alts
<1>2. d = Emit(c, <<x>>, f)
  OBVIOUS
<1>3. /\ f.begin = n /\ f.end = a.end \union b.end
      /\ f = [begin |-> f.begin, end |-> f.end, nullable |-> f.nullable]
  BY DEF Frag
<1>4. ~c.failed => IsInst(x) /\ {x.out, x.out1} \subseteq DOMAIN c.inst \union {Hole}
  BY <1>1 DEF IsFragment
<1> HIDE DEF x, f
<1>5. IsCompiler(d) /\ (c.failed => d.failed) /\ (~d.failed => EmittedOne(c, d, x, f))
  BY <1>2, <1>4, EmitOne
<1>6. ASSUME ~d.failed
      PROVE  /\ Grown(c.inst, d.inst, F) /\ d.frag = f /\ IsFragment(d.inst, f)
             /\ Foot(d.inst, f) \subseteq F \union (DOMAIN d.inst \ DOMAIN c.inst)
             /\ n # 0
  <2>1. /\ ~c.failed /\ IsProgram(c.inst) /\ IsProgram(d.inst)
        /\ n # 0 /\ d.frag = f /\ n \notin DOMAIN c.inst
        /\ DOMAIN d.inst = DOMAIN c.inst \union {n}
        /\ Grown(c.inst, d.inst, {}) /\ d.inst[n] = x
    BY <1>5, <1>6 DEF EmittedOne
  <2>2. IsFragment(c.inst, a) /\ IsFragment(c.inst, b)
    BY <2>1
  <2>3. IsFragment(d.inst, a) /\ Foot(d.inst, a) = Foot(c.inst, a)
    BY <2>1, <2>2, Kept
  <2>4. IsFragment(d.inst, b) /\ Foot(d.inst, b) = Foot(c.inst, b)
    BY <2>1, <2>2, Kept
  <2> HIDE DEF n
  <2>5. HolesIn(d.inst, {n}) = {}
    <3>1. Hole \notin DOMAIN d.inst
      BY <2>1, ProgramFacts
    <3>2. a.begin # Hole /\ b.begin # Hole
      BY <2>3, <2>4, <3>1 DEF IsFragment
    <3>3. d.inst[n].out # Hole /\ d.inst[n].out1 # Hole
      BY <1>1, <2>1, <3>2
    <3> QED
      BY <3>3 DEF HolesIn
  <2>6. f = Frag(n, HolesIn(d.inst, {n}) \union a.end \union b.end, f.nullable)
    BY <1>3, <2>5 DEF Frag
  <2>7. /\ n \in DOMAIN d.inst \ {0} /\ a.begin \in Outs(d.inst[n]) /\ b.begin \in Outs(d.inst[n])
        /\ Outs(d.inst[n]) \subseteq {a.begin, b.begin, Hole}
    BY <1>1, <2>1
  <2>10. /\ IsFragment(d.inst, f)
         /\ Foot(d.inst, f) \subseteq {n} \union Foot(d.inst, a) \union Foot(d.inst, b)
    BY <2>1, <2>3, <2>4, <2>6, <2>7, Forked
  <2>12. Foot(d.inst, f) \subseteq {n} \union F
    BY <2>3, <2>4, <2>10
  <2>13. Grown(c.inst, d.inst, F)
    BY <2>1 DEF Grown
  <2> QED
    BY <2>1, <2>10, <2>12, <2>13 DEF n
<1> HIDE DEF F, n
<1>7. Makes(c, d, F)
  BY <1>5, <1>6 DEF Makes
<1>8. ASSUME ~d.failed
      PROVE  /\ Loose(a) /\ Loose(b) => Loose(d.frag)
             /\ Ended(a) /\ Ended(b) => Ended(d.frag)
             /\ d.frag.begin # 0
  BY <1>3, <1>6, <1>8 DEF Loose, Ended
<1> QED
  BY <1>7, <1>8 DEF F

LEMMA AltMade ==
    ASSUME NEW c, IsCompiler(c), NEW a, NEW b,
           ~c.failed => IsFragment(c.inst, a) /\ IsFragment(c.inst, b),
           NEW d, d = Alt(c, a, b)
    PROVE  /\ Makes(c, d, Foot(c.inst, a) \union Foot(c.inst, b))
           /\ ~d.failed =>
                /\ Loose(a) /\ Loose(b) => Loose(d.frag)
                /\ Ended(a) /\ Ended(b) => Ended(d.frag)
<1> DEFINE F == Foot(c.inst, a) \union Foot(c.inst, b)
<1>1. CASE IsNoMatch(a)
  <2>1. d = [c EXCEPT !.frag = b] /\ Foot(c.inst, b) \subseteq F
    BY <1>1 DEF Alt
  <2> HIDE DEF F
  <2>2. Makes(c, d, F) /\ d.frag = b
    BY <2>1, SameMade
  <2> QED
    BY <2>2 DEF F
<1>2. CASE ~IsNoMatch(a) /\ IsNoMatch(b)
  <2>1. d = [c EXCEPT !.frag = a] /\ Foot(c.inst, a) \subseteq F
    BY <1>2 DEF Alt
  <2> HIDE DEF F
  <2>2. Makes(c, d, F) /\ d.frag = a
    BY <2>1, SameMade
  <2> QED
    BY <2>2 DEF F
<1>3. CASE ~IsNoMatch(a) /\ ~IsNoMatch(b)
  <2>1. d = Emit(c, <<AltInst(a.begin, b.begin)>>,
                 Frag(Size(c), a.end \union b.end, a.nullable \/ b.nullable))
    BY <1>3 DEF Alt
  <2>2. a.begin # 0 /\ b.begin # 0
    BY <1>3 DEF IsNoMatch
  <2> DEFINE nullable == a.nullable \/ b.nullable
  <2>3. d = Emit(c, <<AltInst(a.begin, b.begin)>>,
                 Frag(Size(c), a.end \union b.end, nullable))
    BY <2>1
  <2> HIDE DEF nullable
  <2> QED
    BY <2>2, <2>3, ForkMade
<1> QED
  BY <1>1, <1>2, <1>3

\* The choice of a loop over a is there, and its list is the way out.
Looping(c, d, a, nongreedy, f) ==
    /\ ~c.failed /\ IsProgram(c.inst) /\ IsProgram(d.inst)
    /\ Size(c) \in DOMAIN d.inst \ Foot(d.inst, a) /\ Size(c) # 0
    /\ DOMAIN d.inst = DOMAIN c.inst \union {Size(c)} /\ Size(c) \notin DOMAIN c.inst
    /\ Grown(c.inst, d.inst, {}) /\ d.frag = f
    /\ Outs(d.inst[Size(c)]) = {a.begin, Hole}
    /\ HolesIn(d.inst, {Size(c)}) = WayOut(c, nongreedy) /\ WayOut(c, nongreedy) # {}
    /\ IsFragment(d.inst, a) /\ Foot(d.inst, a) = Foot(c.inst, a)

LEMMA ChoiceMade ==
    ASSUME NEW c, IsCompiler(c), NEW a, ~c.failed => IsFragment(c.inst, a),
           NEW nongreedy \in BOOLEAN,
           NEW f, NEW d, d = Emit(c, <<Choice(a.begin, nongreedy)>>, f)
    PROVE  /\ IsCompiler(d) /\ (c.failed => d.failed)
           /\ ~d.failed => Looping(c, d, a, nongreedy, f)
<1> DEFINE n == Size(c)
           x == Choice(a.begin, nongreedy)
<1>1. /\ IsInst(x) /\ Outs(x) = {a.begin, Hole}
      /\ nongreedy => x.out = Hole /\ x.out1 = a.begin
      /\ ~nongreedy => x.out = a.begin /\ x.out1 = Hole
  <2>1. \A y, z : /\ AltInst(y, z).op = "Alt" /\ AltInst(y, z).out = y
                  /\ AltInst(y, z).out1 = z /\ IsInst(AltInst(y, z))
    BY InstFacts
  <2>2. x = IF nongreedy THEN AltInst(Hole, a.begin) ELSE AltInst(a.begin, Hole)
    BY DEF Choice
  <2> HIDE DEF x
  <2>3. CASE nongreedy
    BY <2>1, <2>2, <2>3 DEF Outs, Alts
  <2>4. CASE ~nongreedy
    BY <2>1, <2>2, <2>4 DEF Outs, Alts
  <2> QED
    BY <2>3, <2>4
<1>2. d = Emit(c, <<x>>, f)
  OBVIOUS
<1> HIDE DEF x
<1>3. ~c.failed => IsInst(x) /\ {x.out, x.out1} \subseteq DOMAIN c.inst \union {Hole}
  <2>1. ~c.failed => a.begin \in DOMAIN c.inst
    BY DEF IsFragment
  <2> QED
    BY <1>1, <2>1
<1>4. IsCompiler(d) /\ (c.failed => d.failed) /\ (~d.failed => EmittedOne(c, d, x, f))
  BY <1>2, <1>3, EmitOne
<1>5. ASSUME ~d.failed PROVE Looping(c, d, a, nongreedy, f)
  <2>1. /\ ~c.failed /\ IsProgram(c.inst) /\ IsProgram(d.inst)
        /\ n # 0 /\ d.frag = f /\ n \notin DOMAIN c.inst
        /\ DOMAIN d.inst = DOMAIN c.inst \union {n}
        /\ Grown(c.inst, d.inst, {}) /\ d.inst[n] = x
    BY <1>4, <1>5 DEF EmittedOne
  <2>2. IsFragment(c.inst, a) /\ Foot(c.inst, a) \in SUBSET DOMAIN c.inst
    BY <2>1, FragmentFacts
  <2>3. IsFragment(d.inst, a) /\ Foot(d.inst, a) = Foot(c.inst, a)
    BY <2>1, <2>2, Kept
  <2>4. a.begin # Hole
    <3>1. a.begin \in DOMAIN c.inst /\ Hole \notin DOMAIN c.inst
      BY <2>1, <2>2, ProgramFacts DEF IsFragment
    <3> QED
      BY <3>1
  <2> HIDE DEF n
  <2>5. HolesIn(d.inst, {n}) = {<<n, IF nongreedy THEN "out" ELSE "out1">>}
    <3>1. CASE nongreedy
      <4>1. d.inst[n].out = Hole /\ d.inst[n].out1 # Hole
        BY <1>1, <2>1, <2>4, <3>1
      <4> QED
        BY <3>1, <4>1 DEF HolesIn
    <3>2. CASE ~nongreedy
      <4>1. d.inst[n].out # Hole /\ d.inst[n].out1 = Hole
        BY <1>1, <2>1, <2>4, <3>2
      <4> QED
        BY <3>2, <4>1 DEF HolesIn
    <3> QED
      BY <3>1, <3>2
  <2>6. WayOut(c, nongreedy) = {<<n, IF nongreedy THEN "out" ELSE "out1">>}
    BY DEF WayOut, n
  <2>7. HolesIn(d.inst, {n}) = WayOut(c, nongreedy) /\ WayOut(c, nongreedy) # {}
    BY <2>5, <2>6
  <2>8. Outs(d.inst[n]) = {a.begin, Hole}
    BY <1>1, <2>1
  <2> QED
    BY <2>1, <2>2, <2>3, <2>7, <2>8 DEF Looping, n
<1> QED
  BY <1>4, <1>5

\* A loop from whose end the choice n is next, entered at n or at a.
LEMMA LoopMade ==
    ASSUME NEW c, IsCompiler(c), NEW a, ~c.failed => IsFragment(c.inst, a) /\ Loose(a),
           NEW nongreedy \in BOOLEAN, NEW f, NEW d,
           \/ f = Frag(Size(c), WayOut(c, nongreedy), f.nullable)
           \/ f = Frag(a.begin, WayOut(c, nongreedy), f.nullable),
           d = Patched(Emit(c, <<Choice(a.begin, nongreedy)>>, f), a.end, Size(c))
    PROVE  Makes(c, d, Foot(c.inst, a)) /\ (~d.failed => Loose(d.frag))
<1> DEFINE n == Size(c)
           W == WayOut(c, nongreedy)
           e == Emit(c, <<Choice(a.begin, nongreedy)>>, f)
           new == Patch(e.inst, a.end, n)
           F == Foot(c.inst, a)
<1>1. /\ IsCompiler(e) /\ (c.failed => e.failed)
      /\ ~e.failed => Looping(c, e, a, nongreedy, f)
  <2>1. e = Emit(c, <<Choice(a.begin, nongreedy)>>, f)
    OBVIOUS
  <2> HIDE DEF e
  <2> QED
    BY <2>1, ChoiceMade
<1>2. d = Patched(e, a.end, n)
  OBVIOUS
<1> HIDE DEF e
<1>3. /\ d.inst = new /\ d.failed = e.failed /\ d.frag = e.frag
      /\ d = [inst |-> d.inst, failed |-> d.failed, frag |-> d.frag]
  <2>1. /\ Patched(e, a.end, n).inst = Patch(e.inst, a.end, n)
        /\ Patched(e, a.end, n).failed = e.failed /\ Patched(e, a.end, n).frag = e.frag
        /\ Patched(e, a.end, n) = [inst |-> Patch(e.inst, a.end, n), failed |-> e.failed,
                                   frag |-> e.frag]
    BY <1>1, PatchedFacts
  <2> DEFINE p == Patched(e, a.end, n)
  <2>2. p.inst = new /\ p.failed = e.failed /\ p.frag = e.frag
        /\ p = [inst |-> new, failed |-> e.failed, frag |-> e.frag] /\ d = p
    BY <1>2, <2>1
  <2> HIDE DEF p, new
  <2> QED
    BY <2>2
<1>4. f.end = W /\ f.begin \in {n, a.begin}
  BY DEF Frag
<1> HIDE DEF W, n, F, new
<1>5. ASSUME ~e.failed
      PROVE  /\ IsProgram(new) /\ Grown(c.inst, new, F) /\ e.frag = f /\ Loose(f)
             /\ IsFragment(new, f)
             /\ Foot(new, f) \subseteq F \union (DOMAIN new \ DOMAIN c.inst)
  <2>1. /\ ~c.failed /\ IsProgram(c.inst) /\ IsProgram(e.inst)
        /\ n \in DOMAIN e.inst \ Foot(e.inst, a) /\ n # 0
        /\ DOMAIN e.inst = DOMAIN c.inst \union {n} /\ n \notin DOMAIN c.inst
        /\ Grown(c.inst, e.inst, {}) /\ e.frag = f
        /\ Outs(e.inst[n]) = {a.begin, Hole} /\ HolesIn(e.inst, {n}) = W /\ W # {}
        /\ IsFragment(e.inst, a) /\ Foot(e.inst, a) = F
    BY <1>1, <1>5 DEF Looping, n, W, F
  <2>2. IsProgram(new) /\ DOMAIN new = DOMAIN e.inst /\ Grown(e.inst, new, F)
    BY <2>1, PatchGrows DEF new
  <2> DEFINE g == Frag(n, HolesIn(e.inst, {n}), f.nullable)
             h == Frag(a.begin, HolesIn(e.inst, {n}), f.nullable)
  <2>3. g = Frag(n, HolesIn(e.inst, {n}), g.nullable)
        /\ h = Frag(a.begin, HolesIn(e.inst, {n}), h.nullable)
    BY DEF Frag
  <2>4. f = g \/ f = h
    BY <2>1 DEF n, W
  <2> HIDE DEF g, h
  <2>5. Loose(a)
    BY <2>1
  <2>6. /\ IsFragment(new, g) /\ IsFragment(new, h)
        /\ Foot(new, g) \subseteq F \union {n} /\ Foot(new, h) \subseteq F \union {n}
    BY <2>1, <2>3, <2>5, Looped DEF new
  <2>7. IsFragment(new, f) /\ Foot(new, f) \subseteq F \union {n}
    BY <2>4, <2>6
  <2>8. Grown(c.inst, new, F)
    BY <2>1, <2>2 DEF Grown
  <2>9. Loose(f)
    BY <1>4, <2>1 DEF Loose
  <2> QED
    BY <2>1, <2>2, <2>7, <2>8, <2>9
<1>6. IsCompiler(d)
  <2>1. e.failed \in BOOLEAN
    BY <1>1 DEF IsCompiler
  <2> QED
    BY <1>3, <1>5, <2>1 DEF IsCompiler
<1>7. Makes(c, d, F)
  BY <1>1, <1>3, <1>5, <1>6 DEF Makes
<1> QED
  BY <1>3, <1>5, <1>7 DEF F

LEMMA PlusMade ==
    ASSUME NEW c, IsCompiler(c), NEW a, ~c.failed => IsFragment(c.inst, a) /\ Loose(a),
           NEW nongreedy \in BOOLEAN, NEW d, d = Plus(c, a, nongreedy)
    PROVE  Makes(c, d, Foot(c.inst, a)) /\ (~d.failed => Loose(d.frag))
<1> DEFINE f == Frag(a.begin, WayOut(c, nongreedy), a.nullable)
<1>1. f = Frag(a.begin, WayOut(c, nongreedy), f.nullable)
  BY DEF Frag
<1>2. d = Patched(Emit(c, <<Choice(a.begin, nongreedy)>>, f), a.end, Size(c))
  BY DEF Plus
<1> HIDE DEF f
<1> QED
  BY <1>1, <1>2, LoopMade

LEMMA QuestMade ==
    ASSUME NEW c, IsCompiler(c), NEW a, ~c.failed => IsFragment(c.inst, a),
           NEW nongreedy \in BOOLEAN, NEW d, d = Quest(c, a, nongreedy)
    PROVE  Makes(c, d, Foot(c.inst, a)) /\ (~d.failed => Loose(d.frag))
<1> DEFINE n == Size(c)
           W == WayOut(c, nongreedy)
           F == Foot(c.inst, a)
           f == Frag(n, W \union a.end, TRUE)
<1>1. CASE IsNoMatch(a)
  <2>1. d = Nop(c)
    BY <1>1 DEF Quest
  <2>2. Makes(c, d, {}) /\ (~d.failed => Loose(d.frag))
    BY <2>1, NopMade
  <2> HIDE DEF F
  <2>3. Makes(c, d, F)
    BY <2>2 DEF Makes, Grown
  <2> QED
    BY <2>2, <2>3 DEF F
<1>2. CASE ~IsNoMatch(a)
  <2>1. d = Emit(c, <<Choice(a.begin, nongreedy)>>, f)
    BY <1>2 DEF Quest
  <2>2. f.begin = n /\ f.end = W \union a.end /\ f = Frag(n, W \union a.end, f.nullable)
    BY DEF Frag
  <2>3. a.begin # 0
    BY <1>2 DEF IsNoMatch
  <2> HIDE DEF f
  <2>4. /\ IsCompiler(d) /\ (c.failed => d.failed)
        /\ ~d.failed => Looping(c, d, a, nongreedy, f)
    BY <2>1, ChoiceMade
  <2> HIDE DEF n, W, F
  <2>5. ASSUME ~d.failed
        PROVE  /\ Grown(c.inst, d.inst, F) /\ d.frag = f /\ Loose(f) /\ IsFragment(d.inst, f)
               /\ Foot(d.inst, f) \subseteq F \union (DOMAIN d.inst \ DOMAIN c.inst)
    <3>1. /\ IsProgram(d.inst) /\ n \in DOMAIN d.inst \ {0}
          /\ DOMAIN d.inst = DOMAIN c.inst \union {n} /\ n \notin DOMAIN c.inst
          /\ Grown(c.inst, d.inst, {}) /\ d.frag = f
          /\ Outs(d.inst[n]) = {a.begin, Hole} /\ HolesIn(d.inst, {n}) = W /\ W # {}
          /\ IsFragment(d.inst, a) /\ Foot(d.inst, a) = F
      BY <2>4, <2>5 DEF Looping, n, W, F
    <3>2. f = Frag(n, HolesIn(d.inst, {n}) \union a.end \union a.end, f.nullable)
      <4>1. W \union a.end \union a.end = W \union a.end
        OBVIOUS
      <4> QED
        BY <2>2, <3>1, <4>1
    <3>3. a.begin \in Outs(d.inst[n]) /\ Outs(d.inst[n]) \subseteq {a.begin, a.begin, Hole}
      BY <3>1
    <3>4. IsFragment(d.inst, f) /\ Foot(d.inst, f) \subseteq {n} \union F
      BY <2>3, <3>1, <3>2, <3>3, Forked
    <3>5. Grown(c.inst, d.inst, F) /\ Loose(f)
      BY <2>2, <3>1 DEF Grown, Loose
    <3> QED
      BY <3>1, <3>4, <3>5
  <2>6. Makes(c, d, F) /\ (~d.failed => Loose(d.frag))
    BY <2>4, <2>5 DEF Makes
  <2> QED
    BY <2>6 DEF F
<1> QED
  BY <1>1, <1>2

LEMMA StarMade ==
    ASSUME NEW c, IsCompiler(c), NEW a, ~c.failed => IsFragment(c.inst, a) /\ Loose(a),
           NEW nongreedy \in BOOLEAN, NEW d, d = Star(c, a, nongreedy)
    PROVE  Makes(c, d, Foot(c.inst, a)) /\ (~d.failed => Loose(d.frag))
<1>1. CASE a.nullable
  <2> DEFINE p == Plus(c, a, nongreedy)
             F == Foot(c.inst, a)
             G == Foot(p.inst, p.frag)
  <2>1. d = Quest(p, p.frag, nongreedy)
    BY <1>1 DEF Star
  <2>2. Makes(c, p, F)
    <3>1. p = Plus(c, a, nongreedy)
      OBVIOUS
    <3> HIDE DEF p
    <3> QED
      BY <3>1, PlusMade
  <2> HIDE DEF p, F
  <2>3. IsCompiler(p) /\ (~p.failed => IsFragment(p.inst, p.frag))
    BY <2>2 DEF Makes
  <2>4. Makes(p, d, G) /\ (~d.failed => Loose(d.frag))
    BY <2>1, <2>3, QuestMade
  <2>5. ~p.failed => G \subseteq F \union {0} \union (DOMAIN p.inst \ DOMAIN c.inst)
    BY <2>2 DEF Makes
  <2> HIDE DEF G
  <2>6. Makes(c, d, F)
    BY <2>2, <2>4, <2>5, Chain
  <2> QED
    BY <2>4, <2>6 DEF F
<1>2. CASE ~a.nullable
  <2> DEFINE f == Frag(Size(c), WayOut(c, nongreedy), TRUE)
  <2>1. f = Frag(Size(c), WayOut(c, nongreedy), f.nullable)
    BY DEF Frag
  <2>2. d = Patched(Emit(c, <<Choice(a.begin, nongreedy)>>, f), a.end, Size(c))
    BY <1>2 DEF Star
  <2> HIDE DEF f
  <2> QED
    BY <2>1, <2>2, LoopMade
<1> QED
  BY <1>1, <1>2

LEMMA CaptureMade ==
    ASSUME NEW c, IsCompiler(c), NEW a, ~c.failed => IsFragment(c.inst, a) /\ Loose(a),
           NEW cap, NEW d, d = Capture(c, a, cap)
    PROVE  Makes(c, d, Foot(c.inst, a)) /\ (~d.failed => Loose(d.frag))
<1> DEFINE F == Foot(c.inst, a)
<1>1. CASE IsNoMatch(a)
  <2>1. d = [c EXCEPT !.frag = NoMatch]
    BY <1>1 DEF Capture
  <2> QED
    BY <2>1, NoneMade
<1>2. CASE ~IsNoMatch(a)
  <2> DEFINE n == Size(c)
             x == CaptureInst(2 * cap, a.begin)
             y == CaptureInst(2 * cap + 1, Hole)
             two == <<x, y>>
             W == {<<n + 1, "out">>}
             f == Frag(n, W, a.nullable)
             e == Emit(c, two, f)
             new == Patch(e.inst, a.end, n + 1)
  <2>1. /\ IsInst(x) /\ x.out = a.begin /\ x.out1 = 0 /\ Outs(x) = {a.begin}
        /\ IsInst(y) /\ y.out = Hole /\ y.out1 = 0 /\ Outs(y) = {Hole}
    BY InstFacts DEF Outs, Alts
  <2>2. d = Patched(e, a.end, n + 1) /\ a.begin # 0
    BY <1>2 DEF Capture, IsNoMatch
  <2>3. /\ f.begin = n /\ f.end = W /\ W # {}
        /\ f = [begin |-> f.begin, end |-> f.end, nullable |-> f.nullable]
        /\ f = Frag(n, W, f.nullable)
    BY DEF Frag
  <2> HIDE DEF x, y, f
  <2>4. Len(two) = 2 /\ two[1] = x /\ two[2] = y
    OBVIOUS
  <2> HIDE DEF two
  <2>5. ASSUME ~c.failed PROVE CanFollow(c, two)
    <3>1. IsProgram(c.inst) /\ a.begin \in DOMAIN c.inst
      BY <2>5 DEF IsCompiler, IsFragment
    <3>2. n \in Nat /\ DOMAIN c.inst = 0 .. n - 1 /\ 0 \in DOMAIN c.inst
      BY <3>1, ProgramFacts DEF Size
    <3> HIDE DEF n
    <3>3. 0 .. n - 1 \subseteq 0 .. n + 2 - 1
      BY <3>2, SMT
    <3>4. 1 .. Len(two) = {1, 2}
      BY <2>4, SMT
    <3>5. \A k \in {1, 2} : /\ IsInst(two[k])
                            /\ {two[k].out, two[k].out1} \subseteq 0 .. n + 2 - 1 \union {Hole}
      BY <2>1, <2>4, <3>1, <3>2, <3>3
    <3> QED
      BY <2>4, <3>4, <3>5 DEF CanFollow, n
  <2>6. Len(two) \in Nat \ {0}
    BY <2>4
  <2>7. /\ IsCompiler(e) /\ (c.failed => e.failed)
        /\ ~e.failed => Emitted(c, e, two, f)
    BY <2>5, <2>6, EmitFacts
  <2> HIDE DEF e
  <2>8. /\ d.inst = new /\ d.failed = e.failed /\ d.frag = e.frag
        /\ d = [inst |-> d.inst, failed |-> d.failed, frag |-> d.frag]
    <3>1. /\ Patched(e, a.end, n + 1).inst = Patch(e.inst, a.end, n + 1)
          /\ Patched(e, a.end, n + 1).failed = e.failed /\ Patched(e, a.end, n + 1).frag = e.frag
          /\ Patched(e, a.end, n + 1) = [inst |-> Patch(e.inst, a.end, n + 1), failed |-> e.failed,
                                         frag |-> e.frag]
      BY <2>7, PatchedFacts
    <3> DEFINE p == Patched(e, a.end, n + 1)
    <3>2. p.inst = new /\ p.failed = e.failed /\ p.frag = e.frag
          /\ p = [inst |-> new, failed |-> e.failed, frag |-> e.frag] /\ d = p
      BY <2>2, <3>1
    <3> HIDE DEF p, new
    <3> QED
      BY <3>2
  <2> HIDE DEF F, new, n, W
  <2>9. ASSUME ~e.failed
        PROVE  /\ IsProgram(new) /\ Grown(c.inst, new, F) /\ e.frag = f
               /\ IsFragment(new, f)
               /\ Foot(new, f) \subseteq F \union (DOMAIN new \ DOMAIN c.inst)
    <3> DEFINE m == n + 1
    <3>1. /\ ~c.failed /\ IsProgram(c.inst) /\ IsProgram(e.inst) /\ n \in Nat \ {0}
          /\ e.frag = f /\ DOMAIN c.inst = 0 .. n - 1
          /\ DOMAIN e.inst = 0 .. n + Len(two) - 1 /\ Grown(c.inst, e.inst, {})
          /\ \A k \in 1 .. Len(two) : e.inst[n + k - 1] = two[k]
      BY <2>7, <2>9 DEF Emitted, n
    <3>2. /\ n \notin 0 .. n - 1 /\ m \notin 0 .. n - 1 /\ m # 0 /\ m # n
          /\ n \in 0 .. n + 2 - 1 /\ m \in 0 .. n + 2 - 1
          /\ n + 1 - 1 = n /\ n + 2 - 1 = m /\ 1 \in 1 .. 2 /\ 2 \in 1 .. 2
      BY <3>1, SMT
    <3>3. e.inst[n] = x /\ e.inst[m] = y
      BY <2>4, <3>1, <3>2
    <3>4. n \in DOMAIN e.inst \ DOMAIN c.inst /\ m \in DOMAIN e.inst \ DOMAIN c.inst
      BY <2>4, <3>1, <3>2
    <3>5. m # 0 /\ m # n /\ n # 0 /\ W = {<<m, "out">>} /\ new = Patch(e.inst, a.end, m)
      BY <3>1, <3>2 DEF W, new
    <3> HIDE DEF m
    <3>6. IsFragment(c.inst, a) /\ Foot(c.inst, a) \in SUBSET DOMAIN c.inst /\ a.end # {}
      BY <2>2, <3>1, FragmentFacts DEF Loose
    <3>7. IsFragment(e.inst, a) /\ Foot(e.inst, a) = F
      BY <3>1, <3>6, Kept DEF F
    <3>8. /\ Reach(e.inst, {m}) = {m} /\ HolesIn(e.inst, {m}) = W
      <4>1. Outs(e.inst[m]) = {Hole} /\ e.inst[m].out = Hole /\ e.inst[m].out1 # Hole
        BY <2>1, <3>3 DEF Hole
      <4>2. Reach(e.inst, {m}) = {m}
        BY <3>1, <3>4, <4>1, ReachEnd
      <4> QED
        BY <3>5, <4>1, <4>2 DEF HolesIn
    <3> DEFINE b == Frag(m, W, TRUE)
               g == Frag(a.begin, W, TRUE)
    <3>9. /\ b.begin = m /\ b.end = W
          /\ b = [begin |-> b.begin, end |-> b.end, nullable |-> b.nullable]
          /\ g.begin = a.begin /\ g.end = W /\ g = Frag(a.begin, b.end, g.nullable)
      BY DEF Frag
    <3> HIDE DEF b, g
    <3>10. IsFragment(e.inst, b) /\ Foot(e.inst, b) = {m}
      <4>1. {m} \in SUBSET DOMAIN e.inst
        BY <3>4
      <4>2. W \subseteq HolesIn(e.inst, DOMAIN e.inst)
        BY <3>1, <3>8, <4>1, HolesFacts
      <4>3. IsFragment(e.inst, b)
        BY <3>4, <3>8, <3>9, <4>2 DEF IsFragment
      <4>4. {h[1] : h \in W} = {m}
        BY <3>5
      <4> QED
        BY <3>8, <3>9, <4>3, <4>4 DEF Foot
    <3>11. Separate(e.inst, a, b)
      BY <3>4, <3>6, <3>7, <3>10 DEF Separate, F
    <3>12. IsFragment(new, g) /\ Foot(new, g) \subseteq F \union {m}
      BY <2>2, <3>1, <3>5, <3>6, <3>7, <3>9, <3>10, <3>11, Joined
    <3>13. IsProgram(new) /\ DOMAIN new = DOMAIN e.inst /\ Grown(e.inst, new, F)
      BY <3>1, <3>4, <3>5, <3>7, PatchGrows
    <3>14. new[n] = x
      BY <3>3, <3>4, <3>6, <3>13 DEF Grown, F
    <3>15. HolesIn(new, {n}) = {}
      <4>1. a.begin # Hole
        BY <3>1, <3>6, ProgramFacts DEF IsFragment
      <4>2. new[n].out # Hole /\ new[n].out1 # Hole
        BY <2>1, <3>14, <4>1 DEF Hole
      <4> QED
        BY <4>2 DEF HolesIn
    <3>16. f = Frag(n, HolesIn(new, {n}) \union g.end \union g.end, f.nullable)
      <4>1. {} \union W \union W = W
        OBVIOUS
      <4> QED
        BY <2>3, <3>9, <3>15, <4>1
    <3>17. IsFragment(new, f) /\ Foot(new, f) \subseteq {n} \union F \union {m}
      <4>1. /\ n \in DOMAIN new \ {0} /\ g.begin # 0 /\ g.begin \in Outs(new[n])
            /\ Outs(new[n]) \subseteq {g.begin, g.begin, Hole}
        BY <2>1, <2>2, <3>4, <3>5, <3>9, <3>13, <3>14
      <4>2. /\ IsFragment(new, f)
            /\ Foot(new, f) \subseteq {n} \union Foot(new, g) \union Foot(new, g)
        BY <3>12, <3>13, <3>16, <4>1, Forked
      <4> QED
        BY <3>12, <4>2
    <3>18. Grown(c.inst, new, F)
      BY <3>1, <3>13 DEF Grown
    <3> QED
      BY <3>1, <3>4, <3>13, <3>17, <3>18
  <2>10. IsCompiler(d)
    <3>1. e.failed \in BOOLEAN
      BY <2>7 DEF IsCompiler
    <3> QED
      BY <2>8, <2>9, <3>1 DEF IsCompiler
  <2>11. Makes(c, d, F)
    BY <2>7, <2>8, <2>9, <2>10 DEF Makes
  <2>12. ~d.failed => Loose(d.frag)
    BY <2>3, <2>8, <2>9 DEF Loose
  <2> QED
    BY <2>11, <2>12 DEF F
<1> QED
  BY <1>1, <1>2

\* One more range of a class.
LEMMA RangeAdded ==
    ASSUME NEW c, IsCompiler(c), NEW c0, IsCompiler(c0), Makes(c0, c, {}),
           ~c.failed => Loose(c.frag), NEW cc, NEW r, NEW d, d = AddClassRange(c, cc, r)
    PROVE  Makes(c0, d, {}) /\ (~d.failed => Loose(d.frag))
<1>1. CASE d = c
  BY <1>1
<1>2. ASSUME NEW lo, NEW hi, NEW fold, d = AddRuneRange(c, lo, hi, fold)
      PROVE  Makes(c0, d, {}) /\ (~d.failed => Loose(d.frag))
  <2> DEFINE e == ByteRange(c, lo, hi, fold)
             F == Foot(e.inst, c.frag) \union Foot(e.inst, e.frag)
  <2>1. Makes(c, e, {}) /\ (~e.failed => Loose(e.frag) /\ e.frag.begin # 0)
    BY ByteRangeMade
  <2>2. d = IF e.failed \/ c.frag.begin = 0 THEN e
            ELSE Emit(e, <<AltInst(c.frag.begin, e.frag.begin)>>,
                      Frag(Size(e), c.frag.end \union e.frag.end, FALSE))
    BY <1>2 DEF AddRuneRange
  <2> HIDE DEF e
  <2>3. Makes(c0, e, {})
    <3>1. {} \subseteq {} \union {0} \union (DOMAIN c.inst \ DOMAIN c0.inst)
      OBVIOUS
    <3> QED
      BY <2>1, <3>1, Chain
  <2>4. CASE e.failed \/ c.frag.begin = 0
    <3>1. d = e
      BY <2>2, <2>4
    <3> QED
      BY <2>1, <2>3, <3>1
  <2>5. CASE ~e.failed /\ c.frag.begin # 0
    <3>1. d = Emit(e, <<AltInst(c.frag.begin, e.frag.begin)>>,
                   Frag(Size(e), c.frag.end \union e.frag.end, FALSE))
      BY <2>2, <2>5
    <3>2. ~c.failed /\ IsCompiler(e)
      BY <2>1, <2>5 DEF Makes
    <3>3. /\ IsFragment(c.inst, c.frag)
          /\ Foot(c.inst, c.frag) \subseteq {0} \union (DOMAIN c.inst \ DOMAIN c0.inst)
      BY <3>2 DEF Makes
    <3>4. /\ IsFragment(e.inst, c.frag) /\ Foot(e.inst, c.frag) = Foot(c.inst, c.frag)
          /\ IsFragment(e.inst, e.frag)
      <4>1. Foot(c.inst, c.frag) \intersect {} \subseteq {0}
        OBVIOUS
      <4> QED
        BY <2>1, <2>5, <3>3, <4>1, Apart
    <3>5. Makes(e, d, F) /\ (~d.failed => Loose(d.frag))
      <4>1. c.frag.begin # 0 /\ e.frag.begin # 0 /\ Loose(c.frag) /\ Loose(e.frag)
        BY <2>1, <2>5, <3>2
      <4> QED
        BY <3>1, <3>2, <3>4, <4>1, ForkMade
    <3>6. F \subseteq {} \union {0} \union (DOMAIN e.inst \ DOMAIN c0.inst)
      <4>1. Foot(e.inst, e.frag) \subseteq {} \union {0} \union (DOMAIN e.inst \ DOMAIN c0.inst)
        BY <2>3, <2>5 DEF Makes
      <4>2. DOMAIN c.inst \subseteq DOMAIN e.inst
        BY <2>1, <2>5 DEF Makes, Grown
      <4> QED
        BY <3>3, <3>4, <4>1, <4>2
    <3> HIDE DEF F
    <3>7. Makes(c0, d, {})
      BY <2>3, <3>5, <3>6, Chain
    <3> QED
      BY <3>5, <3>7
  <2> QED
    BY <2>4, <2>5
<1>3. d = c \/ \E lo, hi, fold : d = AddRuneRange(c, lo, hi, fold)
  BY DEF AddClassRange
<1> QED
  BY <1>1, <1>2, <1>3

LEMMA DotStarMade ==
    ASSUME NEW c, IsCompiler(c), NEW d, d = DotStar(c)
    PROVE  Makes(c, d, {}) /\ (~d.failed => Loose(d.frag))
<1> DEFINE e == ByteRange(c, 0, MaxByte, FALSE)
           F == Foot(e.inst, e.frag)
<1>1. Makes(c, e, {}) /\ (~e.failed => Loose(e.frag))
  BY ByteRangeMade
<1>2. d = Star(e, e.frag, TRUE)
  BY DEF DotStar
<1> HIDE DEF e
<1>3. IsCompiler(e) /\ (~e.failed => IsFragment(e.inst, e.frag))
      /\ (~e.failed => F \subseteq {} \union {0} \union (DOMAIN e.inst \ DOMAIN c.inst))
  BY <1>1 DEF Makes
<1>4. Makes(e, d, F) /\ (~d.failed => Loose(d.frag))
  BY <1>1, <1>2, <1>3, StarMade
<1> HIDE DEF F
<1>5. Makes(c, d, {})
  BY <1>1, <1>3, <1>4, Chain
<1> QED
  BY <1>4, <1>5

LEMMA HaveMatchMade ==
    ASSUME NEW c, IsCompiler(c), NEW id, NEW k, NEW d, d = HaveMatch(c, id, k)
    PROVE  Makes(c, d, {}) /\ (~d.failed => Ended(d.frag))
<1> DEFINE m == Match(c, id)
           e == EmptyWidth(m, "EndText")
           F == Foot(e.inst, e.frag) \union Foot(e.inst, m.frag)
<1>1. Makes(c, m, {}) /\ (~m.failed => Ended(m.frag))
  BY MatchMade
<1>2. d = IF k = "ANCHOR_BOTH" THEN Cat(e, e.frag, m.frag, FALSE) ELSE m
  BY DEF HaveMatch
<1>3. IsCompiler(m)
  <2> HIDE DEF m
  <2> QED
    BY <1>1 DEF Makes
<1> HIDE DEF m
<1>4. Makes(m, e, {}) /\ (~e.failed => Loose(e.frag))
  BY <1>3, EmptyWidthMade
<1> HIDE DEF e
<1>5. CASE k # "ANCHOR_BOTH"
  BY <1>1, <1>2, <1>5
<1>6. CASE k = "ANCHOR_BOTH"
  <2>1. Makes(c, e, {}) /\ IsCompiler(e)
    <3>1. {} \subseteq {} \union {0} \union (DOMAIN m.inst \ DOMAIN c.inst)
      OBVIOUS
    <3>2. Makes(c, e, {})
      BY <1>1, <1>4, <3>1, Chain
    <3> QED
      BY <3>2 DEF Makes
  <2>2. ASSUME ~e.failed
        PROVE  /\ Touching(e, e.frag, m.frag) /\ Loose(e.frag) /\ Ended(m.frag)
               /\ F \subseteq {} \union {0} \union (DOMAIN e.inst \ DOMAIN c.inst)
    <3>1. ~m.failed /\ Ended(m.frag)
      BY <1>1, <1>4, <2>2 DEF Makes
    <3>2. /\ IsFragment(m.inst, m.frag)
          /\ Foot(m.inst, m.frag) \subseteq {0} \union (DOMAIN m.inst \ DOMAIN c.inst)
          /\ DOMAIN m.inst \subseteq DOMAIN e.inst
      BY <1>1, <1>4, <2>2, <3>1 DEF Makes, Grown
    <3>3. Foot(m.inst, m.frag) \intersect {} \subseteq {0}
      OBVIOUS
    <3>4. /\ IsFragment(e.inst, m.frag) /\ Foot(e.inst, m.frag) = Foot(m.inst, m.frag)
          /\ IsFragment(e.inst, e.frag) /\ Separate(e.inst, e.frag, m.frag)
      BY <1>3, <1>4, <2>2, <3>2, <3>3, Apart
    <3>5. Foot(e.inst, e.frag) \subseteq {} \union {0} \union (DOMAIN e.inst \ DOMAIN c.inst)
      BY <2>1, <2>2 DEF Makes
    <3> QED
      BY <1>4, <2>2, <3>1, <3>2, <3>4, <3>5 DEF Touching
  <2>3. d = Cat(e, e.frag, m.frag, FALSE)
    BY <1>2, <1>6
  <2>4. Makes(e, d, F) /\ (~d.failed => (Ended(m.frag) => Ended(d.frag)))
    BY <2>1, <2>2, <2>3, CatMade
  <2>5. ~d.failed => ~e.failed
    BY <2>4 DEF Makes
  <2> HIDE DEF F
  <2>6. Makes(c, d, {})
    BY <2>1, <2>2, <2>4, Chain
  <2> QED
    BY <2>2, <2>4, <2>5, <2>6
<1> QED
  BY <1>5, <1>6

-----------------------------------------------------------------------------
(* The loops over ranges and over fragments *)

\* One turn of one of them.
OneMore(how, d, x) ==
    CASE how.op = "Concat" -> Cat(d, d.frag, x, how.reversed)
      [] how.op = "Alternate" -> Alt(d, d.frag, x)
      [] OTHER -> AddClassRange(d, how.cc, x)

\* The function that a fold stands for, by the turns of such a loop.
Iterates(g, how, base, seq) ==
    [s \in SUBSET DOMAIN seq |->
        IF s = {} THEN base ELSE OneMore(how, g[s \ {Max(s)}], seq[Max(s)])]

\* The greatest of the first m positions.
LEMMA MaxOfFirst ==
    ASSUME NEW m \in Nat
    PROVE  /\ \A s \in SUBSET (1 .. m) : s # {} => Max(s) \in s
           /\ \A s \in SUBSET (1 .. m) : m \in s => Max(s) = m
<1>1. \A s \in SUBSET (1 .. m) : s \in SUBSET (0 .. m)
  BY SMT
<1>2. \A s \in SUBSET (1 .. m) : s # {} => Max(s) \in s /\ \A k \in s : k <= Max(s)
  BY <1>1, MaxIsGreatest
<1>3. ASSUME NEW s \in SUBSET (1 .. m), m \in s PROVE Max(s) = m
  <2>1. Max(s) \in 1 .. m /\ m <= Max(s)
    BY <1>2, <1>3
  <2> QED
    BY <2>1, SMT
<1> QED
  BY <1>2, <1>3

LEMMA FoldExists ==
    ASSUME NEW how, NEW base, NEW seq, NEW n \in Nat, DOMAIN seq = 1 .. n
    PROVE  \E g : g = Iterates(g, how, base, seq)
<1> DEFINE Upto(g, m) ==
                g = [s \in SUBSET (1 .. m) |->
                        IF s = {} THEN base
                        ELSE OneMore(how, g[s \ {Max(s)}], seq[Max(s)])]
           P == {m \in 0 .. n : \E g : Upto(g, m)}
<1>1. 0 \in P
  <2> DEFINE g == [s \in SUBSET (1 .. 0) |-> base]
  <2>1. 1 .. 0 = {} /\ 0 \in 0 .. n
    BY SMT
  <2>2. \A s \in SUBSET (1 .. 0) : s = {}
    BY <2>1
  <2>3. Upto(g, 0)
    BY <2>2
  <2> QED
    BY <2>1, <2>3
<1>2. ASSUME NEW m \in 1 .. n, m - 1 \in P PROVE m \in P
  <2>1. PICK g : Upto(g, m - 1)
    BY <1>2
  <2> DEFINE f == [s \in SUBSET (1 .. m) |->
                        IF m \in s THEN OneMore(how, g[s \ {m}], seq[m]) ELSE g[s]]
  <2>2. /\ m \in Nat /\ m \in 0 .. n /\ m \notin 1 .. m - 1
        /\ 1 .. m = (1 .. m - 1) \union {m}
    BY SMT
  <2>3. \A s \in SUBSET (1 .. m) : /\ (s # {} => Max(s) \in s) /\ (m \in s => Max(s) = m)
    BY <2>2, MaxOfFirst
  <2>4. ASSUME NEW s \in SUBSET (1 .. m)
        PROVE  f[s] = IF s = {} THEN base ELSE OneMore(how, f[s \ {Max(s)}], seq[Max(s)])
    <3>1. CASE m \in s
      <4>1. f[s] = OneMore(how, g[s \ {m}], seq[m]) /\ Max(s) = m /\ s # {}
        BY <2>3, <3>1
      <4>2. s \ {m} \in SUBSET (1 .. m) /\ m \notin s \ {m}
        OBVIOUS
      <4>3. f[s \ {m}] = g[s \ {m}]
        BY <4>2
      <4> QED
        BY <4>1, <4>3
    <3>2. CASE m \notin s
      <4>1. s \in SUBSET (1 .. m - 1) /\ f[s] = g[s]
        BY <2>2, <3>2
      <4>2. g[s] = IF s = {} THEN base ELSE OneMore(how, g[s \ {Max(s)}], seq[Max(s)])
        BY <2>1, <4>1
      <4>3. s \ {Max(s)} \in SUBSET (1 .. m) /\ m \notin s \ {Max(s)}
        BY <3>2
      <4>4. f[s \ {Max(s)}] = g[s \ {Max(s)}]
        BY <4>3
      <4> QED
        BY <4>1, <4>2, <4>4
    <3> QED
      BY <3>1, <3>2
  <2>5. f = [s \in SUBSET (1 .. m) |-> f[s]]
    OBVIOUS
  <2> HIDE DEF f
  <2>6. Upto(f, m)
    BY <2>4, <2>5
  <2> QED
    BY <2>2, <2>6
<1> HIDE DEF P
<1>3. \A m \in 0 .. n : m \in P
  BY <1>1, <1>2, Upward
<1>4. n \in 0 .. n
  BY SMT
<1>5. PICK g : Upto(g, n)
  BY <1>3, <1>4 DEF P
<1>6. g = Iterates(g, how, base, seq)
  BY <1>5 DEF Iterates
<1> QED
  BY <1>6

\* What the turns leave, one after another.
Turns(v, how, base, seq, n) ==
    v[0] = base /\ \A k \in 1 .. n : v[k] = OneMore(how, v[k - 1], seq[k])

LEMMA FoldTurns ==
    ASSUME NEW how, NEW base, NEW seq, NEW n \in Nat, DOMAIN seq = 1 .. n,
           NEW g, g = Iterates(g, how, base, seq)
    PROVE  \E v : Turns(v, how, base, seq, n) /\ g[DOMAIN seq] = v[n]
<1> DEFINE v == [k \in 0 .. n |-> g[1 .. k]]
<1>1. ASSUME NEW s \in SUBSET (1 .. n)
      PROVE  g[s] = IF s = {} THEN base ELSE OneMore(how, g[s \ {Max(s)}], seq[Max(s)])
  <2>1. g = [t \in SUBSET (1 .. n) |->
                IF t = {} THEN base ELSE OneMore(how, g[t \ {Max(t)}], seq[Max(t)])]
    BY DEF Iterates
  <2> QED
    BY <2>1
<1>2. v[0] = base
  <2>1. 1 .. 0 = {} /\ 0 \in 0 .. n /\ 1 .. 0 \in SUBSET (1 .. n)
    BY SMT
  <2>2. v[0] = g[1 .. 0]
    BY <2>1
  <2> QED
    BY <1>1, <2>1, <2>2
<1>3. ASSUME NEW k \in 1 .. n PROVE v[k] = OneMore(how, v[k - 1], seq[k])
  <2>1. /\ k \in Nat /\ k \in 0 .. n /\ k - 1 \in 0 .. n /\ k \in 1 .. k
        /\ (1 .. k) \ {k} = 1 .. k - 1 /\ 1 .. k \in SUBSET (1 .. n)
    BY SMT
  <2>2. Max(1 .. k) = k
    <3>1. 1 .. k \in SUBSET (1 .. k)
      OBVIOUS
    <3> QED
      BY <2>1, <3>1, MaxOfFirst
  <2>3. v[k] = g[1 .. k] /\ v[k - 1] = g[1 .. k - 1]
    BY <2>1
  <2>4. g[1 .. k] = OneMore(how, g[(1 .. k) \ {k}], seq[k])
    BY <1>1, <2>1, <2>2
  <2> QED
    BY <2>1, <2>3, <2>4
<1>4. g[DOMAIN seq] = v[n]
  <2>1. n \in 0 .. n
    BY SMT
  <2> QED
    BY <2>1
<1> HIDE DEF v
<1> QED
  BY <1>2, <1>3, <1>4 DEF Turns

CatIterates(g, reversed, base, seq) ==
    [s \in SUBSET DOMAIN seq |->
        IF s = {} THEN base
        ELSE Cat(g[s \ {Max(s)}], g[s \ {Max(s)}].frag, seq[Max(s)], reversed)]

AltIterates(g, base, seq) ==
    [s \in SUBSET DOMAIN seq |->
        IF s = {} THEN base ELSE Alt(g[s \ {Max(s)}], g[s \ {Max(s)}].frag, seq[Max(s)])]

ClassIterates(g, cc, base, seq) ==
    [s \in SUBSET DOMAIN seq |->
        IF s = {} THEN base ELSE AddClassRange(g[s \ {Max(s)}], cc, seq[Max(s)])]

\* v is the compiler after each turn of the loop.
CatStates(v, c, fs, reversed, n) ==
    /\ v[0] = [c EXCEPT !.frag = fs[1]] /\ v[n] = CatAll(c, fs, reversed)
    /\ \A k \in 1 .. n : v[k] = Cat(v[k - 1], v[k - 1].frag, Tail(fs)[k], reversed)

AltStates(v, c, fs, n) ==
    /\ v[0] = [c EXCEPT !.frag = fs[1]] /\ v[n] = AltAll(c, fs)
    /\ \A k \in 1 .. n : v[k] = Alt(v[k - 1], v[k - 1].frag, Tail(fs)[k])

ClassStates(v, c, cc, n) ==
    /\ v[0] = [c EXCEPT !.frag = NoMatch] /\ v[n] = CharClass(c, cc)
    /\ \A k \in 1 .. n : v[k] = AddClassRange(v[k - 1], cc, cc[k])

LEMMA CatTurns ==
    ASSUME NEW c, NEW fs, NEW reversed, NEW n \in Nat, DOMAIN Tail(fs) = 1 .. n
    PROVE  \E v : CatStates(v, c, fs, reversed, n)
<1> DEFINE how == [op |-> "Concat", reversed |-> reversed]
           base == [c EXCEPT !.frag = fs[1]]
           seq == Tail(fs)
           g == CHOOSE h : h = CatIterates(h, reversed, base, seq)
<1>0. DOMAIN seq = 1 .. n
  OBVIOUS
<1>1. CatAll(c, fs, reversed) = g[DOMAIN seq]
  BY DEF CatAll, FoldLeft, MapThenFoldSet, CatIterates
<1>2. \A d, x : OneMore(how, d, x) = Cat(d, d.frag, x, reversed)
  BY DEF OneMore
<1> HIDE DEF how, base, seq
<1>3. \A h : CatIterates(h, reversed, base, seq) = Iterates(h, how, base, seq)
  BY <1>2 DEF CatIterates, Iterates
<1>4. \E h : h = CatIterates(h, reversed, base, seq)
  <2>1. \E h : h = Iterates(h, how, base, seq)
    BY <1>0, FoldExists
  <2> QED
    BY <1>3, <2>1
<1>5. g = CatIterates(g, reversed, base, seq)
  BY <1>4
<1> HIDE DEF g
<1>6. g = Iterates(g, how, base, seq)
  BY <1>3, <1>5
<1>7. PICK v : Turns(v, how, base, seq, n) /\ g[DOMAIN seq] = v[n]
  BY <1>0, <1>6, FoldTurns
<1>8. CatStates(v, c, fs, reversed, n)
  BY <1>1, <1>2, <1>7 DEF Turns, base, seq, CatStates
<1> QED
  BY <1>8

LEMMA AltTurns ==
    ASSUME NEW c, NEW fs, NEW n \in Nat, DOMAIN Tail(fs) = 1 .. n
    PROVE  \E v : AltStates(v, c, fs, n)
<1> DEFINE how == [op |-> "Alternate"]
           base == [c EXCEPT !.frag = fs[1]]
           seq == Tail(fs)
           g == CHOOSE h : h = AltIterates(h, base, seq)
<1>0. DOMAIN seq = 1 .. n
  OBVIOUS
<1>1. AltAll(c, fs) = g[DOMAIN seq]
  BY DEF AltAll, FoldLeft, MapThenFoldSet, AltIterates
<1>2. \A d, x : OneMore(how, d, x) = Alt(d, d.frag, x)
  BY DEF OneMore
<1> HIDE DEF how, base, seq
<1>3. \A h : AltIterates(h, base, seq) = Iterates(h, how, base, seq)
  BY <1>2 DEF AltIterates, Iterates
<1>4. \E h : h = AltIterates(h, base, seq)
  <2>1. \E h : h = Iterates(h, how, base, seq)
    BY <1>0, FoldExists
  <2> QED
    BY <1>3, <2>1
<1>5. g = AltIterates(g, base, seq)
  BY <1>4
<1> HIDE DEF g
<1>6. g = Iterates(g, how, base, seq)
  BY <1>3, <1>5
<1>7. PICK v : Turns(v, how, base, seq, n) /\ g[DOMAIN seq] = v[n]
  BY <1>0, <1>6, FoldTurns
<1>8. AltStates(v, c, fs, n)
  BY <1>1, <1>2, <1>7 DEF Turns, base, seq, AltStates
<1> QED
  BY <1>8

LEMMA ClassTurns ==
    ASSUME NEW c, NEW cc, NEW n \in Nat, DOMAIN cc = 1 .. n
    PROVE  \E v : ClassStates(v, c, cc, n)
<1> DEFINE how == [op |-> "CharClass", cc |-> cc]
           base == [c EXCEPT !.frag = NoMatch]
           g == CHOOSE h : h = ClassIterates(h, cc, base, cc)
<1>1. CharClass(c, cc) = g[DOMAIN cc]
  BY DEF CharClass, FoldLeft, MapThenFoldSet, ClassIterates
<1>2. \A d, x : OneMore(how, d, x) = AddClassRange(d, cc, x)
  BY DEF OneMore
<1> HIDE DEF how, base
<1>3. \A h : ClassIterates(h, cc, base, cc) = Iterates(h, how, base, cc)
  BY <1>2 DEF ClassIterates, Iterates
<1>4. \E h : h = ClassIterates(h, cc, base, cc)
  BY <1>3, FoldExists
<1>5. g = ClassIterates(g, cc, base, cc)
  BY <1>4
<1> HIDE DEF g
<1>6. g = Iterates(g, how, base, cc)
  BY <1>3, <1>5
<1>7. PICK v : Turns(v, how, base, cc, n) /\ g[DOMAIN cc] = v[n]
  BY <1>6, FoldTurns
<1>8. ClassStates(v, c, cc, n)
  BY <1>1, <1>2, <1>7 DEF Turns, base, ClassStates
<1> QED
  BY <1>8

LEMMA Wider ==
    ASSUME NEW c, NEW d, NEW F, Makes(c, d, F), NEW G, F \subseteq G
    PROVE  Makes(c, d, G)
BY DEF Makes, Grown

LEMMA CharClassMade ==
    ASSUME NEW c, IsCompiler(c), NEW cc, NEW n \in Nat, DOMAIN cc = 1 .. n,
           NEW d, d = CharClass(c, cc)
    PROVE  Makes(c, d, {}) /\ (~d.failed => Loose(d.frag))
<1>0. PICK v : ClassStates(v, c, cc, n)
  BY ClassTurns
<1>1. /\ v[0] = [c EXCEPT !.frag = NoMatch] /\ v[n] = CharClass(c, cc)
      /\ \A k \in 1 .. n : v[k] = AddClassRange(v[k - 1], cc, cc[k])
  BY <1>0 DEF ClassStates
<1> DEFINE P == {k \in 0 .. n : Makes(c, v[k], {}) /\ (~v[k].failed => Loose(v[k].frag))}
<1>2. 0 \in 0 .. n /\ n \in 0 .. n /\ \A k \in 1 .. n : k \in 0 .. n
  BY SMT
<1>3. 0 \in P
  <2>1. Makes(c, v[0], {}) /\ Loose(v[0].frag)
    BY <1>1, NoneMade
  <2> QED
    BY <1>2, <2>1
<1>4. ASSUME NEW k \in 1 .. n, k - 1 \in P PROVE k \in P
  <2>1. v[k] = AddClassRange(v[k - 1], cc, cc[k])
    BY <1>1
  <2>2. Makes(c, v[k - 1], {}) /\ (~v[k - 1].failed => Loose(v[k - 1].frag))
    BY <1>4
  <2>3. IsCompiler(v[k - 1])
    BY <2>2 DEF Makes
  <2>4. Makes(c, v[k], {}) /\ (~v[k].failed => Loose(v[k].frag))
    BY <2>1, <2>2, <2>3, RangeAdded
  <2> QED
    BY <1>2, <2>4
<1> HIDE DEF P
<1>5. \A k \in 0 .. n : k \in P
  BY <1>3, <1>4, Upward
<1> QED
  BY <1>1, <1>2, <1>5 DEF P

\* Fragments of the program of c that do not touch, and all they stand on.
Siblings(c, fs) ==
    /\ \A k \in DOMAIN fs : IsFragment(c.inst, fs[k])
    /\ \A j, k \in DOMAIN fs : j # k => Separate(c.inst, fs[j], fs[k])

FeetOf(c, fs) == UNION {Foot(c.inst, fs[k]) : k \in DOMAIN fs}

Ends(f, ended) == IF ended THEN Ended(f) ELSE Loose(f)

\* The first k of them.
FeetTo(c, fs, k) == UNION {Foot(c.inst, fs[j]) : j \in 1 .. k}

\* From the fragments before it and the next one.
LEMMA NextMade ==
    ASSUME NEW c, IsCompiler(c), NEW fs, NEW n \in Nat, DOMAIN fs = 1 .. n,
           ~c.failed => Siblings(c, fs), NEW k \in 1 .. n, k - 1 \in 1 .. n,
           NEW d, Makes(c, d, FeetTo(c, fs, k - 1))
    PROVE  /\ IsCompiler(d)
           /\ ~d.failed => Touching(d, d.frag, fs[k])
           /\ \A e : Makes(d, e, Foot(d.inst, d.frag) \union Foot(d.inst, fs[k]))
                        => Makes(c, e, FeetTo(c, fs, k))
<1> DEFINE F == FeetTo(c, fs, k - 1)
           H == FeetTo(c, fs, k)
           g == fs[k]
<1>1. F \union Foot(c.inst, g) = H
  <2>1. 1 .. k = (1 .. k - 1) \union {k}
    BY SMT
  <2> QED
    BY <2>1 DEF FeetTo
<1>2. IsCompiler(d)
  BY DEF Makes
<1>3. ASSUME ~d.failed
      PROVE  /\ Touching(d, d.frag, g) /\ Foot(d.inst, g) = Foot(c.inst, g)
             /\ Foot(d.inst, d.frag) \subseteq F \union {0} \union (DOMAIN d.inst \ DOMAIN c.inst)
  <2>1. ~c.failed
    BY <1>3 DEF Makes
  <2>2. IsFragment(c.inst, g)
    BY <2>1 DEF Siblings
  <2>3. Foot(c.inst, g) \intersect F \subseteq {0}
    <3>1. \A j \in 1 .. k - 1 : j \in 1 .. n /\ j # k
      BY SMT
    <3>2. \A j \in 1 .. k - 1 : Foot(c.inst, fs[j]) \intersect Foot(c.inst, g) \subseteq {0}
      BY <2>1, <3>1 DEF Siblings, Separate
    <3> QED
      BY <3>2 DEF FeetTo
  <2>4. Makes(c, d, F)
    OBVIOUS
  <2> HIDE DEF F, g
  <2>5. /\ IsFragment(d.inst, g) /\ Foot(d.inst, g) = Foot(c.inst, g)
        /\ IsFragment(d.inst, d.frag) /\ Separate(d.inst, d.frag, g)
    BY <1>3, <2>2, <2>3, <2>4, Apart
  <2>6. Foot(d.inst, d.frag) \subseteq F \union {0} \union (DOMAIN d.inst \ DOMAIN c.inst)
    BY <1>3, <2>4 DEF Makes
  <2> QED
    BY <2>5, <2>6 DEF Touching
<1>4. ASSUME NEW e, Makes(d, e, Foot(d.inst, d.frag) \union Foot(d.inst, g))
      PROVE  Makes(c, e, H)
  <2> DEFINE G == Foot(d.inst, d.frag) \union Foot(d.inst, g)
  <2>1. Makes(c, d, H)
    <3>1. Makes(c, d, F) /\ F \subseteq H
      BY <1>1
    <3> HIDE DEF F, H
    <3> QED
      BY <3>1, Wider
  <2>2. ~d.failed => G \subseteq H \union {0} \union (DOMAIN d.inst \ DOMAIN c.inst)
    <3> HIDE DEF F, H, g
    <3> QED
      BY <1>1, <1>3
  <2>3. Makes(d, e, G)
    BY <1>4
  <2> HIDE DEF G, H
  <2> QED
    BY <2>1, <2>2, <2>3, Chain
<1> QED
  BY <1>2, <1>3, <1>4

\* A sequence is its head and its tail.
LEMMA TailIs ==
    ASSUME NEW S, NEW fs \in Seq(S), NEW n \in Nat, Len(fs) = n + 1
    PROVE  /\ DOMAIN fs = 1 .. n + 1 /\ DOMAIN Tail(fs) = 1 .. n
           /\ \A k \in 1 .. n : Tail(fs)[k] = fs[k + 1]
BY SMT

LEMMA FirstMade ==
    ASSUME NEW c, IsCompiler(c), NEW fs, 1 \in DOMAIN fs, ~c.failed => Siblings(c, fs),
           NEW d, d = [c EXCEPT !.frag = fs[1]]
    PROVE  Makes(c, d, FeetTo(c, fs, 1)) /\ d.frag = fs[1]
<1> DEFINE f == fs[1]
           F == FeetTo(c, fs, 1)
<1>1. ~c.failed => IsFragment(c.inst, f)
  BY DEF Siblings
<1>2. Foot(c.inst, f) \subseteq F
  <2>1. 1 \in 1 .. 1
    BY SMT
  <2> QED
    BY <2>1 DEF FeetTo
<1>3. d = [c EXCEPT !.frag = f]
  OBVIOUS
<1> HIDE DEF f, F
<1>4. Makes(c, d, F) /\ d.frag = f
  BY <1>1, <1>2, <1>3, SameMade
<1> QED
  BY <1>4 DEF f, F

LEMMA CatAllMade ==
    ASSUME NEW c, IsCompiler(c), NEW S, NEW fs \in Seq(S), fs # <<>>, NEW reversed \in BOOLEAN,
           NEW ended \in BOOLEAN, ~(ended /\ reversed),
           ~c.failed =>
                /\ Siblings(c, fs)
                /\ \A k \in DOMAIN fs : k < Len(fs) => Loose(fs[k])
                /\ Ends(fs[Len(fs)], ended),
           NEW d, d = CatAll(c, fs, reversed)
    PROVE  Makes(c, d, FeetOf(c, fs)) /\ (~d.failed => Ends(d.frag, ended))
<1> DEFINE n == Len(fs) - 1
           m == Len(fs)
<1>1. n \in Nat /\ m = n + 1 /\ n + 1 \in Nat /\ m \in Nat /\ Len(fs) = n + 1
  BY SMT
<1>2. ASSUME ~c.failed
      PROVE  /\ Siblings(c, fs) /\ \A k \in DOMAIN fs : k < m => Loose(fs[k])
             /\ Ends(fs[m], ended)
  BY <1>2
<1> HIDE DEF n, m
<1>3. /\ DOMAIN fs = 1 .. n + 1 /\ DOMAIN Tail(fs) = 1 .. n
      /\ \A k \in 1 .. n : Tail(fs)[k] = fs[k + 1]
  BY <1>1, TailIs
<1>0. PICK v : CatStates(v, c, fs, reversed, n)
  BY <1>1, <1>3, CatTurns
<1>4. /\ v[0] = [c EXCEPT !.frag = fs[1]] /\ v[n] = CatAll(c, fs, reversed)
      /\ \A k \in 1 .. n : v[k] = Cat(v[k - 1], v[k - 1].frag, Tail(fs)[k], reversed)
  BY <1>0 DEF CatStates
<1> DEFINE I(k) == /\ Makes(c, v[k], FeetTo(c, fs, k + 1))
                   /\ ~v[k].failed =>
                        IF k + 1 < m THEN Loose(v[k].frag) ELSE Ends(v[k].frag, ended)
           P == {k \in 0 .. n : I(k)}
<1>5. /\ 0 \in 0 .. n /\ n \in 0 .. n /\ 1 \in 1 .. n + 1 /\ 0 + 1 = 1 /\ ~(n + 1 < m)
      /\ \A k \in 1 .. n : /\ k \in 0 .. n /\ k \in 1 .. n + 1 /\ k + 1 \in 1 .. n + 1
                           /\ k - 1 + 1 = k /\ k < m /\ k + 1 - 1 = k
                           /\ (~(k + 1 < m) => k + 1 = m)
  BY <1>1, SMT
<1>6. 0 \in P
  <2>1. Makes(c, v[0], FeetTo(c, fs, 1)) /\ v[0].frag = fs[1]
    BY <1>3, <1>4, <1>5, <1>2, FirstMade
  <2>2. ASSUME ~v[0].failed
        PROVE  IF 1 < m THEN Loose(v[0].frag) ELSE Ends(v[0].frag, ended)
    <3>1. ~c.failed
      BY <2>1, <2>2 DEF Makes
    <3>2. 1 < m \/ 1 = m
      BY <1>1, SMT
    <3> QED
      BY <1>3, <1>5, <1>2, <2>1, <3>1, <3>2
  <2>3. I(0)
    BY <1>5, <2>1, <2>2
  <2> QED
    BY <1>5, <2>3
<1>7. ASSUME NEW k \in 1 .. n, k - 1 \in P PROVE k \in P
  <2> DEFINE e == v[k - 1]
             g == fs[k + 1]
             j == k + 1
             G == Foot(e.inst, e.frag) \union Foot(e.inst, g)
  <2>1. I(k - 1)
    BY <1>7
  <2>2. Makes(c, e, FeetTo(c, fs, k)) /\ (~e.failed => Loose(e.frag))
    BY <1>5, <2>1
  <2>3. v[k] = Cat(e, e.frag, g, reversed)
    BY <1>3, <1>4
  <2>4. /\ IsCompiler(e) /\ (~e.failed => Touching(e, e.frag, g))
        /\ \A x : Makes(e, x, G) => Makes(c, x, FeetTo(c, fs, k + 1))
    <3>1. j \in 1 .. n + 1 /\ j - 1 \in 1 .. n + 1 /\ j - 1 = k /\ n + 1 \in Nat
      BY <1>1, <1>5
    <3>2. Makes(c, e, FeetTo(c, fs, j - 1))
      BY <2>2, <3>1
    <3> HIDE DEF e, j
    <3>3. /\ IsCompiler(e)
          /\ ~e.failed => Touching(e, e.frag, fs[j])
          /\ \A x : Makes(e, x, Foot(e.inst, e.frag) \union Foot(e.inst, fs[j]))
                        => Makes(c, x, FeetTo(c, fs, j))
      BY <1>3, <1>2, <3>1, <3>2, NextMade
    <3> QED
      BY <3>3 DEF j
  <2>5. ASSUME ~e.failed
        PROVE  /\ reversed => Loose(g)
               /\ IF j < m THEN Loose(g) ELSE Ends(g, ended)
    <3>1. ~c.failed
      BY <2>2, <2>5 DEF Makes
    <3>2. IF j < m THEN Loose(g) ELSE Ends(g, ended)
      BY <1>3, <1>5, <1>2, <3>1
    <3>3. reversed => ~ended
      OBVIOUS
    <3> HIDE DEF g, j
    <3> QED
      BY <3>2, <3>3 DEF Ends
  <2> HIDE DEF e, g
  <2>6. /\ Makes(e, v[k], G)
        /\ ~v[k].failed =>
                (Loose(g) => Loose(v[k].frag)) /\ (~reversed /\ Ended(g) => Ended(v[k].frag))
    BY <2>2, <2>3, <2>4, <2>5, CatMade
  <2>7. Makes(c, v[k], FeetTo(c, fs, k + 1))
    BY <2>4, <2>6
  <2>8. ASSUME ~v[k].failed
        PROVE  IF k + 1 < m THEN Loose(v[k].frag) ELSE Ends(v[k].frag, ended)
    <3>1. ~e.failed
      BY <2>6, <2>8 DEF Makes
    <3> QED
      BY <2>5, <2>6, <2>8, <3>1 DEF Ends
  <2> QED
    BY <1>5, <2>7, <2>8
<1> HIDE DEF P
<1>8. \A k \in 0 .. n : k \in P
  BY <1>1, <1>6, <1>7, Upward
<1>9. I(n)
  BY <1>5, <1>8 DEF P
<1>10. FeetTo(c, fs, n + 1) = FeetOf(c, fs)
  BY <1>3 DEF FeetTo, FeetOf
<1> QED
  BY <1>4, <1>5, <1>9, <1>10

LEMMA AltAllMade ==
    ASSUME NEW c, IsCompiler(c), NEW S, NEW fs \in Seq(S), fs # <<>>, NEW ended \in BOOLEAN,
           ~c.failed => Siblings(c, fs) /\ \A k \in DOMAIN fs : Ends(fs[k], ended),
           NEW d, d = AltAll(c, fs)
    PROVE  Makes(c, d, FeetOf(c, fs)) /\ (~d.failed => Ends(d.frag, ended))
<1> DEFINE n == Len(fs) - 1
<1>1. n \in Nat /\ Len(fs) = n + 1 /\ n + 1 \in Nat
  BY SMT
<1> HIDE DEF n
<1>2. /\ DOMAIN fs = 1 .. n + 1 /\ DOMAIN Tail(fs) = 1 .. n
      /\ \A k \in 1 .. n : Tail(fs)[k] = fs[k + 1]
  BY <1>1, TailIs
<1>0. PICK v : AltStates(v, c, fs, n)
  BY <1>1, <1>2, AltTurns
<1>3. /\ v[0] = [c EXCEPT !.frag = fs[1]] /\ v[n] = AltAll(c, fs)
      /\ \A k \in 1 .. n : v[k] = Alt(v[k - 1], v[k - 1].frag, Tail(fs)[k])
  BY <1>0 DEF AltStates
<1> DEFINE I(k) == /\ Makes(c, v[k], FeetTo(c, fs, k + 1))
                   /\ ~v[k].failed => Ends(v[k].frag, ended)
           P == {k \in 0 .. n : I(k)}
<1>4. /\ 0 \in 0 .. n /\ n \in 0 .. n /\ 1 \in 1 .. n + 1 /\ 0 + 1 = 1
      /\ \A k \in 1 .. n : /\ k \in 0 .. n /\ k \in 1 .. n + 1 /\ k + 1 \in 1 .. n + 1
                           /\ k - 1 + 1 = k /\ k + 1 - 1 = k
  BY <1>1, SMT
<1>5. 0 \in P
  <2>1. Makes(c, v[0], FeetTo(c, fs, 1)) /\ v[0].frag = fs[1]
    BY <1>2, <1>3, <1>4, FirstMade
  <2>2. ASSUME ~v[0].failed PROVE Ends(v[0].frag, ended)
    <3>1. ~c.failed
      BY <2>1, <2>2 DEF Makes
    <3> QED
      BY <1>2, <1>4, <2>1, <3>1
  <2>3. I(0)
    BY <1>4, <2>1, <2>2
  <2> QED
    BY <1>4, <2>3
<1>6. ASSUME NEW k \in 1 .. n, k - 1 \in P PROVE k \in P
  <2> DEFINE e == v[k - 1]
             g == fs[k + 1]
             j == k + 1
             G == Foot(e.inst, e.frag) \union Foot(e.inst, g)
  <2>1. I(k - 1)
    BY <1>6
  <2>2. Makes(c, e, FeetTo(c, fs, k)) /\ (~e.failed => Ends(e.frag, ended))
    BY <1>4, <2>1
  <2>3. v[k] = Alt(e, e.frag, g)
    BY <1>2, <1>3
  <2>4. /\ IsCompiler(e) /\ (~e.failed => Touching(e, e.frag, g))
        /\ \A x : Makes(e, x, G) => Makes(c, x, FeetTo(c, fs, k + 1))
    <3>1. j \in 1 .. n + 1 /\ j - 1 \in 1 .. n + 1 /\ j - 1 = k /\ n + 1 \in Nat
      BY <1>1, <1>4
    <3>2. Makes(c, e, FeetTo(c, fs, j - 1))
      BY <2>2, <3>1
    <3> HIDE DEF e, j
    <3>3. /\ IsCompiler(e)
          /\ ~e.failed => Touching(e, e.frag, fs[j])
          /\ \A x : Makes(e, x, Foot(e.inst, e.frag) \union Foot(e.inst, fs[j]))
                        => Makes(c, x, FeetTo(c, fs, j))
      BY <1>2, <3>1, <3>2, NextMade
    <3> QED
      BY <3>3 DEF j
  <2>5. ~e.failed => Ends(g, ended)
    <3>1. ~e.failed => ~c.failed
      BY <2>2 DEF Makes
    <3> QED
      BY <1>2, <1>4, <3>1
  <2> HIDE DEF e, g
  <2>6. ~e.failed => IsFragment(e.inst, e.frag) /\ IsFragment(e.inst, g)
    BY <2>4 DEF Touching
  <2>7. /\ Makes(e, v[k], G)
        /\ ~v[k].failed => /\ Loose(e.frag) /\ Loose(g) => Loose(v[k].frag)
                           /\ Ended(e.frag) /\ Ended(g) => Ended(v[k].frag)
    BY <2>3, <2>4, <2>6, AltMade
  <2>8. Makes(c, v[k], FeetTo(c, fs, k + 1))
    BY <2>4, <2>7
  <2>9. ASSUME ~v[k].failed PROVE Ends(v[k].frag, ended)
    <3>1. ~e.failed
      BY <2>7, <2>9 DEF Makes
    <3> QED
      BY <2>2, <2>5, <2>7, <2>9, <3>1 DEF Ends
  <2> QED
    BY <1>4, <2>8, <2>9
<1> HIDE DEF P
<1>7. \A k \in 0 .. n : k \in P
  BY <1>1, <1>5, <1>6, Upward
<1>8. I(n)
  BY <1>4, <1>7 DEF P
<1>9. FeetTo(c, fs, n + 1) = FeetOf(c, fs)
  BY <1>2 DEF FeetTo, FeetOf
<1> QED
  BY <1>3, <1>8, <1>9

-----------------------------------------------------------------------------
(* A node of the regexp *)

LeafOps == {"NoMatch", "EmptyMatch", "Literal", "AnyByte", "CharClass", "EmptyWidth"}

LEMMA LeafOpMade ==
    ASSUME NEW c, IsCompiler(c), NEW re, re.op \in LeafOps,
           re.op = "CharClass" => re.cc \in Seq(Byte \X Byte), NEW k, NEW d, d = Leaf(c, re, k)
    PROVE  Makes(c, d, {}) /\ (~d.failed => Loose(d.frag))
<1>1. CASE re.op = "NoMatch"
  <2>1. d = [c EXCEPT !.frag = NoMatch]
    BY <1>1 DEF Leaf
  <2> QED
    BY <2>1, NoneMade
<1>2. CASE re.op = "EmptyMatch"
  <2>1. d = Nop(c)
    BY <1>2 DEF Leaf
  <2> QED
    BY <2>1, NopMade
<1>3. CASE re.op = "Literal"
  <2>1. d = ByteRange(c, re.rune, re.rune, re.foldcase)
    BY <1>3 DEF Leaf
  <2> QED
    BY <2>1, ByteRangeMade
<1>4. CASE re.op = "AnyByte"
  <2>1. d = ByteRange(c, 0, MaxByte, FALSE)
    BY <1>4 DEF Leaf
  <2> QED
    BY <2>1, ByteRangeMade
<1>5. CASE re.op = "CharClass"
  <2> DEFINE cc == re.cc
             n == Len(cc)
  <2>1. d = CharClass(c, cc)
    BY <1>5 DEF Leaf
  <2>2. n \in Nat /\ DOMAIN cc = 1 .. n
    BY <1>5
  <2> HIDE DEF n, cc
  <2> QED
    BY <2>1, <2>2, CharClassMade
<1>6. CASE re.op = "EmptyWidth"
  <2> DEFINE flag == IF Reversed(k) THEN Mirror(re.flag) ELSE re.flag
  <2>1. d = EmptyWidth(c, flag)
    BY <1>6 DEF Leaf
  <2> HIDE DEF flag
  <2> QED
    BY <2>1, EmptyWidthMade
<1> QED
  BY <1>1, <1>2, <1>3, <1>4, <1>5, <1>6 DEF LeafOps

\* What the children of a node are like, and whether it ends with a match.
Fits(re, fs, k, ended) ==
    \/ /\ re.op = "Concat"
       /\ ~(ended /\ Reversed(k))
       /\ \A j \in DOMAIN fs : j < Len(fs) => Loose(fs[j])
       /\ Ends(fs[Len(fs)], ended)
    \/ /\ re.op = "Alternate"
       /\ \A j \in DOMAIN fs : Ends(fs[j], ended)
    \/ /\ re.op \in Loops \union {"Capture"}
       /\ re.op \in Loops => re.nongreedy \in BOOLEAN
       /\ ~ended
       /\ Loose(fs[1])

LEMMA NodeMade ==
    ASSUME NEW c, IsCompiler(c), NEW S, NEW fs \in Seq(S), fs # <<>>, Siblings(c, fs),
           NEW re, NEW k, NEW ended \in BOOLEAN, Fits(re, fs, k, ended),
           NEW d, d = PostVisit(c, re, fs, k)
    PROVE  Makes(c, d, FeetOf(c, fs)) /\ (~d.failed => Ends(d.frag, ended))
<1> DEFINE f == fs[1]
           F == Foot(c.inst, f)
           G == FeetOf(c, fs)
<1>1. 1 \in DOMAIN fs
  OBVIOUS
<1>2. IsFragment(c.inst, f) /\ F \subseteq G
  BY <1>1 DEF Siblings, FeetOf
<1>3. CASE re.op = "Concat"
  <2>1. d = CatAll(c, fs, Reversed(k))
    BY <1>3 DEF PostVisit
  <2>2. /\ ~(ended /\ Reversed(k)) /\ Ends(fs[Len(fs)], ended)
        /\ \A j \in DOMAIN fs : j < Len(fs) => Loose(fs[j])
    BY <1>3 DEF Fits, Loops
  <2>3. Reversed(k) \in BOOLEAN
    BY DEF Reversed
  <2> QED
    BY <2>1, <2>2, <2>3, CatAllMade
<1>4. CASE re.op = "Alternate"
  <2>1. d = AltAll(c, fs)
    BY <1>4 DEF PostVisit
  <2>2. \A j \in DOMAIN fs : Ends(fs[j], ended)
    BY <1>4 DEF Fits, Loops
  <2> QED
    BY <2>1, <2>2, AltAllMade
<1>5. CASE re.op \in Loops \union {"Capture"}
  <2>1. Loose(f) /\ ~ended /\ (re.op \in Loops => re.nongreedy \in BOOLEAN)
    BY <1>5 DEF Fits, Loops
  <2>2. /\ re.op = "Star" => d = Star(c, f, re.nongreedy)
        /\ re.op = "Plus" => d = Plus(c, f, re.nongreedy)
        /\ re.op = "Quest" => d = Quest(c, f, re.nongreedy)
        /\ re.op = "Capture" => d = Capture(c, f, re.cap)
    BY DEF PostVisit
  <2>3. Makes(c, d, F) /\ (~d.failed => Loose(d.frag))
    <3> HIDE DEF f
    <3>1. CASE re.op = "Star"
      BY <1>2, <2>1, <2>2, <3>1, StarMade DEF Loops
    <3>2. CASE re.op = "Plus"
      BY <1>2, <2>1, <2>2, <3>2, PlusMade DEF Loops
    <3>3. CASE re.op = "Quest"
      BY <1>2, <2>1, <2>2, <3>3, QuestMade DEF Loops
    <3>4. CASE re.op = "Capture"
      BY <1>2, <2>1, <2>2, <3>4, CaptureMade
    <3> QED
      BY <1>5, <3>1, <3>2, <3>3, <3>4 DEF Loops
  <2> HIDE DEF F, G
  <2>4. Makes(c, d, G)
    BY <1>2, <2>3, Wider
  <2> QED
    BY <2>1, <2>3, <2>4 DEF Ends, G
<1> QED
  BY <1>3, <1>4, <1>5 DEF Fits

\* A leaf ends with a match if it is one.
LEMMA LeafMadeToo ==
    ASSUME NEW c, IsCompiler(c), NEW re, NEW fs, NEW k, NEW ended \in BOOLEAN,
           IF ended THEN re.op = "HaveMatch"
           ELSE re.op \in LeafOps /\ (re.op = "CharClass" => re.cc \in Seq(Byte \X Byte)),
           NEW d, d = PostVisit(c, re, fs, k)
    PROVE  Makes(c, d, {}) /\ (~d.failed => Ends(d.frag, ended))
<1>1. d = Leaf(c, re, k)
  BY DEF PostVisit, LeafOps
<1>2. CASE ended
  <2>1. d = HaveMatch(c, re.match_id, k)
    BY <1>1, <1>2 DEF Leaf
  <2> QED
    BY <1>2, <2>1, HaveMatchMade DEF Ends
<1>3. CASE ~ended
  BY <1>1, <1>3, LeafOpMade DEF Ends
<1> QED
  BY <1>2, <1>3

-----------------------------------------------------------------------------
(* The walk *)

LEMMA SeqFacts ==
    ASSUME NEW S, NEW s \in Seq(S)
    PROVE  /\ Len(s) \in Nat /\ DOMAIN s = 1 .. Len(s)
           /\ s \in Seq({s[k] : k \in DOMAIN s})
BY SMT

LEMMA AppendFacts ==
    ASSUME NEW S, NEW s \in Seq(S), NEW e
    PROVE  /\ Append(s, e) \in Seq(S \union {e})
           /\ DOMAIN Append(s, e) = 1 .. Len(s) + 1
           /\ \A k \in 1 .. Len(s) : Append(s, e)[k] = s[k]
           /\ Append(s, e)[Len(s) + 1] = e
BY SMT

LEMMA SubSeqFacts ==
    ASSUME NEW S, NEW s \in Seq(S), NEW m \in Nat, NEW l \in Nat, m + l = Len(s)
    PROVE  /\ SubSeq(s, 1, m) \in Seq(S) /\ SubSeq(s, m + 1, Len(s)) \in Seq(S)
           /\ Len(SubSeq(s, 1, m)) = m /\ Len(SubSeq(s, m + 1, Len(s))) = l
           /\ \A k \in 1 .. m : SubSeq(s, 1, m)[k] = s[k] /\ k \in DOMAIN s
           /\ \A k \in 1 .. l : SubSeq(s, m + 1, Len(s))[k] = s[m + k] /\ m + k \in DOMAIN s
BY SMT

\* What the walk is to hand to an operation.
Walking == stage = "walk" /\ ~failed

Now == [inst |-> inst, failed |-> failed, frag |-> NoMatch]

LEMMA NowFacts ==
    ASSUME Inv, Walking
    PROVE  IsCompiler(Now) /\ ~Now.failed /\ Now.inst = inst /\ IsProgram(inst) /\ FragsInv
BY DEF Inv, Walking, Now, IsCompiler

\* A fragment that is apart from what d was made of.
Beside(old, d, g) ==
    /\ IsFragment(d.inst, g) /\ Foot(d.inst, g) = Foot(old, g)
    /\ Separate(d.inst, d.frag, g)

LEMMA AllBeside ==
    ASSUME NEW c, IsCompiler(c), NEW d, NEW F, Makes(c, d, F), ~d.failed
    PROVE  \A g : IsFragment(c.inst, g) /\ Foot(c.inst, g) \intersect F \subseteq {0}
                    => Beside(c.inst, d, g)
<1> SUFFICES ASSUME NEW g, IsFragment(c.inst, g), Foot(c.inst, g) \intersect F \subseteq {0}
             PROVE  Beside(c.inst, d, g)
  OBVIOUS
<1>1. /\ IsFragment(d.inst, g) /\ Foot(d.inst, g) = Foot(c.inst, g)
      /\ Separate(d.inst, d.frag, g)
  BY Apart
<1> QED
  BY <1>1 DEF Beside

\* The stack after a step that makes d from fragments that are not below.
LEMMA Pushed ==
    ASSUME Inv, Walking,
           NEW S, NEW below \in Seq(S),
           \A k \in DOMAIN below : k \in DOMAIN frags /\ below[k] = frags[k],
           NEW F, \A k \in DOMAIN below : Foot(inst, below[k].frag) \intersect F \subseteq {0},
           NEW d, Makes(Now, d, F), NEW e, e.frag = d.frag,
           ~d.failed => Ends(d.frag, e.ids # {}), e.ids # {} => IsSet(kind),
           inst' = d.inst, failed' = d.failed, frags' = Append(below, e),
           UNCHANGED <<family, kind, stage, prog>>
    PROVE  Inv'
<1> DEFINE m == Len(below)
<1>1. IsCompiler(Now) /\ ~Now.failed /\ Now.inst = inst /\ IsProgram(inst) /\ FragsInv
  BY NowFacts
<1>2. m \in Nat /\ DOMAIN below = 1 .. m
  BY SeqFacts
<1>3. /\ frags' \in Seq(S \union {e}) /\ DOMAIN frags' = 1 .. m + 1
      /\ \A k \in 1 .. m : frags'[k] = below[k]
      /\ frags'[m + 1] = e
  BY AppendFacts
<1> HIDE DEF m
<1>0. PICK c : c = Now
  OBVIOUS
<1>7. IsCompiler(c) /\ c.inst = inst /\ Makes(c, d, F)
  BY <1>0, <1>1
<1>4. IsCompiler(d) /\ d.failed \in BOOLEAN
  BY DEF Makes, IsCompiler
<1>5. ASSUME ~d.failed PROVE IsProgram(d.inst) /\ FragsInv'
  <2>1. IsProgram(d.inst) /\ IsFragment(d.inst, d.frag)
    BY <1>4, <1>5 DEF Makes, IsCompiler
  <2>7. \A g : IsFragment(c.inst, g) /\ Foot(c.inst, g) \intersect F \subseteq {0}
                => Beside(c.inst, d, g)
    BY <1>5, <1>7, AllBeside
  <2>2. frags' \in Seq({frags'[k] : k \in DOMAIN frags'})
    <3> DEFINE s == frags'
               T == S \union {e}
    <3>1. s \in Seq(T)
      BY <1>3
    <3> HIDE DEF s, T
    <3>2. s \in Seq({s[k] : k \in DOMAIN s})
      BY <3>1, SeqFacts
    <3> QED
      BY <3>2 DEF s
  <2>3. ASSUME NEW k \in 1 .. m
        PROVE  /\ frags'[k] = frags[k] /\ IsFragment(d.inst, frags[k].frag)
               /\ Foot(d.inst, frags[k].frag) = Foot(inst, frags[k].frag)
               /\ Separate(d.inst, d.frag, frags[k].frag)
    <3> DEFINE g == frags[k].frag
    <3>1. IsFragment(inst, g) /\ Foot(inst, g) \intersect F \subseteq {0}
      BY <1>1, <1>2 DEF FragsInv
    <3> HIDE DEF g
    <3>2. /\ IsFragment(d.inst, g) /\ Foot(d.inst, g) = Foot(inst, g)
          /\ Separate(d.inst, d.frag, g)
      <4>1. IsFragment(c.inst, g) /\ Foot(c.inst, g) \intersect F \subseteq {0}
        BY <1>7, <3>1
      <4>2. Beside(c.inst, d, g)
        BY <2>7, <4>1
      <4> QED
        BY <1>7, <4>2 DEF Beside
    <3> QED
      BY <1>2, <1>3, <3>2 DEF g
  <2>4. ASSUME NEW k \in DOMAIN frags'
        PROVE  /\ IsFragment(d.inst, frags'[k].frag)
               /\ IF frags'[k].ids = {} THEN Loose(frags'[k].frag)
                  ELSE Ended(frags'[k].frag) /\ IsSet(kind)
    <3>1. CASE k \in 1 .. m
      <4>1. /\ frags'[k] = frags[k] /\ IsFragment(d.inst, frags[k].frag)
            /\ k \in DOMAIN frags
        BY <1>2, <2>3, <3>1
      <4> QED
        BY <1>1, <4>1 DEF FragsInv
    <3>2. CASE k = m + 1
      BY <1>3, <1>5, <2>1, <3>2 DEF Ends
    <3>3. k \in 1 .. m \/ k = m + 1
      BY <1>2, <1>3, SMT
    <3> QED
      BY <3>1, <3>2, <3>3
  <2>5. ASSUME NEW j \in DOMAIN frags', NEW k \in DOMAIN frags', j # k
        PROVE  Separate(d.inst, frags'[j].frag, frags'[k].frag)
    <3>1. (j \in 1 .. m \/ j = m + 1) /\ (k \in 1 .. m \/ k = m + 1)
      BY <1>2, <1>3, SMT
    <3>2. CASE j \in 1 .. m /\ k \in 1 .. m
      <4>1. /\ frags'[j] = frags[j] /\ Foot(d.inst, frags[j].frag) = Foot(inst, frags[j].frag)
            /\ frags'[k] = frags[k] /\ Foot(d.inst, frags[k].frag) = Foot(inst, frags[k].frag)
        BY <2>3, <3>2
      <4>2. Separate(inst, frags[j].frag, frags[k].frag)
        BY <1>1, <1>2, <1>5, <2>5, <3>2 DEF FragsInv
      <4> QED
        BY <4>1, <4>2 DEF Separate
    <3>3. CASE j = m + 1 /\ k \in 1 .. m
      BY <1>3, <2>3, <3>3
    <3>4. CASE j \in 1 .. m /\ k = m + 1
      BY <1>3, <2>3, <3>4 DEF Separate
    <3>5. ~(j = m + 1 /\ k = m + 1)
      BY <2>5
    <3> QED
      BY <3>1, <3>2, <3>3, <3>4, <3>5
  <2>6. inst' = d.inst /\ kind' = kind
    OBVIOUS
  <2> QED
    BY <2>1, <2>2, <2>4, <2>5, <2>6 DEF FragsInv
<1>6. /\ family' \in Families /\ kind' \in family'.kinds
      /\ prog' # <<>> =>
            HolesIn(prog'.inst, Reach(prog'.inst, {prog'.start, prog'.start_unanchored})) = {}
  BY DEF Inv
<1> QED
  BY <1>4, <1>5, <1>6 DEF Inv

FragsOf(s) == [k \in DOMAIN s |-> s[k].frag]
IdsOf(re, s) == (UNION {s[k].ids : k \in DOMAIN s})
                    \union (IF re.op = "HaveMatch" THEN {re.match_id} ELSE {})

Items(s) == {s[k] : k \in DOMAIN s}

LEMMA FragsOfFacts ==
    ASSUME NEW S, NEW s \in Seq(S)
    PROVE  /\ FragsOf(s) \in Seq(Items(FragsOf(s)))
           /\ Len(FragsOf(s)) = Len(s) /\ DOMAIN FragsOf(s) = 1 .. Len(s)
           /\ \A k \in 1 .. Len(s) : FragsOf(s)[k] = s[k].frag
<1> DEFINE n == Len(s)
           f == FragsOf(s)
<1>1. n \in Nat /\ DOMAIN s = 1 .. n
  BY SeqFacts
<1> HIDE DEF n
<1>2. f = [k \in 1 .. n |-> s[k].frag]
  BY <1>1 DEF FragsOf
<1> HIDE DEF f
<1>3. DOMAIN f = 1 .. n /\ \A k \in 1 .. n : f[k] = s[k].frag
  BY <1>2
<1>4. f \in Seq({f[k] : k \in 1 .. n})
  BY <1>1, <1>2, SMT
<1>5. Len(f) = n
  BY <1>1, <1>3, <1>4, SMT
<1>6. f \in Seq(Items(f))
  BY <1>3, <1>4 DEF Items
<1> QED
  BY <1>1, <1>3, <1>5, <1>6 DEF n, f

\* What a visit leaves.
Visited(re, below, s, d, e) ==
    /\ d = PostVisit(Now, re, FragsOf(s), kind)
    /\ inst' = d.inst /\ failed' = d.failed
    /\ frags' = Append(below, e) /\ e.frag = d.frag /\ e.ids = IdsOf(re, s)
    /\ UNCHANGED <<family, kind, stage, prog>>

LEMMA VisitFacts ==
    ASSUME NEW re, NEW below, NEW s, Visit(re, below, s)
    PROVE  \E d, e : Visited(re, below, s, d, e)
<1> DEFINE d == PostVisit(Now, re, FragsOf(s), kind)
           e == [frag |-> d.frag, re |-> re, nodes |-> 1 + Nodes(s),
                 captures |-> Captures(s) + (IF re.op = "Capture" THEN 1 ELSE 0),
                 ids |-> IdsOf(re, s)]
<1>1. /\ inst' = d.inst /\ failed' = d.failed /\ frags' = Append(below, e)
      /\ UNCHANGED <<family, kind, stage, prog>>
  BY DEF Visit, Now, FragsOf, IdsOf
<1>2. e.frag = d.frag /\ e.ids = IdsOf(re, s)
  OBVIOUS
<1>3. Visited(re, below, s, d, e)
  <2> HIDE DEF e
  <2> QED
    BY <1>1, <1>2 DEF Visited
<1> HIDE DEF d, e
<1> QED
  BY <1>3

\* A visit that takes nothing from the stack.
LEMMA LeafPushed ==
    ASSUME Inv, Walking, NEW re, Visit(re, frags, <<>>),
           NEW ended \in BOOLEAN, ended <=> IdsOf(re, <<>>) # {}, ended => IsSet(kind),
           IF ended THEN re.op = "HaveMatch"
           ELSE re.op \in LeafOps /\ (re.op = "CharClass" => re.cc \in Seq(Byte \X Byte))
    PROVE  Inv'
<1>1. PICK d, e : Visited(re, frags, <<>>, d, e)
  BY VisitFacts
<1>2. IsCompiler(Now) /\ FragsInv
  BY NowFacts
<1>3. Makes(Now, d, {}) /\ (~d.failed => Ends(d.frag, ended))
  <2>1. d = PostVisit(Now, re, FragsOf(<<>>), kind)
    BY <1>1 DEF Visited
  <2> QED
    BY <1>2, <2>1, LeafMadeToo
<1>4. PICK S : frags \in Seq(S)
  BY <1>2 DEF FragsInv
<1>5. /\ e.frag = d.frag /\ (~d.failed => Ends(d.frag, e.ids # {}))
      /\ e.ids # {} => IsSet(kind)
  BY <1>1, <1>3 DEF Visited
<1>6. /\ inst' = d.inst /\ failed' = d.failed /\ frags' = Append(frags, e)
      /\ UNCHANGED <<family, kind, stage, prog>>
  BY <1>1 DEF Visited
<1>7. \A k \in DOMAIN frags : Foot(inst, frags[k].frag) \intersect {} \subseteq {0}
  OBVIOUS
<1> QED
  BY <1>3, <1>4, <1>5, <1>6, <1>7, Pushed

LEMMA VisitLeafKeeps == ASSUME Inv, VisitLeaf PROVE Inv'
<1>1. PICK re \in family.leaves : Visit(re, frags, <<>>)
  BY DEF VisitLeaf
<1>2. Walking
  BY DEF VisitLeaf, Walking
<1>3. re.op \in LeafOps /\ (re.op = "CharClass" => re.cc \in Seq(Byte \X Byte))
  <2>1. family \in Families
    BY DEF Inv
  <2> QED
    BY <2>1, FamilyAssumption DEF LeafOps
<1>4. IdsOf(re, <<>>) = {}
  BY <1>3 DEF IdsOf, LeafOps
<1> QED
  BY <1>1, <1>2, <1>3, <1>4, LeafPushed

LEMMA MatchHasId ==
    ASSUME NEW re, re.op = "HaveMatch", NEW s PROVE IdsOf(re, s) # {}
<1> DEFINE U == UNION {s[k].ids : k \in DOMAIN s}
           I == IF re.op = "HaveMatch" THEN {re.match_id} ELSE {}
<1>1. re.match_id \in I
  OBVIOUS
<1>2. IdsOf(re, s) = U \union I
  BY DEF IdsOf
<1> HIDE DEF U, I
<1> QED
  BY <1>1, <1>2

LEMMA VisitHaveMatchKeeps == ASSUME Inv, VisitHaveMatch PROVE Inv'
<1>1. PICK re : /\ re = HaveMatchRe(Cardinality(UNION {frags[k].ids : k \in DOMAIN frags}))
                /\ Visit(re, frags, <<>>)
  BY DEF VisitHaveMatch
<1>2. Walking /\ IsSet(kind)
  BY DEF VisitHaveMatch, Walking
<1>3. re.op = "HaveMatch"
  BY <1>1 DEF HaveMatchRe
<1>4. IdsOf(re, <<>>) # {}
  BY <1>3, MatchHasId
<1> QED
  BY <1>1, <1>2, <1>3, <1>4, LeafPushed

\* The children on top of the stack, the n from m + 1 on.
Children(s, m, n) ==
    /\ DOMAIN s = 1 .. n /\ Len(s) = n
    /\ \A k \in 1 .. n : m + k \in DOMAIN frags /\ s[k] = frags[m + k]

\* Those that a node may have fit it.
LEMMA NodeFits ==
    ASSUME Inv, Walking, NEW m \in Nat, NEW n \in Nat \ {0}, NEW s, Children(s, m, n),
           NEW re, re \in NodesOver(s), CanVisit(re, s), NEW fs, DOMAIN fs = 1 .. n, Len(fs) = n,
           \A k \in 1 .. n : fs[k] = s[k].frag, NEW ended \in BOOLEAN,
           ended <=> IdsOf(re, s) # {}
    PROVE  Fits(re, fs, kind, ended) /\ (ended => IsSet(kind))
<1>1. FragsInv /\ 1 \in 1 .. n /\ n \in 1 .. n
  BY NowFacts
<1>2. DOMAIN s = 1 .. n /\ Len(s) = n
  BY DEF Children
<1>3. \A k \in 1 .. n : IF s[k].ids = {} THEN Loose(fs[k]) ELSE Ended(fs[k]) /\ IsSet(kind)
  BY <1>1 DEF Children, FragsInv
<1>4. \/ n = 1 /\ re.op \in Loops /\ re.nongreedy \in BOOLEAN
      \/ n = 1 /\ re.op = "Capture"
      \/ re.op \in {"Concat", "Alternate"}
  <2> DEFINE subs == [k \in DOMAIN s |-> s[k].re]
             x == subs[1]
             y == Captures(frags) + 1
  <2>1. CASE n = 1
    <3>1. \/ \E op \in family.operators \intersect Loops, g \in BOOLEAN : re = LoopRe(op, x, g)
          \/ re = CaptureRe(x, y)
      BY <1>2, <2>1 DEF NodesOver
    <3> HIDE DEF x, y
    <3>2. CASE \E op \in family.operators \intersect Loops, g \in BOOLEAN : re = LoopRe(op, x, g)
      BY <2>1, <3>2 DEF LoopRe
    <3>3. CASE re = CaptureRe(x, y)
      BY <2>1, <3>3 DEF CaptureRe
    <3> QED
      BY <3>1, <3>2, <3>3
  <2>2. CASE n # 1
    <3>1. \E op \in {"Concat", "Alternate"} : re = [op |-> op, sub |-> subs]
      BY <1>2, <2>2 DEF NodesOver
    <3> HIDE DEF subs
    <3> QED
      BY <3>1
  <2> QED
    BY <2>1, <2>2
<1>5. IdsOf(re, s) = UNION {s[k].ids : k \in 1 .. n}
  BY <1>2, <1>4 DEF IdsOf, Loops
<1>6. /\ ended => \E k \in 1 .. n : s[k].ids # {}
      /\ ~ended => \A k \in 1 .. n : s[k].ids = {}
  BY <1>5
<1>7. ended => IsSet(kind)
  BY <1>3, <1>6
<1>8. CASE re.op \in Loops \union {"Capture"}
  <2>1. n = 1 /\ (re.op \in Loops => re.nongreedy \in BOOLEAN)
    BY <1>4, <1>8 DEF Loops
  <2>2. s[1].ids = {}
    <3>1. CASE re.op \in Loops
      BY <3>1 DEF CanVisit, Loops
    <3>2. CASE re.op = "Capture"
      BY <3>2 DEF CanVisit, Loops
    <3> QED
      BY <1>8, <3>1, <3>2
  <2>3. \A k \in 1 .. n : k = 1
    BY <2>1, SMT
  <2>4. ~ended
    BY <1>6, <2>2, <2>3
  <2> QED
    BY <1>1, <1>3, <1>7, <1>8, <2>1, <2>2, <2>4 DEF Fits
<1>9. CASE re.op = "Concat"
  <2>1. \A k \in 1 .. n : k < n => s[k].ids = {}
    BY <1>2, <1>9 DEF CanVisit, Loops
  <2>2. \A k \in 1 .. n : k < n \/ k = n
    BY SMT
  <2>3. ended => s[n].ids # {}
    BY <1>6, <2>1, <2>2
  <2>4. Ends(fs[n], ended)
    BY <1>1, <1>3, <1>6, <2>3 DEF Ends
  <2>5. ~(ended /\ Reversed(kind))
    BY <1>7 DEF IsSet, Reversed
  <2>6. \A k \in 1 .. n : k < n => Loose(fs[k])
    BY <1>3, <2>1
  <2> QED
    BY <1>7, <1>9, <2>4, <2>5, <2>6 DEF Fits
<1>10. CASE re.op = "Alternate"
  <2>1. \A k \in 1 .. n : s[k].ids # {} <=> s[1].ids # {}
    BY <1>2, <1>10 DEF CanVisit, Loops
  <2>2. \A k \in 1 .. n : Ends(fs[k], ended)
    BY <1>1, <1>3, <1>6, <2>1 DEF Ends
  <2> QED
    BY <1>7, <1>10, <2>2 DEF Fits
<1> QED
  BY <1>4, <1>8, <1>9, <1>10

LEMMA VisitParentKeeps == ASSUME Inv, VisitParent PROVE Inv'
<1>0. PICK n \in 1 .. Len(frags) : \E below, s :
        /\ below = SubSeq(frags, 1, Len(frags) - n)
        /\ s = SubSeq(frags, Len(frags) - n + 1, Len(frags))
        /\ \E re \in NodesOver(s) : CanVisit(re, s) /\ Visit(re, below, s)
  BY DEF VisitParent
<1>1. PICK below, s :
        /\ below = SubSeq(frags, 1, Len(frags) - n)
        /\ s = SubSeq(frags, Len(frags) - n + 1, Len(frags))
        /\ \E re \in NodesOver(s) : CanVisit(re, s) /\ Visit(re, below, s)
  BY <1>0
<1>2. PICK re : re \in NodesOver(s) /\ CanVisit(re, s) /\ Visit(re, below, s)
  BY <1>1
<1>3. PICK d, e : Visited(re, below, s, d, e)
  BY <1>2, VisitFacts
<1>4. Walking
  BY DEF VisitParent, Walking
<1>5. IsCompiler(Now) /\ ~Now.failed /\ Now.inst = inst /\ FragsInv
  BY <1>4, NowFacts
<1>6. PICK S : frags \in Seq(S)
  BY <1>5 DEF FragsInv
<1> DEFINE m == Len(frags) - n
<1>7. m \in Nat /\ n \in Nat \ {0} /\ m + n = Len(frags)
  BY <1>6, SMT
<1> HIDE DEF m
<1>8. /\ below \in Seq(S) /\ s \in Seq(S) /\ Len(below) = m /\ Len(s) = n
      /\ \A k \in 1 .. m : below[k] = frags[k] /\ k \in DOMAIN frags
      /\ \A k \in 1 .. n : s[k] = frags[m + k] /\ m + k \in DOMAIN frags
  <2>1. below = SubSeq(frags, 1, m) /\ s = SubSeq(frags, m + 1, Len(frags))
    BY <1>1 DEF m
  <2> QED
    BY <1>6, <1>7, <2>1, SubSeqFacts
<1>9. DOMAIN below = 1 .. m /\ DOMAIN s = 1 .. n
  BY <1>8, SeqFacts
<1> DEFINE fs == FragsOf(s)
<1>10. /\ fs \in Seq(Items(fs)) /\ Len(fs) = n /\ DOMAIN fs = 1 .. n
       /\ \A k \in 1 .. n : fs[k] = s[k].frag
  BY <1>8, FragsOfFacts
<1> HIDE DEF fs
<1> DEFINE ended == IdsOf(re, s) # {}
<1>11. Fits(re, fs, kind, ended) /\ (ended => IsSet(kind))
  <2>1. Children(s, m, n)
    BY <1>8, <1>9 DEF Children
  <2>2. ended \in BOOLEAN /\ (ended <=> IdsOf(re, s) # {})
    OBVIOUS
  <2> HIDE DEF ended
  <2> QED
    BY <1>2, <1>4, <1>7, <1>10, <2>1, <2>2, NodeFits
<1>12. Siblings(Now, fs)
  <2>1. ASSUME NEW k \in 1 .. n
        PROVE  fs[k] = frags[m + k].frag /\ m + k \in DOMAIN frags
    BY <1>8, <1>10
  <2>2. \A k \in 1 .. n : IsFragment(inst, fs[k])
    BY <1>5, <2>1 DEF FragsInv
  <2>3. \A j, k \in 1 .. n : j # k => m + j # m + k
    BY <1>7, SMT
  <2>4. \A j, k \in 1 .. n : j # k => Separate(inst, fs[j], fs[k])
    BY <1>5, <2>1, <2>3 DEF FragsInv
  <2> QED
    BY <1>5, <1>10, <2>2, <2>4 DEF Siblings
<1> DEFINE F == FeetOf(Now, fs)
<1>13. Makes(Now, d, F) /\ (~d.failed => Ends(d.frag, ended))
  <2>1. d = PostVisit(Now, re, fs, kind)
    BY <1>3 DEF Visited, fs
  <2>2. fs # <<>>
    BY <1>7, <1>10
  <2>3. ended \in BOOLEAN
    OBVIOUS
  <2> HIDE DEF ended
  <2> QED
    BY <1>5, <1>10, <1>11, <1>12, <2>1, <2>2, <2>3, NodeMade
<1>14. \A k \in DOMAIN below : Foot(inst, below[k].frag) \intersect F \subseteq {0}
  <2>1. \A k \in 1 .. m, j \in 1 .. n : k # m + j
    BY <1>7, SMT
  <2>2. \A k \in 1 .. m, j \in 1 .. n :
            Foot(inst, below[k].frag) \intersect Foot(inst, fs[j]) \subseteq {0}
    <3> SUFFICES ASSUME NEW k \in 1 .. m, NEW j \in 1 .. n
                 PROVE  Foot(inst, below[k].frag) \intersect Foot(inst, fs[j]) \subseteq {0}
      OBVIOUS
    <3>1. below[k].frag = frags[k].frag /\ fs[j] = frags[m + j].frag
      BY <1>8, <1>10
    <3>2. k \in DOMAIN frags /\ m + j \in DOMAIN frags /\ k # m + j
      BY <1>8, <2>1
    <3>3. Separate(inst, frags[k].frag, frags[m + j].frag)
      BY <1>5, <3>2 DEF FragsInv
    <3> QED
      BY <3>1, <3>3 DEF Separate
  <2>3. F = UNION {Foot(inst, fs[j]) : j \in 1 .. n}
    BY <1>5, <1>10 DEF FeetOf
  <2> HIDE DEF F
  <2> QED
    BY <1>9, <2>2, <2>3
<1>15. /\ e.frag = d.frag /\ (~d.failed => Ends(d.frag, e.ids # {}))
       /\ e.ids # {} => IsSet(kind)
       /\ inst' = d.inst /\ failed' = d.failed /\ frags' = Append(below, e)
       /\ UNCHANGED <<family, kind, stage, prog>>
  BY <1>3, <1>11, <1>13 DEF Visited
<1>16. \A k \in DOMAIN below : k \in DOMAIN frags /\ below[k] = frags[k]
  BY <1>8, <1>9
<1> HIDE DEF F, ended
<1> QED
  BY <1>4, <1>8, <1>13, <1>14, <1>15, <1>16, Pushed

-----------------------------------------------------------------------------
(* The end of the walk *)

\* From x no hole can be reached.
Closed(insts, x) == x \in DOMAIN insts /\ HolesIn(insts, Reach(insts, {x})) = {}

LEMMA EndedCloses ==
    ASSUME NEW insts, IsProgram(insts), NEW f, IsFragment(insts, f), Ended(f)
    PROVE  Closed(insts, f.begin)
<1>1. CASE f.begin = 0
  BY <1>1, ReachFail, ProgramFacts DEF Closed
<1>2. CASE f.begin # 0
  BY <1>2 DEF IsFragment, Ended, Closed
<1> QED
  BY <1>1, <1>2

LEMMA TwoClosed ==
    ASSUME NEW insts, IsProgram(insts), NEW x, Closed(insts, x), NEW y, Closed(insts, y)
    PROVE  HolesIn(insts, Reach(insts, {x, y})) = {}
<1> DEFINE A == Reach(insts, {x})
           B == Reach(insts, {y})
           S == {x, y}
           R == Reach(insts, S)
           D == DOMAIN insts
<1>1. x \in D /\ y \in D /\ HolesIn(insts, A) = {} /\ HolesIn(insts, B) = {}
  BY DEF Closed
<1>2. x \in A /\ A \in SUBSET D /\ Leads(insts, A)
  BY <1>1, ReachOne
<1>3. y \in B /\ B \in SUBSET D /\ Leads(insts, B)
  BY <1>1, ReachOne
<1>4. S \in SUBSET D
  BY <1>1
<1> HIDE DEF A, B, D
<1>5. A \union B \in SUBSET D /\ S \subseteq A \union B
  BY <1>2, <1>3
<1>6. Leads(insts, A \union B)
  BY <1>2, <1>3 DEF Leads
<1> HIDE DEF S
<1>7. R \subseteq A \union B
  <2>1. S \in SUBSET DOMAIN insts /\ A \union B \in SUBSET DOMAIN insts
    BY <1>4, <1>5 DEF D
  <2> QED
    BY <1>5, <1>6, <2>1, ReachIsLeast
<1>8. HolesIn(insts, A \union B) = {}
  BY <1>1, HolesUnion
<1> HIDE DEF R
<1>9. HolesIn(insts, R) \subseteq HolesIn(insts, A \union B)
  BY <1>7 DEF HolesIn
<1> QED
  BY <1>8, <1>9 DEF R, S

\* The match at the end.
LEMMA WithMatch ==
    ASSUME NEW c, IsCompiler(c), ~c.failed, IsFragment(c.inst, c.frag), Loose(c.frag),
           NEW m, m = Match(c, 0), NEW d, d = Cat(m, c.frag, m.frag, FALSE)
    PROVE  IsCompiler(d) /\ (~d.failed => IsFragment(d.inst, d.frag) /\ Ended(d.frag))
<1> DEFINE f == c.frag
<1>1. Makes(c, m, {}) /\ (~m.failed => Ended(m.frag))
  BY MatchMade
<1>2. IsCompiler(m)
  BY <1>1 DEF Makes
<1>3. IsFragment(c.inst, f) /\ Foot(c.inst, f) \intersect {} \subseteq {0}
  OBVIOUS
<1>4. d = Cat(m, f, m.frag, FALSE) /\ Loose(f)
  OBVIOUS
<1> HIDE DEF f
<1>5. ASSUME ~m.failed PROVE Touching(m, f, m.frag)
  <2>1. Beside(c.inst, m, f)
    BY <1>1, <1>3, <1>5, AllBeside
  <2>2. IsFragment(m.inst, m.frag)
    BY <1>1, <1>5 DEF Makes
  <2> QED
    BY <2>1, <2>2 DEF Beside, Touching, Separate
<1>6. /\ Makes(m, d, Foot(m.inst, f) \union Foot(m.inst, m.frag))
      /\ ~d.failed => (Ended(m.frag) => Ended(d.frag))
  BY <1>2, <1>4, <1>5, CatMade
<1> QED
  BY <1>1, <1>6 DEF Makes

\* The loop in front.
LEMMA WithLoop ==
    ASSUME NEW d, IsCompiler(d), ~d.failed => IsFragment(d.inst, d.frag) /\ Ended(d.frag),
           NEW s, s = DotStar(d), NEW e, e = Cat(s, s.frag, d.frag, FALSE)
    PROVE  /\ IsCompiler(e) /\ (d.failed => e.failed)
           /\ ~e.failed => /\ IsFragment(e.inst, d.frag)
                           /\ IsFragment(e.inst, e.frag) /\ Ended(e.frag)
<1> DEFINE f == d.frag
           F == Foot(s.inst, s.frag)
<1>1. Makes(d, s, {}) /\ (~s.failed => Loose(s.frag))
  BY DotStarMade
<1>2. IsCompiler(s) /\ (d.failed => s.failed)
  BY <1>1 DEF Makes
<1>3. Foot(d.inst, f) \intersect {} \subseteq {0} /\ e = Cat(s, s.frag, f, FALSE)
  OBVIOUS
<1>4. ~d.failed => IsFragment(d.inst, f) /\ Ended(f)
  OBVIOUS
<1> HIDE DEF f
<1>5. ASSUME ~s.failed PROVE Touching(s, s.frag, f)
  <2>1. ~d.failed
    BY <1>2, <1>5
  <2>2. Beside(d.inst, s, f)
    BY <1>1, <1>3, <1>4, <1>5, <2>1, AllBeside
  <2>3. IsFragment(s.inst, s.frag)
    BY <1>1, <1>5 DEF Makes
  <2> QED
    BY <2>2, <2>3 DEF Beside, Touching
<1>6. /\ Makes(s, e, Foot(s.inst, s.frag) \union Foot(s.inst, f))
      /\ ~e.failed => /\ Grown(s.inst, e.inst, Foot(s.inst, s.frag))
                      /\ Ended(f) => Ended(e.frag)
  BY <1>1, <1>2, <1>3, <1>5, CatMade
<1>7. IsCompiler(e) /\ (d.failed => e.failed) /\ (~e.failed => IsFragment(e.inst, e.frag))
  BY <1>2, <1>6 DEF Makes
<1>8. ASSUME ~e.failed PROVE IsFragment(e.inst, f)
  <2>1. ~s.failed
    BY <1>6, <1>8 DEF Makes
  <2>2. IsProgram(s.inst) /\ IsProgram(e.inst)
    BY <1>2, <1>7, <1>8, <2>1 DEF IsCompiler
  <2>3. /\ IsFragment(s.inst, f) /\ Foot(s.inst, f) \intersect F \subseteq {0}
        /\ Grown(s.inst, e.inst, F)
    BY <1>5, <1>6, <1>8, <2>1 DEF Touching, Separate
  <2> HIDE DEF F
  <2> QED
    BY <2>2, <2>3, Kept
<1> QED
  BY <1>4, <1>6, <1>7, <1>8 DEF f

LEMMA StartFacts == IsProgram(Start.inst) /\ Closed(Start.inst, 0)
<1> DEFINE insts == [i \in {0} |-> Fail]
<1>1. Start.inst = insts
  BY DEF Start
<1>2. 0 .. 0 = {0}
  BY SMT
<1>3. DOMAIN insts = {0} /\ insts[0] = Fail
  OBVIOUS
<1>4. Cardinality({0}) = 1
  BY FS_Singleton
<1>5. /\ Fail.op = "Fail" /\ Fail.out = 0 /\ Fail.out1 = 0 /\ IsInst(Fail)
  <2>1. /\ Fail.op = "Fail" /\ Fail.out = 0 /\ Fail.out1 = 0
        /\ {"op", "out", "out1"} \subseteq DOMAIN Fail
        /\ Fail = [f \in DOMAIN Fail |-> Fail[f]]
    BY DEF Fail, Inst
  <2>2. 0 # Hole
    BY DEF Hole
  <2> QED
    BY <2>1, <2>2 DEF IsInst
<1>6. IsProgram(insts)
  <2>1. insts = [i \in 0 .. Cardinality(DOMAIN insts) - 1 |-> insts[i]]
    BY <1>2, <1>3, <1>4
  <2> HIDE DEF insts
  <2> QED
    BY <1>3, <1>4, <1>5, <2>1 DEF IsProgram
<1> HIDE DEF insts
<1> QED
  BY <1>1, <1>3, <1>6, ReachFail DEF Closed

LEMMA FinishKeeps == ASSUME Inv, Finish PROVE Inv'
<1>1. PICK as, ae, c, p :
        /\ c = [inst |-> inst, failed |-> FALSE, frag |-> frags[1].frag]
        /\ p = Finished(c, kind, as, ae)
        /\ inst' = p.inst /\ failed' = p.failed
        /\ stage' = IF p.failed THEN "null" ELSE "compiled"
        /\ prog' = IF p.failed THEN <<>> ELSE p
  BY DEF Finish
<1>2. Walking /\ Len(frags) = 1 /\ (IsSet(kind) <=> frags[1].ids # {})
      /\ UNCHANGED <<family, kind, frags>>
  BY DEF Finish, Walking
<1>3. IsProgram(inst) /\ FragsInv
  BY <1>2, NowFacts
<1>4. 1 \in DOMAIN frags
  BY <1>2, <1>3 DEF FragsInv
<1>5. /\ IsCompiler(c) /\ ~c.failed /\ IsFragment(c.inst, c.frag)
      /\ IF IsSet(kind) THEN Ended(c.frag) ELSE Loose(c.frag)
  <2>1. /\ IsFragment(inst, frags[1].frag)
        /\ IF frags[1].ids = {} THEN Loose(frags[1].frag) ELSE Ended(frags[1].frag)
    BY <1>3, <1>4 DEF FragsInv
  <2> QED
    BY <1>1, <1>2, <1>3, <2>1 DEF IsCompiler
<1> DEFINE m == Match(c, 0)
           d == IF IsSet(kind) THEN c ELSE Cat(m, c.frag, m.frag, FALSE)
           loops == IF IsSet(kind) THEN kind = "UNANCHORED" ELSE ~as
           s == DotStar(d)
           e == IF loops THEN Cat(s, s.frag, d.frag, FALSE) ELSE d
<1>6. /\ p.inst = IF d.frag.begin = 0 /\ e.frag.begin = 0 THEN Start.inst ELSE e.inst
      /\ p.failed = e.failed /\ p.start_unanchored = e.frag.begin
      /\ p.start = IF IsSet(kind) THEN e.frag.begin ELSE d.frag.begin
  BY <1>1 DEF Finished
<1>7. IsCompiler(d) /\ (~d.failed => IsFragment(d.inst, d.frag) /\ Ended(d.frag))
  <2>1. CASE IsSet(kind)
    BY <1>5, <2>1
  <2>2. CASE ~IsSet(kind)
    <3>1. m = Match(c, 0) /\ d = Cat(m, c.frag, m.frag, FALSE)
      BY <2>2
    <3> HIDE DEF m, d
    <3> QED
      BY <1>5, <2>2, <3>1, WithMatch
  <2> QED
    BY <2>1, <2>2
<1> HIDE DEF d
<1>8. /\ IsCompiler(e)
      /\ ~e.failed => /\ IsFragment(e.inst, d.frag) /\ Ended(d.frag)
                      /\ IsFragment(e.inst, e.frag) /\ Ended(e.frag)
  <2>1. CASE loops
    <3>1. s = DotStar(d) /\ e = Cat(s, s.frag, d.frag, FALSE)
      BY <2>1
    <3> HIDE DEF s, e
    <3> QED
      BY <1>7, <3>1, WithLoop
  <2>2. CASE ~loops
    BY <1>7, <2>2
  <2> QED
    BY <2>1, <2>2
<1> HIDE DEF e
<1>9. ASSUME ~p.failed
      PROVE  HolesIn(p.inst, Reach(p.inst, {p.start, p.start_unanchored})) = {}
  <2>1. IsProgram(e.inst)
    BY <1>6, <1>8, <1>9 DEF IsCompiler
  <2>2. Closed(e.inst, d.frag.begin) /\ Closed(e.inst, e.frag.begin)
    BY <1>6, <1>8, <1>9, <2>1, EndedCloses
  <2>3. CASE d.frag.begin = 0 /\ e.frag.begin = 0
    <3>1. p.inst = Start.inst /\ p.start = 0 /\ p.start_unanchored = 0
      BY <1>6, <2>3
    <3> QED
      BY <3>1, StartFacts, TwoClosed
  <2>4. CASE ~(d.frag.begin = 0 /\ e.frag.begin = 0)
    <3> DEFINE x == p.start
               y == p.start_unanchored
               insts == p.inst
    <3>1. IsProgram(insts) /\ Closed(insts, x) /\ Closed(insts, y)
      BY <1>6, <2>1, <2>2, <2>4
    <3> HIDE DEF insts, x, y
    <3>2. HolesIn(insts, Reach(insts, {x, y})) = {}
      BY <3>1, TwoClosed
    <3> QED
      BY <3>2 DEF insts, x, y
  <2> QED
    BY <2>3, <2>4
<1>10. failed' \in BOOLEAN /\ stage' # "walk"
  BY <1>1, <1>6, <1>8 DEF IsCompiler
<1>11. prog' # <<>> =>
          HolesIn(prog'.inst, Reach(prog'.inst, {prog'.start, prog'.start_unanchored})) = {}
  <2>1. CASE p.failed
    BY <1>1, <2>1
  <2>2. CASE ~p.failed
    <3>1. prog' = p
      BY <1>1, <2>2
    <3> QED
      BY <1>9, <2>2, <3>1
  <2> QED
    BY <2>1, <2>2
<1>12. family' \in Families /\ kind' \in family'.kinds
  BY <1>2 DEF Inv
<1> QED
  BY <1>10, <1>11, <1>12 DEF Inv

-----------------------------------------------------------------------------
(* The result *)

LEMMA InitInv == Init => Inv
<1> SUFFICES ASSUME Init PROVE Inv
  OBVIOUS
<1>1. /\ family \in Families /\ kind \in family.kinds /\ failed = FALSE
      /\ inst = Start.inst /\ frags = <<>> /\ prog = <<>>
  BY DEF Init
<1>2. IsProgram(inst)
  BY <1>1, StartFacts
<1>3. frags \in Seq({frags[k] : k \in DOMAIN frags}) /\ DOMAIN frags = {}
  BY <1>1
<1>4. FragsInv
  BY <1>3 DEF FragsInv
<1> QED
  BY <1>1, <1>2, <1>4 DEF Inv

LEMMA NextInv == Inv /\ [Next]_vars => Inv'
<1> SUFFICES ASSUME Inv, [Next]_vars PROVE Inv'
  OBVIOUS
<1>1. CASE VisitLeaf
  BY <1>1, VisitLeafKeeps
<1>2. CASE VisitHaveMatch
  BY <1>2, VisitHaveMatchKeeps
<1>3. CASE VisitParent
  BY <1>3, VisitParentKeeps
<1>4. CASE Finish
  BY <1>4, FinishKeeps
<1>5. CASE GiveUp
  BY <1>5 DEF GiveUp, Inv, FragsInv
<1>6. CASE UNCHANGED vars
  BY <1>6 DEF vars, Inv, FragsInv
<1> QED
  BY <1>1, <1>2, <1>3, <1>4, <1>5, <1>6 DEF Next

LEMMA InvHolesPatched == Inv => HolesPatched
<1> SUFFICES ASSUME Inv PROVE HolesPatched
  OBVIOUS
<1>1. ASSUME stage = "walk", ~failed, NEW k \in DOMAIN frags, frags[k].frag.begin # 0
      PROVE  /\ frags[k].frag.end = HolesIn(inst, Reach(inst, {frags[k].frag.begin}))
             /\ \A j \in 1 .. k - 1 : frags[j].frag.end \intersect frags[k].frag.end = {}
  <2>1. IsProgram(inst) /\ FragsInv
    BY <1>1 DEF Inv
  <2>2. ASSUME NEW j \in 1 .. k - 1
        PROVE  frags[j].frag.end \intersect frags[k].frag.end = {}
    <3> DEFINE f == frags[j].frag
               g == frags[k].frag
    <3>1. j \in DOMAIN frags /\ j # k
      <4> DEFINE S == {frags[i] : i \in DOMAIN frags}
      <4>1. frags \in Seq(S)
        BY <2>1 DEF FragsInv
      <4> HIDE DEF S
      <4>2. DOMAIN frags = 1 .. Len(frags) /\ Len(frags) \in Nat
        BY <4>1, SeqFacts
      <4> QED
        BY <1>1, <4>2, SMT
    <3>2. IsFragment(inst, f) /\ IsFragment(inst, g) /\ Separate(inst, f, g)
      BY <1>1, <2>1, <3>1 DEF FragsInv
    <3> HIDE DEF f, g
    <3>3. \A h \in f.end : h[1] \in DOMAIN inst \ {0} /\ h[1] \in Foot(inst, f)
      BY <2>1, <3>2, FragmentFacts
    <3>4. \A h \in g.end : h[1] \in DOMAIN inst \ {0} /\ h[1] \in Foot(inst, g)
      BY <2>1, <3>2, FragmentFacts
    <3>5. f.end \intersect g.end = {}
      BY <3>2, <3>3, <3>4 DEF Separate
    <3> QED
      BY <3>5 DEF f, g
  <2> QED
    BY <1>1, <2>1, <2>2 DEF FragsInv, IsFragment
<1> QED
  BY <1>1 DEF Inv, HolesPatched

\* While the walk lasts, inst_ is a program whose fields lead to its instructions or
\* are holes, and the fragments that wait are fragments of it that touch nowhere;
\* those without a match have an end, those with one belong to a set and have none.
THEOREM SpecFragments == Spec => []Inv
BY InitInv, NextInv, PTL DEF Spec

\* While fragments are joined, the list of each holds the very fields that are
\* still to be patched in it, and a finished program runs into none: whatever the
\* regexp, its size and its classes are, and at whatever allocation compiling it
\* stops.
THEOREM SpecHolesPatched == Spec => []HolesPatched
BY SpecFragments, InvHolesPatched, PTL
=============================================================================
