----------------------------- MODULE RuneRanges -----------------------------
(***************************************************************************)
(* The compiler's translation of a class of runes to bytes                 *)
(* (re2/compile.cc): every range becomes sequences of byte ranges, whose   *)
(* ends are shared through a cache and whose beginnings are shared in a    *)
(* trie.                                                                   *)
(*                                                                         *)
(* e is the compiler's state: the instructions, the cache from what a byte *)
(* range is to the instruction that is it, where the trie begins (0: not   *)
(* yet), the instructions whose out is still to be patched (0 until then), *)
(* and whether an instruction was freed that was not the newest.           *)
(***************************************************************************)
EXTENDS Regexps, SequencesExt

-----------------------------------------------------------------------------
(* Runes and bytes (util/rune.cc).  What the code does with masks and shifts *)
(* is division by powers of two here.                                        *)

Runeself == 128
MaxOf4 == 1114111   \* Runemax
Runeerror == 65533
UTFmax == 4
Tx == 128           \* the lead of a continuation byte, and of 2, 3 and 4 bytes
T2 == 192
T3 == 224
T4 == 240
T5 == 248
Rune1 == 127        \* the greatest rune of 1, 2, 3 and 4 bytes
Rune2 == 2047
Rune3 == 65535

Tail6(c, k) == Tx + ((c \div (64 ^ k)) % 64)

\* A rune that is out of range is the error rune.
runetochar(rune) ==
    LET c == IF rune > MaxOf4 THEN Runeerror ELSE rune IN
    CASE c <= Rune1 -> <<c>>
      [] c > Rune1 /\ c <= Rune2 -> <<T2 + c \div 64, Tail6(c, 0)>>
      [] c > Rune2 /\ c <= Rune3 -> <<T3 + c \div (64 ^ 2), Tail6(c, 1), Tail6(c, 0)>>
      [] c > Rune3 -> <<T4 + c \div (64 ^ 3), Tail6(c, 2), Tail6(c, 1), Tail6(c, 0)>>

\* The first rune of a string that a NUL ends, and its length; the error rune for
\* a byte that begins none: a stray continuation byte, a sequence cut short, a
\* rune that fewer bytes could hold, and five bytes and more.
chartorune(str) ==
    LET c(k) == IF k \in DOMAIN str THEN str[k] ELSE 0
        Follows(k) == c(k) \in Tx .. T2 - 1
        six(k) == c(k) - Tx
        two == (c(1) - T2) * 64 + six(2)
        three == (c(1) - T3) * (64 ^ 2) + six(2) * 64 + six(3)
        four == (c(1) - T4) * (64 ^ 3) + six(2) * (64 ^ 2) + six(3) * 64 + six(4)
        Rune(r, n) == [rune |-> r, n |-> n]
    IN CASE c(1) < Tx -> Rune(c(1), 1)
         [] c(1) \in T2 .. T3 - 1 /\ Follows(2) /\ two > Rune1 -> Rune(two, 2)
         [] c(1) \in T3 .. T4 - 1 /\ Follows(2) /\ Follows(3) /\ three > Rune2 -> Rune(three, 3)
         [] c(1) \in T4 .. T5 - 1 /\ Follows(2) /\ Follows(3) /\ Follows(4) /\ four > Rune3 ->
                Rune(four, 4)
         [] OTHER -> Rune(Runeerror, 1)

\* Are there as many bytes as the first one asks for?
fullrune(str) ==
    /\ str # <<>>
    /\ \/ str[1] < Tx
       \/ Len(str) > 1 /\ str[1] < T3
       \/ Len(str) > 2 /\ str[1] < T4
       \/ Len(str) > 3

\* StringPieceToRune (re2/parse.cc): the first rune of a string, or none if the
\* string is not UTF-8.  chartorune takes runes above Runemax.
StringPieceToRune(str) ==
    LET got == chartorune(str) IN
    IF /\ fullrune(str)
       /\ got.rune <= MaxOf4
       /\ ~(got.n = 1 /\ got.rune = Runeerror)
    THEN <<got>> ELSE <<>>

-----------------------------------------------------------------------------
(* The compiler's state *)

BeginRange(reversed, latin1) ==
    [inst |-> <<>>, rune_cache |-> <<>>, begin |-> 0, end |-> {},
     reversed |-> reversed, latin1 |-> latin1, freed_older |-> FALSE]

At(e, id) == [e |-> e, id |-> id]

ByteRange(lo, hi, foldcase, out) ==
    [op |-> "ByteRange", lo |-> lo, hi |-> hi, foldcase |-> foldcase, out |-> out]
AltOf(out, out1) == [op |-> "Alt", out |-> out, out1 |-> out1]

\* AllocInst and its initialisation.
Allocated(e, i) == At([e EXCEPT !.inst = Append(@, i)], Len(e.inst) + 1)

UncachedRuneByteSuffix(e, lo, hi, foldcase, next) ==
    LET new == Allocated(e, ByteRange(lo, hi, foldcase, next))
    IN [new EXCEPT !.e.end = IF next = 0 THEN @ \union {new.id} ELSE @]

RuneCacheKey(lo, hi, foldcase, next) == <<lo, hi, foldcase, next>>

CachedRuneByteSuffix(e, lo, hi, foldcase, next) ==
    LET key == RuneCacheKey(lo, hi, foldcase, next)
        new == UncachedRuneByteSuffix(e, lo, hi, foldcase, next)
        Add(cache) == [k \in DOMAIN cache \union {key} |-> IF k = key THEN new.id ELSE cache[k]]
    IN IF key \in DOMAIN e.rune_cache THEN At(e, e.rune_cache[key])
       ELSE [new EXCEPT !.e.rune_cache = Add(@)]

\* Mistake: nothing is known to be shared.
NothingIsCached(e, id) == FALSE

\* Asked by what the instruction is now.
IsCachedRuneByteSuffix(e, id) ==
    LET i == e.inst[id] IN RuneCacheKey(i.lo, i.hi, i.foldcase, i.out) \in DOMAIN e.rune_cache

ByteRangeEqual(e, id1, id2) ==
    LET i == e.inst[id1]
        j == e.inst[id2]
    IN i.lo = j.lo /\ i.hi = j.hi /\ i.foldcase = j.foldcase

\* Where a byte range equal to id's is: at root itself, or behind a field of one of
\* the Alts that root begins; or nowhere.  Ranges come in order, so only the newest
\* can be, unless the program runs backward.
RECURSIVE FindByteRange(_, _, _)
FindByteRange(e, root, id) ==
    LET r == e.inst[root] IN
    CASE r.op = "ByteRange" -> IF ByteRangeEqual(e, root, id) THEN <<root, "self">> ELSE <<>>
      [] r.op = "Alt" ->
            CASE ByteRangeEqual(e, r.out1, id) -> <<root, "out1">>
              [] ~ByteRangeEqual(e, r.out1, id) /\ ~e.reversed -> <<>>
              [] OTHER -> IF e.inst[r.out].op = "Alt" THEN FindByteRange(e, r.out, id)
                          ELSE IF ByteRangeEqual(e, r.out, id) THEN <<root, "out">>
                          ELSE <<>>

\* The trie's byte range at field f of x, which is its root if f is "self".
FieldOf(e, x, f) == IF f = "self" THEN x ELSE e.inst[x][f]

\* A byte range that is shared is not changed: a clone takes its place.
Unshared(e, x, f) ==
    LET br == FieldOf(e, x, f)
        clone == Len(e.inst) + 1
        placed == IF f = "self" THEN e ELSE [e EXCEPT !.inst[x][f] = clone]
    IN IF IsCachedRuneByteSuffix(e, br)
       THEN At([placed EXCEPT !.inst = Append(@, e.inst[br])], clone)
       ELSE At(e, br)

\* The newest instruction is freed, unless it is shared.
Freed(e, id) ==
    IF IsCachedRuneByteSuffix(e, id) THEN e
    ELSE [e EXCEPT !.inst = SubSeq(@, 1, Len(@) - 1), !.freed_older = @ \/ id # Len(e.inst)]

\* Add the sequence that begins at id to the trie at root.  If the trie has the
\* like of its first byte range, that is not needed, and the rest of the sequence
\* goes behind the like of it.
RECURSIVE AddSuffixRecursive(_, _, _)
AddSuffixRecursive(e, root, id) ==
    LET Behind(br, e2, next) ==
            LET Linked(below) == [below.e EXCEPT !.inst[br].out = below.id]
            IN Linked(AddSuffixRecursive(e2, e2.inst[br].out, next))
        Shared(at, f) ==
            At(Behind(at.id, Freed(at.e, id), at.e.inst[id].out), IF f = "self" THEN at.id ELSE root)
        Add(found) == IF found = <<>> THEN Allocated(e, AltOf(root, id))
                      ELSE Shared(Unshared(e, found[1], found[2]), found[2])
    IN Add(FindByteRange(e, root, id))

\* The trie begins at s.
BeginsAt(s) == [s.e EXCEPT !.begin = s.id]

AddSuffix(s) ==
    BeginsAt(IF s.e.begin = 0 THEN s
             ELSE IF s.e.latin1 THEN Allocated(s.e, AltOf(s.e.begin, s.id))
             ELSE AddSuffixRecursive(s.e, s.e.begin, s.id))

-----------------------------------------------------------------------------
AddRuneRangeLatin1(e, lo, hi, foldcase) ==
    IF lo > hi \/ lo > 255 THEN e
    ELSE AddSuffix(UncachedRuneByteSuffix(e, lo, IF hi > 255 THEN 255 ELSE hi, foldcase, 0))

\* A byte range of all that begins a sequence of n bytes, before the instruction
\* that s leads to, and one of all that continues it.
Lead(s, n) ==
    LET r == CASE n = 2 -> <<194, 223>> [] n = 3 -> <<224, 239>> [] n = 4 -> <<240, 244>>
    IN UncachedRuneByteSuffix(s.e, r[1], r[2], FALSE, s.id)
Continues(s) == UncachedRuneByteSuffix(s.e, Tx, T2 - 1, FALSE, s.id)

\* All that is not ASCII, taken loosely: longer encodings than needed and runes
\* above Runemax are let in.  Forward, a sequence ends as the shorter one does;
\* backward, each is on its own.
Add_80_10ffff(e) ==
    LET Sharing(cont, n) ==
            Continues(At(AddSuffix(Lead(cont, n)), cont.id))
        Whole(acc, n) ==
            AddSuffix(FoldLeft(LAMBDA s, k : Continues(s), Lead(At(acc, 0), n), Tail([k \in 1 .. n |-> k])))
    IN IF e.reversed THEN FoldLeft(Whole, e, <<2, 3, 4>>)
       ELSE AddSuffix(Lead(FoldLeft(Sharing, Continues(At(e, 0)), <<2, 3>>), 4))

\* The sequence of byte ranges from ulo to uhi, which differ only in bytes that run
\* through all continuation bytes, but for one: its instructions are made from its
\* end, cached where sharing is likely.
Sequenced(e, ulo, uhi) ==
    LET n == Len(ulo)
        single(k) == ulo[k] = uhi[k]
        Suffix(s, k) ==
            IF IF e.reversed THEN k = 1 \/ (single(k) /\ k # n)
               ELSE k = n \/ (~single(k) /\ k # 1)
            THEN CachedRuneByteSuffix(s.e, ulo[k], uhi[k], FALSE, s.id)
            ELSE UncachedRuneByteSuffix(s.e, ulo[k], uhi[k], FALSE, s.id)
        order == [k \in 1 .. n |-> IF e.reversed THEN k ELSE n + 1 - k]
        s[k \in 0 .. n] == IF k = 0 THEN At(e, 0) ELSE Suffix(s[k - 1], order[k])
    IN s[n]

\* Ranges are split until the encodings of their ends are equally long, and agree
\* but for one byte and those after it that run through all continuation bytes.
RECURSIVE AddRuneRangeUTF8(_, _, _, _)
AddRuneRangeUTF8(e, lo, hi, foldcase) ==
    LET Pair(mid) == AddRuneRangeUTF8(AddRuneRangeUTF8(e, lo, mid, foldcase), mid + 1, hi, foldcase)
        lengths == {max \in {Rune1, Rune2, Rune3} : lo <= max /\ max < hi}
        Low(r, k) == r % (64 ^ k)        \* the last k bytes' share of r
        uneven(k) == lo - Low(lo, k) # hi - Low(hi, k)
        splits == {k \in 1 .. UTFmax - 1 :
                        uneven(k) /\ (Low(lo, k) # 0 \/ Low(hi, k) # (64 ^ k) - 1)}
        k == CHOOSE k \in splits : \A j \in splits : k <= j
    IN CASE lo > hi -> e
         [] lo = Runeself /\ hi = MaxOf4 -> Add_80_10ffff(e)
         [] lo <= hi /\ lengths # {} -> Pair(CHOOSE max \in lengths : \A m \in lengths : max <= m)
         [] lo <= hi /\ lengths = {} /\ hi < Runeself ->
                AddSuffix(UncachedRuneByteSuffix(e, lo, hi, foldcase, 0))
         [] lo <= hi /\ lengths = {} /\ hi >= Runeself /\ <<lo, hi>> # <<Runeself, MaxOf4>> ->
                IF splits = {} THEN AddSuffix(Sequenced(e, runetochar(lo), runetochar(hi)))
                ELSE IF Low(lo, k) # 0 THEN Pair(lo - Low(lo, k) + (64 ^ k) - 1)
                ELSE Pair(hi - Low(hi, k) - 1)

AddRuneRange(e, lo, hi, foldcase) ==
    IF e.latin1 THEN AddRuneRangeLatin1(e, lo, hi, foldcase)
    ELSE AddRuneRangeUTF8(e, lo, hi, foldcase)

\* One range of a class, foldascii saying that the class takes letters in either
\* case: capitals are left to the small letters then.
AddClassRange(e, lo, hi, foldascii) ==
    LET whole == lo <= UpperA /\ LowerZ <= hi
        none == hi < UpperA \/ LowerZ < lo \/ (UpperZ < lo /\ hi < LowerA)
    IN IF foldascii /\ UpperA <= lo /\ hi <= UpperZ THEN e
       ELSE AddRuneRange(e, lo, hi, foldascii /\ ~whole /\ ~none)

-----------------------------------------------------------------------------
\* The sequences of byte ranges that are accepted from id on.
RECURSIVE Paths(_, _)
Paths(e, id) ==
    LET i == e.inst[id] IN
    CASE id = 0 -> {<<>>}
      [] id # 0 /\ i.op = "Alt" -> Paths(e, i.out) \union Paths(e, i.out1)
      [] id # 0 /\ i.op = "ByteRange" -> {<<[lo |-> i.lo, hi |-> i.hi, foldcase |-> i.foldcase]>> \o path : path \in Paths(e, i.out)}

=============================================================================
