------------------------------ MODULE FrontEnd ------------------------------
(***************************************************************************)
(* From a pattern to what the compiler and the filters work on: the tokens *)
(* are read one by one (re2/parse.cc), the regexp is simplified            *)
(* (re2/simplify.cc), a filter is derived from it (re2/prefilter.cc), and  *)
(* its classes become byte ranges (re2/compile.cc).  What comes out of     *)
(* each step is held to what the pattern means.                            *)
(***************************************************************************)
EXTENDS Parser, Printer, Prefilters, RuneRanges, Matching

CONSTANT Families   \* patterns: the chunks they consist of and how many, the
                    \* flags they are read with, and the texts to try

VARIABLES
    family,     \* one of Families
    tokens,     \* what has been read
    rest,       \* of the chunk that is being read
    most,       \* how many more chunks there may be
    ps,         \* the parse state
    stage,      \* reading, failed, parsed, simplified, filtered, encoding
    simple,     \* the regexp, simplified
    filter,     \* none, or one
    class,      \* one of its classes,
    added,      \* how many of its ranges have been translated,
    enc         \* and what to: the state of the compiler

out == <<simple, filter, class, added, enc>>
vars == <<family, tokens, rest, most, ps, stage, out>>

Init ==
    /\ family \in Families
    /\ tokens = <<>> /\ rest = <<>>
    /\ most = family.most
    /\ ps = ParseState(family.flags)
    /\ stage = "reading"
    /\ simple = <<>> /\ filter = <<>>
    /\ class = <<>> /\ added = 0 /\ enc = <<>>

After(new, success) == IF new.code = "Success" THEN success ELSE "failed"

\* What would be another token where the parser is now: ']' is a rune outside of a
\* class and at its beginning, and the first '?' after a repetition is part of it.
Misplaced(tok) ==
    \/ ps.class = <<>> /\ tok.t \in {"range", "]"}
    \/ ps.class # <<>> /\ tok.t \notin {"range", "group", "]"}
    \/ tok.t = "]" /\ Last(tokens).t = "["
    \/ /\ "PerlX" \in ps.flags /\ ps.lastunary /\ ~Last(tokens).nongreedy
       /\ tok.t = "loop" /\ tok.op = "Quest"

\* One turn of the parser's loop: the next token, of the chunk or of a new one.
Reads ==
    /\ stage = "reading"
    /\ \E chunk \in (IF rest # <<>> THEN {rest} ELSE IF most > 0 THEN family.chunks ELSE {}) :
        LET tok == Head(chunk)
        IN /\ ~Misplaced(tok)
           /\ tokens' = Append(tokens, tok)
           /\ rest' = Tail(chunk)
           /\ most' = IF rest = <<>> THEN most - 1 ELSE most
           /\ ps' = Step(ps, tok)
           /\ stage' = After(ps', "reading")
    /\ UNCHANGED <<family, out>>

Finishes ==
    /\ stage = "reading" /\ rest = <<>>
    /\ ps' = DoFinish(ps)
    /\ stage' = After(ps', "parsed")
    /\ UNCHANGED <<family, tokens, rest, most, out>>

re == ps.stack[1]

Simplifies ==
    /\ stage = "parsed"
    /\ simple' = Simplify(re)
    /\ stage' = "simplified"
    /\ UNCHANGED <<family, tokens, rest, most, ps, filter, class, added, enc>>

\* FromRegexp.
Filters ==
    /\ stage = "simplified"
    /\ filter' = FromSimplified(simple)
    /\ stage' = "filtered"
    /\ UNCHANGED <<family, tokens, rest, most, ps, simple, class, added, enc>>

RECURSIVE Subtrees(_)
Subtrees(r) == {r} \union (IF r.op \in Composites THEN UNION {Subtrees(r.sub[k]) : k \in DOMAIN r.sub}
                           ELSE {})

\* The classes of the regexp; any character is one.
ClassesIn(r) ==
    {x.cc : x \in {x \in Subtrees(r) : x.op = "CharClass"}} \union
        {[ranges |-> <<<<0, Runemax>>>>, folds_ascii |-> FALSE, nrunes |-> Runemax + 1] :
            x \in {x \in Subtrees(r) : x.op = "AnyChar"}}

\* The compiler comes to a class, in a program that runs forward or backward.
Encodes ==
    /\ stage = "filtered" /\ family.encodes
    /\ stage' = "encoding"
    /\ class' \in ClassesIn(simple)
    /\ \E reversed \in BOOLEAN : enc' = BeginRange(reversed, "Latin1" \in family.flags)
    /\ UNCHANGED <<family, tokens, rest, most, ps, simple, filter, added>>

\* Its next range.
AddsRange ==
    /\ stage = "encoding" /\ added < Len(class.ranges)
    /\ LET r == class.ranges[added + 1]
       IN enc' = AddClassRange(enc, r[1], r[2], class.folds_ascii)
    /\ added' = added + 1
    /\ UNCHANGED <<family, tokens, rest, most, ps, stage, simple, filter, class>>

Next == Reads \/ Finishes \/ Simplifies \/ Filters \/ Encodes \/ AddsRange

Spec == Init /\ [][Next]_vars

-----------------------------------------------------------------------------
Texts == BoundedSeq(family.alphabet, family.text_length)

EndsOf(matches) == {matches[k].p : k \in DOMAIN matches}

\* Two regexps match the same, from every position of every text; if neither
\* repeats what may be empty, they prefer the same and capture the same.
SameMatches(r1, r2) ==
    LET ordered == MimicsPCRE(r1) /\ MimicsPCRE(r2) IN
    \A t \in Texts : \A p \in 0 .. Len(t) :
        LET m1 == Ends(r1, t, Begin(p))
            m2 == Ends(r2, t, Begin(p))
        IN IF ordered THEN m1 = m2 ELSE EndsOf(m1) = EndsOf(m2)

ParsesAs(reference) ==
    /\ ps.code = reference.code
    /\ stage = "parsed" => SameMatches(Meaning(re), reference.re)

\* The parser, with its stack, its merged literals and its factored alternations,
\* accepts the patterns that are in order, and the regexp means what they mean; the
\* others fail with the code of their first error.
ParseMeaning ==
    stage \in {"parsed", "failed"} => ParsesAs(Reference(tokens, family.flags, family.alphabet))

\* Simplify changes nothing about the matches.
SimplifyMeaning ==
    stage = "simplified" => SameMatches(Meaning(simple), Meaning(re))

RECURSIVE Leaves(_)
Leaves(r) ==
    CASE r.op \in Composites -> FoldLeft(LAMBDA n, s : n + Leaves(s), 0, r.sub)
      [] r.op = "LiteralString" -> Len(r.runes)
      [] OTHER -> 1

\* It leaves nothing that the compiler and the filters cannot take: no counted
\* repetition, and no class that is empty or full, which a parser that calls a node
\* simple when it is not would let through; and however repetitions are nested, no
\* rune of the pattern is copied more often than the limit allows.
SimplifyComplete ==
    stage = "simplified" =>
        /\ \A r \in Subtrees(simple) :
            /\ r.op # "Repeat"
            /\ r.op = "CharClass" => r.cc.nrunes \notin {0, Runemax + 1}
        /\ Leaves(simple) <= Leaves(re) * Max({1, maximum_repeat_count})

\* What ToString prints is read as a regexp with the same matches.
PrintsSame ==
    LET latin1 == family.flags \intersect {"Latin1"}
        Agrees(again) ==
            again.code = "Success" /\ SameMatches(Meaning(re), Meaning(again.stack[1]))
    IN stage = "parsed" =>
            Agrees(Parsed(AsTokens(re), {"ClassNL", "DotNL", "PerlX"} \union latin1))

LowerText(t) == [k \in DOMAIN t |-> ToLowerRune(t[k], "Latin1" \in family.flags)]

\* A text in which the regexp matches passes its filter, once in lower case.
FilterSound ==
    stage = "filtered" /\ filter # <<>> =>
        \A t \in Texts :
            (\E p \in 0 .. Len(t) : Ends(Meaning(simple), t, Begin(p)) # <<>>)
                => Passes(filter[1], LowerText(t))

\* The classes that are being built.
Builders ==
    {c.ccb : c \in ToSet(ps.class)} \union
        {r.ccb : r \in {r \in ToSet(ps.stack) : "ccb" \in DOMAIN r}}

\* What a builder keeps on the side is true: its ranges are apart, and it knows how
\* many runes they have and which letters are among them.
BuildersExact == \A b \in Builders : IsExact(b)

-----------------------------------------------------------------------------
\* The byte ranges by which the runes of n bytes are taken when all of them are.
LooseLead(n) ==
    CASE n = 2 -> <<194, 223>>
      [] n = 3 -> <<224, 239>>
      [] n = 4 -> <<240, 244>>

FullTail(path, k) == \A j \in k + 1 .. Len(path) : path[j].lo = Tx /\ path[j].hi = T2 - 1

Loose(path) ==
    Len(path) > 1 /\ <<path[1].lo, path[1].hi>> = LooseLead(Len(path)) /\ FullTail(path, 1)

\* The first and last rune of n bytes.
FirstOf(n) == CASE n = 2 -> Rune1 + 1 [] n = 3 -> Rune2 + 1 [] n = 4 -> Rune3 + 1
LastOf(n) == CASE n = 2 -> Rune2 [] n = 3 -> Rune3 [] n = 4 -> MaxOf4

\* The ranges of runes that a sequence of byte ranges stands for.
RunesOnPath(path) ==
    LET Rune(bytes) == IF enc.latin1 THEN bytes[1] ELSE chartorune(bytes).rune
    IN CASE path[1].foldcase ->
                {<<c, c>> : c \in {c \in 0 .. 255 : InRange(c, path[1].lo, path[1].hi, TRUE)}}
         [] Loose(path) -> {<<FirstOf(Len(path)), LastOf(Len(path))>>}
         [] OTHER -> {<<Rune([k \in DOMAIN path |-> path[k].lo]),
                        Rune([k \in DOMAIN path |-> path[k].hi])>>}

\* A class accepts the encodings of its runes, each in one way, and nothing else:
\* the prefixes and suffixes that its ranges share lead from no range into another.
EncodesClass ==
    stage = "encoding" /\ added = Len(class.ranges) =>
        LET Forward(path) == IF enc.reversed THEN Reverse(path) ELSE path
            paths == {Forward(path) : path \in Paths(enc, enc.begin)}
            expected == AddRanges(NoClass, ToSet(class.ranges))
            cut == IF enc.latin1 THEN RemoveAbove(expected, 255) ELSE expected
        IN /\ \A path \in paths : \A k \in DOMAIN path :
                path[k].lo < path[k].hi => FullTail(path, k)
           /\ AddRanges(NoClass, UNION {RunesOnPath(path) : path \in paths}).ranges = cut.ranges
           /\ MapThenSumSet(LAMBDA path : MapThenSumSet(Width, RunesOnPath(path)), paths) = cut.nrunes

RECURSIVE Reachable(_)
Reachable(id) ==
    LET i == enc.inst[id] IN
    CASE id = 0 -> {}
      [] id # 0 /\ i.op = "Alt" -> {id} \union Reachable(i.out) \union Reachable(i.out1)
      [] id # 0 /\ i.op = "ByteRange" -> {id} \union Reachable(i.out)

\* Instructions are freed in the order opposite to their allocation, none that is
\* still in use; one that is in the cache stays what it is cached for; and every
\* sequence ends in an instruction that will be patched.
SuffixesLive ==
    stage = "encoding" =>
        LET reached == Reachable(enc.begin)
        IN /\ ~enc.freed_older
           /\ reached \subseteq DOMAIN enc.inst
           /\ \A key \in DOMAIN enc.rune_cache :
                    LET id == enc.rune_cache[key]
                    IN /\ id \in DOMAIN enc.inst
                       /\ enc.inst[id] = ByteRange(key[1], key[2], key[3], key[4])
           /\ {id \in reached : enc.inst[id].op = "ByteRange" /\ enc.inst[id].out = 0}
                    \subseteq enc.end
           /\ enc.end \subseteq DOMAIN enc.inst

=============================================================================
