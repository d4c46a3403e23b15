------------------------------ MODULE Pipeline ------------------------------
(***************************************************************************)
(* Compile from the first visit to the last pass: the compiler's walk, then*)
(* Optimize, Flatten and ComputeByteMap.                                   *)
(***************************************************************************)
EXTENDS Compiler, ProgPasses

Optimizes ==
    /\ stage = "compiled"
    /\ prog' = Optimize(prog)
    /\ stage' = "optimized"
    /\ UNCHANGED <<family, kind, inst, failed, frags>>

\* The literal that every match begins with, if the regexp shows it: captures are
\* looked into, and a literal is all that is looked for.
LeadingLiteral(re) ==
    LET First(r) == IF r.op = "Concat" THEN r.sub[1] ELSE r
        inside[n \in 0 .. frags[1].nodes] ==
            IF n = 0 THEN First(re)
            ELSE LET r == inside[n - 1] IN IF r.op = "Capture" THEN First(r.sub[1]) ELSE r
        leading == inside[frags[1].nodes]
    IN IF leading.op = "Literal" THEN <<leading>> ELSE <<>>

\* A regexp that has lost an anchor at its front begins with no literal.
RequiredPrefixForAccel(re) ==
    IF prog.anchor_start /\ ~IsSet(kind) THEN <<>> ELSE LeadingLiteral(re)

\* A flattened program with its byte map and the prefix it may be accelerated by.
WithMaps(flat) ==
    [flat EXCEPT !.bytemap = ComputeByteMap(flat.inst, Cardinality(DOMAIN flat.inst)),
                 !.prefix = IF Reversed(kind) THEN <<>>
                            ELSE RequiredPrefixForAccel(frags[1].re)]

\* The rest of Finish.
Flattens ==
    /\ stage = "optimized"
    /\ prog' = WithMaps(Flatten(prog))
    /\ stage' = "flat"
    /\ UNCHANGED <<family, kind, inst, failed, frags>>

PipelineNext == Next \/ Optimizes \/ Flattens

PipelineSpec == Init /\ [][PipelineNext]_vars

-----------------------------------------------------------------------------
Texts == BoundedSeq(family.alphabet, family.text_length)

\* The heads of a flattened program's lists.
Heads == {0} \union {id + 1 : id \in {i \in DOMAIN prog.inst : prog.inst[i].last}}

\* An instruction that has matched a byte lets the search skip, up to its hint or
\* else to the end of its list, only instructions that cannot match that byte.
HintsSound ==
    stage = "flat" =>
        \A id \in DOMAIN prog.inst : prog.inst[id].op = "ByteRange" =>
            LET i == prog.inst[id]
                end == CHOOSE h \in Heads : h > id /\ \A g \in Heads : g > id => h <= g
                next == IF i.hint = 0 THEN end ELSE id + i.hint
            IN /\ next <= end
               /\ \A c \in Byte : Matches(i, c) =>
                    \A k \in id + 1 .. next - 1 :
                        prog.inst[k].op = "ByteRange" /\ ~Matches(prog.inst[k], c)

\* Bytes of one class cannot be told apart: in every list they lead to the same
\* instructions, and every assertion in the program takes them for the same.
ByteMapSound ==
    stage = "flat" =>
        \A c, d \in Byte : prog.bytemap[c] = prog.bytemap[d] =>
            /\ \A h \in Heads :
                LET list == {id \in DOMAIN prog.inst : id >= h /\ (h .. id) \intersect Heads = {h}}
                    To(b) == {prog.inst[id].out : id \in {k \in list : Matches(prog.inst[k], b)}}
                IN To(c) = To(d)
            /\ \A id \in DOMAIN prog.inst :
                LET flag == prog.inst[id].arg
                IN prog.inst[id].op = "EmptyWidth" =>
                    /\ flag \in {"BeginLine", "EndLine"} => (c = Newline <=> d = Newline)
                    /\ flag \in {"WordBoundary", "NonWordBoundary"} =>
                            (IsWordChar(c) <=> IsWordChar(d))

=============================================================================
