------------------------------ MODULE ForkLines -----------------------------
(***************************************************************************)
(* The lines of a file a fork wrote (forkscope/scope.go, reflow.go and     *)
(* lines.go): which they are, how they follow a repair, how far they reach *)
(* into a block or a comment run, and what of a repair may land on them.   *)
(* A byte of a text is a word, a mark or a line end here, and a set of     *)
(* line numbers, from one, stands for a scope that is not the whole file.  *)
(***************************************************************************)
EXTENDS Text

CONSTANTS Marks,     (* a comment marker: a word with no letter or digit    *)
          Fences,    (* what opens and closes a fence                       *)
          Headings,  (* what opens a heading                                *)
          Items      (* what opens a list item                              *)

\* splitLines: the pieces join back, and none is empty.
SplitLines(t) == SelectSeq(Lines(t), LAMBDA l : l # << >>)
Ops(x, y) == OpCodes(SplitLines(x), SplitLines(y))

Words(line) == SelectSeq(line, LAMBDA w : w # Newline)
Opens(line) == IF Words(line) = << >> THEN {} ELSE {Words(line)[1]}

\* Owns and mayChange: the owner of every line from i1 up to i2, or of one
\* beside the place between two lines.
MayChange(owned, i1, i2) ==
    IF i1 = i2 THEN i1 \in owned \/ i1 + 1 \in owned
    ELSE (i1 + 1)..i2 \subseteq owned

\* Holds: a line number below one stands for the file.
Holds(owned, first, last) ==
    IF first < 1 THEN owned # {} ELSE owned \cap first..(IF last > first THEN last ELSE first) # {}

-----------------------------------------------------------------------------
(* A rewrap that moved words across a line the fork did not write.         *)

\* linePrefix: the marker a line opens with, and its words.
Prefix(line) == IF Opens(line) \subseteq Marks THEN SubSeq(line, 1, Cardinality(Opens(line))) ELSE << >>
Body(line) == Words(SubSeq(line, Len(Prefix(line)) + 1, Len(line)))

\* reflowed: a line the fork did not write gained or lost a word.
Reflowed(old, now, owned) == \E k \in DOMAIN old \ owned : Words(old[k]) # Words(now[k])

\* landsOnOwned: the owned line that takes a change of the words, zero if none.
LandsOnOwned(before, op, owned) ==
    IF op.i1 = op.i2
    THEN IF op.i1 > 0 /\ before[op.i1].line \in owned THEN before[op.i1].line
         ELSE IF op.i1 < Len(before) /\ before[op.i1 + 1].line \in owned THEN before[op.i1 + 1].line
         ELSE 0
    ELSE IF \A n \in (op.i1 + 1)..op.i2 : before[n].line \in owned THEN before[op.i1 + 1].line ELSE 0

\* Mutant: each owned line takes the new words that align with it, and what
\* was refused elsewhere is forgotten.
Repeats_None(seq, places, n, most) == FALSE

\* The word at place n of seq is among the first most of its kind there.
Repeats(seq, places, n, most) ==
    Cardinality({m \in places : m <= n /\ seq[m] = seq[n]}) <= most

\* The members of s at the places ns.
SelectInOrder(s, ns) == [n \in DOMAIN ns |-> s[ns[n]]]

\* The words of a line that stands at k.
Worded(words, k) == [n \in DOMAIN words |-> [text |-> words[n], line |-> k]]

\* ownedRewrap: each owned line takes the new words that align with its own.
\* A word a refused change leaves where it stood is not taken a second time,
\* and one a refused change would have brought back is not cut.
Taken(before, texts, after, ops, owned) ==
    LET target(o) == IF ops[o].tag = "e" THEN 0 ELSE LandsOnOwned(before, ops[o], owned)
        lands   == {o \in DOMAIN ops : target(o) # 0}
        refused == {o \in DOMAIN ops : ops[o].tag # "e"} \ lands
        from(os) == UNION {(ops[o].i1 + 1)..ops[o].i2 : o \in os}
        to(os)   == UNION {(ops[o].j1 + 1)..ops[o].j2 : o \in os}
        stays(w) == Cardinality({n \in from(refused) : texts[n] = w /\ before[n].line \notin owned})
        back(w)  == Cardinality({n \in to(refused) : after[n] = w})
        old(op)  == SelectSeq([n \in 1..(op.i2 - op.i1) |-> op.i1 + n],
                        LAMBDA n : Repeats(texts, from(lands), n, back(texts[n])))
        new(op)  == SelectSeq([n \in 1..(op.j2 - op.j1) |-> op.j1 + n],
                        LAMBDA n : ~Repeats(after, to(lands), n, stays(after[n])))
        put(o)   == IF o \notin lands THEN SubSeq(before, ops[o].i1 + 1, ops[o].i2)
                    ELSE SelectInOrder(before, old(ops[o]))
                         \o Worded(SelectInOrder(after, new(ops[o])), target(o))
    IN  FlattenSeq([o \in DOMAIN ops |-> put(o)])

OwnedRewrap(old, now, owned) ==
    LET before == FlattenSeq([k \in DOMAIN old |-> Worded(Body(old[k]), k)])
        texts  == [n \in DOMAIN before |-> before[n].text]
        after  == FlattenSeq([k \in DOMAIN now |-> Body(now[k])])
        taken  == Taken(before, texts, after, OpCodes(texts, after), owned)
        own(k) == SelectSeq(taken, LAMBDA w : w.line = k)
        text(words) == [n \in DOMAIN words |-> words[n].text]
        end(line) == SelectSeq(line, LAMBDA w : w = Newline)
    IN  FlattenSeq([k \in DOMAIN old |->
            IF k \notin owned THEN old[k] ELSE Prefix(old[k]) \o text(own(k)) \o end(old[k])])

\* Keep: after, with every change to a line the fork did not write put back.
KeptLines(op, old, now, owned) ==
    LET mine == {k \in DOMAIN old : op.i1 + k \in owned}
    IN  IF op.tag = "e" THEN old
        ELSE IF MayChange(owned, op.i1, op.i2) THEN now
        ELSE IF op.tag # "r" \/ Len(old) # Len(now) THEN old
        ELSE IF Reflowed(old, now, mine) THEN << OwnedRewrap(old, now, mine) >>
        ELSE [k \in DOMAIN old |-> IF k \in mine THEN now[k] ELSE old[k]]

Keep(before, after, owned) ==
    LET a == SplitLines(before)
        b == SplitLines(after)
        ops == OpCodes(a, b)
        kept(op) == KeptLines(op, SubSeq(a, op.i1 + 1, op.i2), SubSeq(b, op.j1 + 1, op.j2), owned)
    IN  Joined(FlattenSeq([n \in DOMAIN ops |-> kept(ops[n])]))

-----------------------------------------------------------------------------
(* How owned lines follow a repair, and how far they reach.                *)

\* Carry: a kept line keeps its owner, and a changed line is the fork's.
Carry(before, after, owned) ==
    UNION {{op.j1 + k : k \in {n \in 1..(op.j2 - op.j1) : op.tag # "e" \/ op.i1 + n \in owned}} :
              op \in ToSet(Ops(before, after))}

\* Grown: the changes to base that reach into the lines and leave more of them.
Grown(base, after, first, last) ==
    {op \in ToSet(Ops(base, after)) :
        /\ op.tag # "e" /\ op.j2 - op.j1 > op.i2 - op.i1
        /\ op.j2 >= first /\ op.j1 < last}

\* ClaimWordless: a line without words belongs to the fork when the nearest
\* lines with words on both sides do.
ClaimWordless(owned, text) ==
    LET ls == SplitLines(text)
        worded == {n \in DOMAIN ls : \E w \in ToSet(Words(ls[n])) : w \notin Marks}
        above(n) == {m \in worded : m < n}
        below(n) == {m \in worded : m > n}
    IN  owned \cup {n \in DOMAIN ls \ worded :
            above(n) # {} /\ below(n) # {} /\ {Max(above(n)), Min(below(n))} \subseteq owned}

\* Changed: the lines of after the base does not have.
Changed(base, after) ==
    ClaimWordless(UNION {(op.j1 + 1)..op.j2 : op \in {o \in ToSet(Ops(base, after)) : o.tag \in {"r", "i"}}},
                  after)

\* blocksOf: the paragraph or list item of each line, zero for none.
BlocksOf(text) ==
    LET step(s, line) ==
            LET fence == Opens(line) \cap Fences # {}
                inside == IF fence THEN ~s.fenced ELSE s.fenced
                heading == Opens(line) \cap Headings # {}
                next == IF ~s.open \/ heading \/ Opens(line) \cap Items # {} THEN s.block + 1 ELSE s.block
            IN  IF inside \/ fence \/ Words(line) = << >>
                THEN [s EXCEPT !.ids = Append(@, 0), !.open = FALSE, !.fenced = inside]
                ELSE [ids |-> Append(s.ids, next), block |-> next, open |-> ~heading, fenced |-> inside]
    IN  FoldLeft(step, [ids |-> << >>, block |-> 0, open |-> FALSE, fenced |-> FALSE], Lines(text)).ids

\* commentRuns: the run of comment lines each line stands in, zero for code.
CommentRuns(text) ==
    LET step(ids, line) ==
            IF Opens(line) \cap Marks = {} THEN Append(ids, 0)
            ELSE IF ids # << >> /\ Last(ids) # 0 THEN Append(ids, Last(ids))
            ELSE Append(ids, Cardinality(ToSet(ids) \ {0}) + 1)
    IN  FoldLeft(step, << >>, SplitLines(text))

LinesOf(ids, id) == {n \in DOMAIN ids : ids[n] = id}

\* Widen: every line of a block that holds an owned line.
Widen(owned, text) ==
    LET ids == BlocksOf(text)
    IN  owned \cup UNION {LinesOf(ids, ids[n]) : n \in {m \in owned \cap DOMAIN ids : ids[m] # 0}}

\* WidenComments: every line of a comment run the fork made longer.
WidenComments(owned, base, text) ==
    LET ids == CommentRuns(text)
        run(n) == LinesOf(ids, ids[n])
        grew(n) == Grown(base, text, Min(run(n)), Max(run(n))) # {}
    IN  owned \cup UNION {run(n) : n \in {m \in owned \cap DOMAIN ids : ids[m] # 0 /\ grew(m)}}

\* Blocks: the first and the last line of each block with an owned line.
Blocks(text, owned) ==
    LET ids == BlocksOf(text)
    IN  {<< Min(LinesOf(ids, id)), Max(LinesOf(ids, id)) >> :
            id \in {i \in ToSet(ids) \ {0} : LinesOf(ids, i) \cap owned # {}}}
=============================================================================
