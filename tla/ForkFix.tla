------------------------------- MODULE ForkFix ------------------------------
(***************************************************************************)
(* A repair in a fork (fix.go and forkscope.go): the file is repaired      *)
(* whole, the repair is kept to the lines the fork wrote, and what still   *)
(* reports on them is repaired alone, folded to the length the base had,   *)
(* or, in a document, repaired block by block.  A fixer has the name of    *)
(* the rule it repairs, and no edit scope bounds the repair.               *)
(***************************************************************************)
EXTENDS FixText, ForkLines

CONSTANTS Reported(_),   (* what a check reports: [id, first, last]         *)
          RulesByName,   (* the rules that have a fixer, as they sort       *)
          RunRules,      (* the rules that rewrite a whole comment run      *)
          BlockRules     (* those of them that judge a run of lines whole   *)

\* The rules that report on an owned line of text.
ReportedOn(text, owned) ==
    {f.id : f \in {r \in Reported(text) : Holds(owned, r.first, r.last)}}

\* Mutant: a rule run alone lands wherever it likes.
Alone_Unkept(base, content, owned, text) ==
    LET step(t, id) == FixOnly({id}, t, Whole).text
        ids == ReportedOn(text, Carry(content, text, owned))
    IN  FoldLeft(step, text, SelectSeq(RulesByName, LAMBDA id : id \in ids))

\* alone: each rule still reporting on a fork line runs by itself, and what
\* lands on the fork's lines, or on a comment run the fork grew, is kept.
Alone(base, content, owned, text) ==
    LET step(t, id) ==
            LET carried == Carry(content, t, owned)
                lands == IF id \in BlockRules THEN carried ELSE WidenComments(carried, base, t)
            IN  Keep(t, FixOnly({id}, t, Whole).text, lands)
        ids == ReportedOn(text, Carry(content, text, owned))
    IN  FoldLeft(step, text, SelectSeq(RulesByName, LAMBDA id : id \in ids))

\* foldHunk: the comment lines a change added join the first line of it.
Folded(text, hunk) ==
    LET ls == SplitLines(text)
        comment(n) == Opens(ls[n]) \cap Marks # {} /\ Body(ls[n]) # << >>
        last == Max({n \in hunk.j1..hunk.j2 : \A m \in (hunk.j1 + 1)..n : comment(m)})
        prose == FlattenSeq([k \in 1..(last - hunk.j1) |-> Body(ls[hunk.j1 + k])])
    IN  IF last = hunk.j1 THEN text
        ELSE Joined(SubSeq(ls, 1, hunk.j1)) \o Prefix(ls[hunk.j1 + 1]) \o prose
             \o SelectSeq(ls[last], LAMBDA w : w = Newline) \o Joined(SubSeq(ls, last + 1, Len(ls)))

\* fold: a run a block rule reports goes back to the length the base had.
Fold(base, content, owned, text) ==
    LET carried == Carry(content, text, owned)
        runs  == {r \in Reported(text) : r.id \in BlockRules /\ Holds(carried, r.first, r.last)}
        hunks == UNION {Grown(base, text, r.first, r.last) : r \in runs}
        later(h, g) == h.j1 > g.j1
    IN  FoldLeft(Folded, text, SetToSortSeq(hunks, later))

\* within: the whole repair, kept to the fork's lines.
OnLines(content, owned) == Keep(content, Fix(content, Whole).text, owned)

\* fixBlock: a block is repaired as a text of its own and put back, and ends
\* its line if it did.
FixBlock(text, block) ==
    LET ls    == Lines(text)
        chunk == Joined(SubSeq(ls, block[1], block[2]))
        fixed == FixOnly(ToSet(Fixers) \ RunRules, chunk, Whole).text
        ends(t) == t # << >> /\ Last(t) = Newline
    IN  Joined(SubSeq(ls, 1, block[1] - 1)) \o fixed
        \o (IF ends(chunk) /\ ~ends(fixed) THEN << Newline >> ELSE << >>)
        \o Joined(SubSeq(ls, block[2] + 1, Len(ls)))

\* Fix, in a document: each block the fork wrote into is repaired whole, the
\* later ones first.
FixBlocks(content, owned, text) ==
    LET blocks == Blocks(text, Carry(content, text, owned))
        later(b, c) == b[1] > c[1]
    IN  FoldLeft(FixBlock, text, SetToSortSeq(blocks, later))
=============================================================================
