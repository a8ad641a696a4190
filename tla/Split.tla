-------------------------------- MODULE Split -------------------------------
(***************************************************************************)
(* Split of a root file that is over its budget (split.go): its largest    *)
(* sections move into documents of their own, level by level, and what is  *)
(* still too long loses its tail.  A line has a kind, a heading a level,   *)
(* and a size; an identity names it through the split.                     *)
(***************************************************************************)
EXTENDS Integers, Sequences, FiniteSets, SequencesExt

CONSTANTS SplitTarget,  (* the size a split brings the file down to         *)
          LeastLink,    (* the size of the shortest link line               *)
          LinkSize,     (* the size of the link line of a moved section     *)
          TailLink,     (* the size of the link line of a moved tail        *)
          FenceSize     (* the size of a fence's marker                     *)

SplitLevels == << 2, 3, 1, 4, 5, 6 >>

Line(kind, size, level, id) ==
    [kind |-> kind, size |-> size, level |-> level, id |-> id, part |-> "all"]
BlankLine == Line("blank", 0, 0, 0)
FenceLine == Line("fence", FenceSize, 0, 0)
Link(size, doc) == Line("link", size, 0, doc)

\* runes: the lines joined back into text.
Size(ls) == FoldLeft(LAMBDA n, l : n + l.size, 0, ls) + (IF ls = << >> THEN 0 ELSE Len(ls) - 1)

Inside(ls, i) == Cardinality({k \in 1..(i - 1) : ls[k].kind = "fence"}) % 2 = 1

\* sections: each heading of the level, up to the next of it or a higher one.
Sections(ls, level) ==
    LET heads == {i \in DOMAIN ls : /\ ls[i].kind = "head" /\ ls[i].level <= level
                                    /\ ~Inside(ls, i)}
        after(i) == Min({Len(ls) + 1} \cup {k \in heads : k > i})
    IN  {[start |-> i, end |-> after(i)] : i \in {k \in heads : ls[k].level = level}}

Under(ls, sec) == SubSeq(ls, sec.start + 1, sec.end - 1)

\* raise: each heading from the third level on rises one level.
Raised(ls) ==
    [i \in DOMAIN ls |->
        IF ls[i].kind = "head" /\ ls[i].level >= 3 /\ ~Inside(ls, i)
        THEN [ls[i] EXCEPT !.level = @ - 1, !.size = @ - 1] ELSE ls[i]]

\* strings.Trim of the blank lines at both ends.
Trimmed(ls) ==
    LET full == {i \in DOMAIN ls : ls[i].kind # "blank"}
    IN  IF full = {} THEN << >> ELSE SubSeq(ls, Min(full), Max(full))

\* The later section is cut first: the numbers of the earlier lines still hold.
CutFirst(m, n) == m.sec.start > n.sec.start

\* moveSections: the largest sections of a level, until what stays fits.
MoveSections(split, level) ==
    LET ls == split.lines
        larger(s, t) == LET m == Size(SubSeq(ls, s.start, s.end - 1))
                            n == Size(SubSeq(ls, t.start, t.end - 1))
                        IN  m > n \/ (m = n /\ s.start < t.start)
        choose(c, sec) ==
            LET saved == Size(Under(ls, sec)) - (LinkSize + 2)
            IN  IF c.size <= SplitTarget \/ Size(Under(ls, sec)) <= LeastLink + 2 THEN c
                ELSE [size |-> c.size - saved,
                      moves |-> c.moves \cup {[sec |-> sec, doc |-> split.named + Cardinality(c.moves) + 1]}]
        chosen == FoldLeft(choose, [size |-> Size(ls), moves |-> {}],
                           SetToSortSeq(Sections(ls, level), larger))
        move(s, m) ==
            LET under == SubSeq(s.lines, m.sec.start + 1, m.sec.end - 1)
                body  == IF level = 2 THEN Raised(under) ELSE under
                title == [s.lines[m.sec.start] EXCEPT !.level = 1]
            IN  [s EXCEPT
                    !.lines = SubSeq(@, 1, m.sec.start) \o << BlankLine, Link(LinkSize, m.doc), BlankLine >>
                              \o SubSeq(@, m.sec.end, Len(@)),
                    !.docs = Append(@, << title, BlankLine >> \o Trimmed(body))]
    IN  [FoldLeft(move, split, SetToSortSeq(chosen.moves, CutFirst))
            EXCEPT !.named = @ + Cardinality(chosen.moves)]

\* Mutant: a cut inside a fence leaves it open on both sides.
FenceOpen_Left(ls, cut) == FALSE

FenceOpen(ls, cut) == Inside(ls, cut + 1)

\* cutLine: a single line over the budget divides.
Divided(line, limit) ==
    << [line EXCEPT !.size = limit, !.part = "head"],
       [line EXCEPT !.size = @ - limit, !.part = "rest"] >>

\* moveTail: the lines past the budget, cut at a blank line that keeps half of
\* what fits, else where the budget ends.
MoveTail(split) ==
    LET ls == split.lines
        limit == SplitTarget - (TailLink + FenceSize + 2) - 1
        upto(n) == Size(SubSeq(ls, 1, n)) + 1
        fits == {n \in 1..Len(ls) : upto(n) <= limit}
        blank == {n \in fits : ls[n].kind = "blank" /\ ~FenceOpen(ls, n)}
        good == blank # {} /\ 2 * upto(Max(blank)) >= limit
        whole == IF fits # {} THEN ls
                 ELSE Divided(ls[1], limit) \o SubSeq(ls, 2, Len(ls))
        cut == IF fits = {} THEN 1 ELSE IF good THEN Max(blank) ELSE Max(fits)
        open == IF FenceOpen(whole, cut) THEN << FenceLine >> ELSE << >>
        moved == open \o SubSeq(whole, cut + 1, Len(whole))
        title == Line("title", 0, 1, 0)
    IN  [split EXCEPT
            !.lines = SubSeq(whole, 1, cut) \o open \o << BlankLine, Link(TailLink, split.named + 1) >>,
            !.docs = Append(@, << title, BlankLine >> \o Trimmed(moved)),
            !.named = @ + 1]

\* Split: the file's lines and the documents, in the order they are written.
Shortened(split) == IF Size(split.lines) > SplitTarget THEN MoveTail(split) ELSE split
Parts(split) ==
    LET end == Max({0} \cup {i \in DOMAIN split.lines : split.lines[i].kind # "blank"})
    IN  [file |-> IF split.named = 0 THEN split.lines ELSE Append(SubSeq(split.lines, 1, end), BlankLine),
         docs |-> split.docs]
SplitFile(ls) ==
    LET level(s, l) == IF Size(s.lines) <= SplitTarget THEN s ELSE MoveSections(s, l)
    IN  Parts(Shortened(FoldLeft(level, [lines |-> ls, docs |-> << >>, named |-> 0], SplitLevels)))
=============================================================================
