-------------------------------- MODULE Text --------------------------------
(***************************************************************************)
(* What the code does to a text with Go's strings package and with the     *)
(* line diff of go-difflib.  A text is a sequence of bytes; a line ends    *)
(* with its newline, and the last one may be empty, as SplitAfter has it.  *)
(* Offsets and line indexes of an opcode count from zero and are half      *)
(* open, as in the code.                                                   *)
(***************************************************************************)
EXTENDS Integers, Sequences, FiniteSets, SequencesExt

CONSTANT Newline

\* The numbers from one to n that satisfy P, in order.
InOrder(n, P(_)) == SelectSeq([i \in 1..n |-> i], P)

\* strings.SplitAfter(t, "\n").
Lines(t) ==
    LET ends  == InOrder(Len(t), LAMBDA i : t[i] = Newline)
        stops == << 0 >> \o ends \o << Len(t) >>
    IN  [n \in 1..(Len(ends) + 1) |-> SubSeq(t, stops[n] + 1, stops[n + 1])]

\* strings.Join(lines, "").
Joined(lines) == FlattenSeq(lines)

Slice(t, from, to) == SubSeq(t, from + 1, to)

\* Where s stands in t, overlaps left out: what strings.Count counts and
\* strings.Replace replaces.
Places(t, s) ==
    LET hits == InOrder(Len(t) - Len(s) + 1, LAMBDA i : SubSeq(t, i, i + Len(s) - 1) = s)
        take(taken, i) == IF taken = << >> \/ Last(taken) + Len(s) < i
                          THEN Append(taken, i - 1) ELSE taken
    IN  FoldLeft(take, << >>, hits)

\* Every place of s in t replaced by new.
Replaced(t, s, new) ==
    LET at    == Places(t, s)
        from  == << 0 >> \o [n \in DOMAIN at |-> at[n] + Len(s)]
        until == at \o << Len(t) >>
        piece == [n \in DOMAIN from |->
                     (IF n = 1 THEN << >> ELSE new) \o Slice(t, from[n], until[n])]
    IN  FlattenSeq(piece)

-----------------------------------------------------------------------------
(* difflib: SequenceMatcher with no junk.                                   *)

\* The longest run of equal lines in the two ranges, the first of them in a
\* and then in b; the empty set when none are equal.
Longest(a, b, lo, hi) ==
    LET runs == {r \in (lo[1]..hi[1]) \X (lo[2]..hi[2]) \X (1..Len(a)) :
                    /\ r[1] + r[3] <= hi[1] /\ r[2] + r[3] <= hi[2]
                    /\ \A d \in 1..r[3] : a[r[1] + d] = b[r[2] + d]}
    IN  {r \in runs : \A s \in runs \ {r} :
            \/ s[3] < r[3]
            \/ s[3] = r[3] /\ (r[1] < s[1] \/ (r[1] = s[1] /\ r[2] < s[2]))}

\* GetMatchingBlocks: the longest run, and the runs to its left and right.
RECURSIVE Matches(_, _, _, _)
Matches(a, b, lo, hi) ==
    LET longest == Longest(a, b, lo, hi)
    IN  IF longest = {} THEN << >>
        ELSE LET r == CHOOSE r \in longest : TRUE
             IN  Matches(a, b, lo, << r[1], r[2] >>) \o << r >>
                 \o Matches(a, b, << r[1] + r[3], r[2] + r[3] >>, hi)

\* GetOpCodes: e(qual), r(eplace), d(elete) and i(nsert).
OpCodes(a, b) ==
    LET runs  == << << 0, 0, 0 >> >> \o Matches(a, b, << 0, 0 >>, << Len(a), Len(b) >>)
                 \o << << Len(a), Len(b), 0 >> >>
        Op(tag, i1, i2, j1, j2) ==
            IF i1 = i2 /\ j1 = j2 THEN << >>
            ELSE << [tag |-> tag, i1 |-> i1, i2 |-> i2, j1 |-> j1, j2 |-> j2] >>
        Tag(p, q) == IF p[1] + p[3] = q[1] THEN "i"
                     ELSE IF p[2] + p[3] = q[2] THEN "d" ELSE "r"
        Gap(p, q) == Op(Tag(p, q), p[1] + p[3], q[1], p[2] + p[3], q[2])
        Equal(q)  == Op("e", q[1], q[1] + q[3], q[2], q[2] + q[3])
    IN  FlattenSeq([n \in 1..(Len(runs) - 1) |->
            Gap(runs[n], runs[n + 1]) \o Equal(runs[n + 1])])

\* The opcodes that turn text x into text y, line by line.
LineOps(x, y) == ToSet(OpCodes(Lines(x), Lines(y)))
=============================================================================
