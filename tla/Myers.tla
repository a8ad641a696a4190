-------------------------------- MODULE Myers -------------------------------
(***************************************************************************)
(* The lines a shortest edit script inserts (forkscope/myers.go): equal    *)
(* ends are matched, the middle snake of the rest divides it, and its two  *)
(* sides are compared the same way.  A line is any value; a matched line   *)
(* is named by its number in the new text.                                 *)
(***************************************************************************)
EXTENDS Integers, Sequences, FiniteSets, SequencesExt

\* How many lines match in a row after the first x of a and y of b.
Slide(a, b, x, y) ==
    LET room == {n \in 0..Len(a) : x + n <= Len(a) /\ y + n <= Len(b)}
    IN  Max({0} \cup {n \in room : \A i \in 1..n : a[x + i] = b[y + i]})

\* Mutant: the neighbour that reached less far.
StartOf_Least(v, d, k) ==
    IF k = -d \/ (k # d /\ v[k - 1] >= v[k + 1]) THEN v[k + 1] ELSE v[k - 1] + 1

\* Where a path of d edits starts its slide on diagonal k: one step on from
\* whichever neighbour reached further with d - 1.
StartOf(v, d, k) ==
    IF k = -d \/ (k # d /\ v[k - 1] < v[k + 1]) THEN v[k + 1] ELSE v[k - 1] + 1

Diagonals(d) == {k \in -d..d : (k + d) % 2 = 0}

\* vf, and vb over the texts reversed: the furthest end of each diagonal with
\* d edits, and of one before the first.
RECURSIVE Furthest(_, _, _)
Furthest(a, b, d) ==
    IF d < 0 THEN [k \in {1} |-> 0]
    ELSE LET v == Furthest(a, b, d - 1)
         IN  [k \in Diagonals(d) |->
                 LET x == StartOf(v, d, k) IN x + Slide(a, b, x, x - k)]

\* Where the searches meet at d: the diagonal on which the two ends reach each
\* other, as the snake there, of the search forward when the lengths differ by
\* an odd number and of the one backward when they do not.
Meeting(n, m, d, vf, vb, before) ==
    LET delta == n - m
        odd == delta % 2 # 0
        on == {k \in Diagonals(d) :
                  IF odd THEN delta - k \in (1 - d)..(d - 1) /\ vf[k] + vb[delta - k] >= n
                  ELSE delta - k \in -d..d /\ vb[k] + vf[delta - k] >= n}
        snake(k, s) == IF odd THEN << s, s - k, vf[k] - s >>
                       ELSE << n - vb[k], m - (vb[k] - k), vb[k] - s >>
        at(k) == snake(k, StartOf(before, d, k))
    IN  IF on = {} THEN {} ELSE {at(Min(on))}

\* snake: the run of matches where the searches from both ends first meet, as
\* what stands before it in a and in b, and its length; the empty set when
\* they never do.
Snake(a, b) ==
    LET odd == (Len(a) - Len(b)) % 2 # 0
        forward(d) == Furthest(a, b, d)
        backward(d) == Furthest(Reverse(a), Reverse(b), d)
        meets(d) == IF odd THEN Meeting(Len(a), Len(b), d, forward(d), backward(d - 1), forward(d - 1))
                    ELSE Meeting(Len(a), Len(b), d, forward(d), backward(d), backward(d - 1))
        first == {d \in 0..((Len(a) + Len(b) + 1) \div 2) : meets(d) # {}}
    IN  IF first = {} THEN {} ELSE meets(Min(first))

\* compare: the lines of b a common subsequence with a keeps.
RECURSIVE Matched(_, _)
Moved(ns, m) == {n + m : n \in ns}

\* The snake, and what matches on its two sides.
Around(a, b, snake) ==
    LET left  == Matched(SubSeq(a, 1, snake[1]), SubSeq(b, 1, snake[2]))
        right == Matched(SubSeq(a, snake[1] + snake[3] + 1, Len(a)),
                         SubSeq(b, snake[2] + snake[3] + 1, Len(b)))
    IN  left \cup Moved(1..snake[3], snake[2]) \cup Moved(right, snake[2] + snake[3])

Between(a, b) ==
    IF a = << >> \/ b = << >> THEN {} ELSE Around(a, b, CHOOSE t \in Snake(a, b) : TRUE)

Matched(a, b) ==
    LET p == Slide(a, b, 0, 0)
        s == Slide(Reverse(SubSeq(a, p + 1, Len(a))), Reverse(SubSeq(b, p + 1, Len(b))), 0, 0)
    IN  (1..p) \cup ((Len(b) - s + 1)..Len(b))
        \cup Moved(Between(SubSeq(a, p + 1, Len(a) - s), SubSeq(b, p + 1, Len(b) - s)), p)

\* insertedLines
Inserted(a, b) == DOMAIN b \ Matched(a, b)
=============================================================================
