------------------------------- MODULE HandFix ------------------------------
(***************************************************************************)
(* cmd/handfix.go: an edit that changes a line `slopfix fix` repairs goes  *)
(* through as fix writes that line.  The edit is replayed, the result      *)
(* repaired, the repair kept on the lines the edit wrote, and the whole    *)
(* put into one edit that the tool can place.  Lines count from one.       *)
(***************************************************************************)
EXTENDS FixText, Text

\* replay: the edits as the tool applies them, replace_all honoured.
Replay(src, edits) ==
    LET places(r, e) == Len(Places(r.text, e.old))
        step(r, e) == IF /\ r.ok /\ e.old # << >> /\ places(r, e) # 0
                         /\ (places(r, e) = 1 \/ e.all)
                      THEN [text |-> Replaced(r.text, e.old, e.new), ok |-> TRUE]
                      ELSE [text |-> << >>, ok |-> FALSE]
    IN  FoldLeft(step, [text |-> src, ok |-> TRUE], edits)

\* changedLines: the lines of before that after replaces or deletes.
ChangedLines(before, after) ==
    UNION {(op.i1 + 1)..op.i2 : op \in {o \in LineOps(before, after) : o.tag \in {"r", "d"}}}

\* sameLines: the lines of x that y keeps.
SameLines(x, y) ==
    UNION {(op.i1 + 1)..op.i2 : op \in {o \in LineOps(x, y) : o.tag = "e"}}

OneToOne(op) == op.tag = "r" /\ op.i2 - op.i1 = op.j2 - op.j1

\* pairs: each line of x that y replaces one for one, with the line of y.
Pairs(x, y) ==
    UNION {{<< op.i1 + k, op.j1 + k >> : k \in 1..(op.i2 - op.i1)} :
              op \in {o \in LineOps(x, y) : OneToOne(o)}}

\* writtenLines: the lines of after that the edit wrote.
WrittenLines(before, after) ==
    UNION {(op.j1 + 1)..op.j2 : op \in {o \in LineOps(before, after) : o.tag # "e"}}

\* restoreRepairs: where the edit made a repair by hand, the lines come back
\* as fix writes them; a line fix leaves comes back as it was.
Restored(b, f, a, repaired, kept, restoring) ==
    LET fix(i) == {n \in DOMAIN f : << i, n >> \in repaired}
        back(i, j) == IF fix(i) # {} THEN f[CHOOSE n \in fix(i) : TRUE]
                      ELSE IF i \in kept THEN b[i] ELSE a[j]
        ops(j) == {op \in restoring : j \in (op.j1 + 1)..op.j2}
        line(j, op) == back(op.i1 + (j - op.j1), j)
    IN  Joined([j \in DOMAIN a |->
            IF ops(j) = {} THEN a[j] ELSE line(j, CHOOSE op \in ops(j) : TRUE)])

RestoreRepairs(before, fixedBefore, after, stillFixed) ==
    LET f == Lines(fixedBefore)
        repaired == Pairs(before, fixedBefore)
        restoring == {op \in LineOps(before, after) : OneToOne(op) /\
            \E k \in 1..(op.i2 - op.i1), n \in DOMAIN f :
                << op.i1 + k, n >> \in repaired /\ op.j1 + k \notin stillFixed}
    IN  Restored(Lines(before), f, Lines(after), repaired, SameLines(before, fixedBefore), restoring)

\* Mutant: one written line is enough.
InWritten_One(written, op) ==
    IF op.i1 = op.i2 THEN op.i1 \in written \/ op.i1 + 1 \in written
    ELSE \E i \in (op.i1 + 1)..op.i2 : i \in written

\* within: the change lands on written lines only, or stands beside one.
InWritten(written, op) ==
    IF op.i1 = op.i2 THEN op.i1 \in written \/ op.i1 + 1 \in written
    ELSE (op.i1 + 1)..op.i2 \subseteq written

\* keepWritten: of fixed, the changes that land on the lines the edit wrote.
KeepWritten(after, fixed, written) ==
    LET a == Lines(after)
        b == Lines(fixed)
        piece(op) ==
            IF op.tag = "e" THEN SubSeq(a, op.i1 + 1, op.i2)
            ELSE IF OneToOne(op)
            THEN [k \in 1..(op.i2 - op.i1) |->
                     IF op.i1 + k \in written THEN b[op.j1 + k] ELSE a[op.i1 + k]]
            ELSE IF InWritten(written, op) THEN SubSeq(b, op.j1 + 1, op.j2)
            ELSE SubSeq(a, op.i1 + 1, op.i2)
        ops == OpCodes(a, b)
    IN  Joined(FlattenSeq([n \in DOMAIN ops |-> piece(ops[n])]))

\* The lines two texts open with alike, and those they then close with alike.
AlikeFirst(a, b) == Max({n \in 0..Len(a) : n <= Len(b) /\ \A k \in 1..n : a[k] = b[k]})
AlikeLast(a, b, p) ==
    Max({n \in 0..(Len(a) - p) : n <= Len(b) - p /\
            \A k \in 1..n : a[Len(a) + 1 - k] = b[Len(b) + 1 - k]})

\* Mutant: the span is what differs, wherever else it stands in the file.
Spanned_Least(before, a, b, p, s) ==
    [old |-> Joined(SubSeq(a, p + 1, Len(a) - s)), new |-> Joined(SubSeq(b, p + 1, Len(b) - s))]

\* What differs, grown a line each way until it stands in before exactly once.
Spanned(before, a, b, p, s) ==
    LET less(m, n) == IF m > n THEN m - n ELSE 0
        span(t, n) == Joined(SubSeq(t, less(p, n) + 1, Len(t) - less(s, n)))
        placed(old, n) == \/ old # << >> /\ Len(Places(before, old)) = 1
                          \/ p <= n /\ s <= n
        n == Min({m \in 0..Len(a) : placed(span(a, m), m)})
    IN  [old |-> span(a, n), new |-> span(b, n)]

\* lineSpan: the whole lines that differ, as an edit the tool can place.
LineSpan(before, result) ==
    LET a == Lines(before)
        b == Lines(result)
        p == AlikeFirst(a, b)
    IN  Spanned(before, a, b, p, AlikeLast(a, b, p))

\* handFix: the edit that writes the result, or why there is none.
LeaveIt == [kind |-> "leave"]
Fixed(text) == Fix(text, Whole).text

\* What fix makes of the lines as they come back, on those the edit wrote.
Mended(before, after, repaired, landed) ==
    KeepWritten(landed, IF landed = after THEN repaired ELSE Fixed(landed),
                WrittenLines(before, landed))

Rewritten(before, after, result) ==
    IF result = after THEN LeaveIt
    ELSE IF result = before THEN [kind |-> "refuse"]
    ELSE [kind |-> "rewrite", result |-> result] @@ LineSpan(before, result)

\* rewriteHand, for an edit that leaves after and lines that fix repairs.
RewriteHand(before, after, fixedBefore, repaired) ==
    IF ChangedLines(before, after) \cap ChangedLines(before, fixedBefore) = {} THEN LeaveIt
    ELSE Rewritten(before, after,
             Mended(before, after, repaired,
                 RestoreRepairs(before, fixedBefore, after, ChangedLines(after, repaired))))

HandFix(before, edits) ==
    LET after == Replay(before, edits)
    IN  IF after.ok THEN RewriteHand(before, after.text, Fixed(before), Fixed(after.text))
        ELSE LeaveIt
=============================================================================
