---------------------------- MODULE MCAlgorithms ----------------------------
(***************************************************************************)
(* The pure algorithms on bounded inputs: a job is chosen, then answered   *)
(* by the code's algorithm, and each property compares the answer with     *)
(* what the algorithm promises.                                            *)
(***************************************************************************)
EXTENDS Integers, Sequences, FiniteSets, SequencesExt

CONSTANT Kinds   (* the kinds of input a run is about *)

VARIABLES job, answer

Unanswered == [kind |-> "none"]

-----------------------------------------------------------------------------
(* Texts whose bytes are words, line ends and comment marks.  The words    *)
(* a, b and y are plain.  The others are repaired: x to y, v into two      *)
(* lines, j with the line end after it, m by moving to the next line, w    *)
(* with the word before it, and q by the loss of its line.                 *)

Break == "|"
Mark  == "#"
E(from, to, text) == [start |-> from, end |-> to, text |-> text]
Places1(t, w) == {i \in DOMAIN t : t[i] = w}
MarksAt(t, i) == IF i <= Len(t) /\ t[i] = Mark THEN 1 ELSE 0

LineStart1(t, i) == CHOOSE k \in 1..i : (k = 1 \/ t[k-1] = Break) /\ \A n \in k..(i-1) : t[n] # Break
AloneOnLine(t, i) ==
    /\ LineStart1(t, i) + MarksAt(t, LineStart1(t, i)) = i
    /\ i = Len(t) \/ t[i+1] = Break

\* The words that may join the next line: it has one, of the same kind.
Joining(t, w) ==
    {i \in Places1(t, w) : /\ i + 2 <= Len(t) /\ t[i+1] = Break /\ t[i+2] # Break
                           /\ MarksAt(t, i+2) = MarksAt(t, LineStart1(t, i))
                           /\ i + 2 + MarksAt(t, i+2) <= Len(t)}
MCWanted(fixer, t) ==
    LET mark(i) == IF MarksAt(t, i+2) = 1 THEN << Mark >> ELSE << >>
        edits == CASE fixer = "reword" -> {E(i - 1, i, << "y" >>) : i \in Places1(t, "x")}
                   [] fixer = "divide" -> {E(i - 1, i, << "b", Break, "b" >>) : i \in Places1(t, "v")}
                   [] fixer = "join"   -> {E(i - 1, i + 1 + MarksAt(t, i+2), << "b" >>) : i \in Joining(t, "j")}
                   [] fixer = "rewrap" -> {E(i - 1, i + 1 + MarksAt(t, i+2), << Break >> \o mark(i) \o << "a" >>) :
                                              i \in Joining(t, "m")}
                   [] fixer = "drop"   -> {E(LineStart1(t, i) - 1, IF i = Len(t) THEN i ELSE i + 1, << >>) :
                                              i \in {n \in Places1(t, "q") : AloneOnLine(t, n)}}
                   [] fixer = "pair"   -> {E(i - 2, i, << "y" >>) :
                                              i \in {n \in Places1(t, "w") : n > 1 /\ t[n-1] \notin {Break, "w"}}}
    IN  SetToSortSeq(edits, LAMBDA e, f : e.start < f.start)

Bad == {"x", "v", "q", "w"}
MCFindings(t) == [w \in {v \in Bad : v \in Range(t)} |-> Cardinality(Places1(t, w))]

\* The hook's fixers, and those of a fork's repair.
Plain  == << "reword", "divide", "join", "drop", "pair" >>
InFork == << "reword", "drop", "rewrap", "join" >>

W == INSTANCE HookWrite WITH
         Byte <- {}, Newline <- Break, Fixers <- Plain, Wanted <- MCWanted,
         Findings <- MCFindings, FixRounds <- 4

L == INSTANCE ForkLines WITH
         Newline <- Break, Marks <- {Mark}, Fences <- {"f"}, Headings <- {"t"}, Items <- {"-"}

\* A fixer reports where it would write, and a run of two comment lines or
\* more is too long.
LineNo(t, at) == 1 + Cardinality({k \in 1..at : t[k] = Break})
MCReported(t) ==
    UNION {{[id |-> f, first |-> LineNo(t, e.start), last |-> LineNo(t, e.start)] :
               e \in ToSet(MCWanted(f, t))} : f \in ToSet(InFork)}
    \cup LET ids == L!CommentRuns(t)
             run(id) == L!LinesOf(ids, id)
         IN  {[id |-> "block", first |-> L!Min(run(id)), last |-> L!Max(run(id))] :
                 id \in {i \in ToSet(ids) \ {0} : Cardinality(run(i)) > 1}}

F == INSTANCE ForkFix WITH
         Byte <- {}, Newline <- Break, Fixers <- InFork, Wanted <- MCWanted,
         Findings <- MCFindings, FixRounds <- 4, Reported <- MCReported,
         RulesByName <- << "drop", "join", "reword", "rewrap" >>,
         Marks <- {Mark}, Fences <- {"f"}, Headings <- {"t"}, Items <- {"-"},
         RunRules <- {"drop", "block"}, BlockRules <- {"block"}

M == INSTANCE Myers

Target == 14
S == INSTANCE Split WITH
         SplitTarget <- Target, LeastLink <- 2, LinkSize <- 3, TailLink <- 3, FenceSize <- 1

-----------------------------------------------------------------------------
(* The inputs.                                                              *)

Ended(lines) == FlattenSeq([n \in DOMAIN lines |-> lines[n] \o << Break >>])
Upto(set, most) == UNION {[1..n -> set] : n \in 1..most}

\* Edits of texts of up to three lines.
MCLines == {<< "a" >>, << "x" >>, << "j" >>, << "v" >>, << "q" >>, << >>}
Texts == {SubSeq(Ended(ls), 1, Len(Ended(ls)) - 1) : ls \in Upto(MCLines, 3)}
Pieces(t) == {W!Slice(t, i, j) : i, j \in 0..Len(t)} \ {<< >>}
News == {<< >>, << "a" >>, << "x" >>, << "y" >>, << "w" >>, << "b", Break, "x" >>}
WriteJob ==
    \E t \in Texts, new \in News : \E old \in Pieces(t) :
        job = [kind |-> "write", tool |-> "Edit", before |-> t,
               edits |-> << W!Replacement(old, new, FALSE) >>]

\* An edit of every place, and two edits of one word each, of shorter texts.
Short == {t \in Texts : Len(t) <= 4}
WriteManyJob ==
    \/ \E t \in Short, new \in News : \E n \in DOMAIN t :
          job = [kind |-> "write", tool |-> "Edit", before |-> t,
                 edits |-> << W!Replacement(<< t[n] >>, new, TRUE) >>]
    \/ \E t \in Short, new \in News, newer \in News : \E n, m \in DOMAIN t :
          job = [kind |-> "write", tool |-> "MultiEdit", before |-> t,
                 edits |-> << W!Replacement(<< t[n] >>, new, FALSE), W!Replacement(<< t[m] >>, newer, FALSE) >>]

\* The ways to stand words on n lines, none of them empty.
Cuts(ws, n) ==
    {[k \in 1..n |-> SubSeq(ws, IF k = 1 THEN 1 ELSE c[k-1] + 1, c[k])] :
        c \in {d \in [1..n -> 1..Len(ws)] : d[n] = Len(ws) /\ \A k \in 1..(n-1) : d[k] < d[k+1]}}
OneWordOff(s) ==
    {s} \cup {RemoveAt(s, n) : n \in DOMAIN s} \cup {[s EXCEPT ![n] = "y"] : n \in DOMAIN s}
        \cup {InsertAt(s, n, "y") : n \in 1..(Len(s) + 1)}
        \cup {InsertAt(RemoveAt(s, n), m, s[n]) : n, m \in DOMAIN s}

\* A rewrap of four words that changes, cuts, adds or moves one of them.
KeepJob ==
    \E n \in 2..3, o \in SUBSET (1..3), ws \in OneWordOff(<< "a", "b", "c", "d" >>) :
        /\ o \subseteq 1..n
        /\ \E b \in Cuts(<< "a", "b", "c", "d" >>, n), a \in Cuts(ws, n) :
              job = [kind |-> "keep", old |-> Ended(b), new |-> Ended(a), owned |-> o]

\* A base of up to three lines, into which the fork wrote one, no line twice.
Source == {<< Mark, "x" >>, << Mark, "a", "j" >>, << Mark, "q" >>, << Mark, "b", "m" >>,
           << Mark, "a" >>, << "b" >>}
Prose  == {<< "x" >>, << "a", "j" >>, << "q" >>, << "b", "m" >>, << "a" >>, << >>}
NoneTwice(ls) == \A i, j \in DOMAIN ls : ls[i] = ls[j] => i = j
Grows(b, lines) ==
    {InsertAt(b, n, l) : n \in 1..(Len(b) + 1), l \in lines}
        \cup {[b EXCEPT ![n] = l] : n \in DOMAIN b, l \in lines}
ForkJob ==
    \E document \in BOOLEAN :
    LET lines == IF document THEN Prose ELSE Source
    IN  \E b \in Upto(lines, 3) : \E c \in Grows(b, lines) :
           /\ NoneTwice(b) /\ NoneTwice(c)
           /\ job = [kind |-> "fork", base |-> Ended(b), content |-> Ended(c), document |-> document]

\* Two texts of up to five lines of two kinds.
DiffJob ==
    \E a \in {<< >>} \cup Upto({1, 2}, 5), b \in {<< >>} \cup Upto({1, 2}, 5) :
        job = [kind |-> "diff", a |-> a, b |-> b]

\* A file of five lines and its last line end.
FileLines == {<< "head", 3, 1 >>, << "head", 4, 2 >>, << "head", 5, 3 >>, << "text", 3, 0 >>,
              << "text", 9, 0 >>, << "fence", 1, 0 >>, << "blank", 0, 0 >>}
SplitJob ==
    \E ks \in [1..5 -> FileLines] :
        job = [kind |-> "split",
               lines |-> Append([i \in 1..5 |-> S!Line(ks[i][1], ks[i][2], ks[i][3], i)], S!BlankLine)]

-----------------------------------------------------------------------------

Init ==
    /\ answer = Unanswered
    /\ \/ "write" \in Kinds /\ (WriteJob \/ WriteManyJob)
       \/ "keep" \in Kinds /\ KeepJob
       \/ "fork" \in Kinds /\ ForkJob
       \/ "diff" \in Kinds /\ DiffJob
       \/ "split" \in Kinds /\ SplitJob

Answer(kind, value) ==
    /\ job.kind = kind /\ answer = Unanswered
    /\ answer' = value
    /\ UNCHANGED job

AnswerWrite == Answer("write", [kind |-> "write"] @@ W!Judge(job.tool, job.before, job.edits))
AnswerKeep  == Answer("keep", [kind |-> "keep", kept |-> L!Keep(job.old, job.new, job.owned)])
AnswerDiff  == Answer("diff", [kind |-> "diff", matched |-> M!Matched(job.a, job.b)])
AnswerSplit == Answer("split", [kind |-> "split"] @@ S!SplitFile(job.lines))

\* The steps of a repair in a fork.
Owned == F!Changed(job.base, job.content)
RepairOnLines == Answer("fork", [kind |-> "lines", text |-> F!OnLines(job.content, Owned)])
Then(kind, next, text) ==
    /\ answer.kind = kind
    /\ answer' = [kind |-> next, text |-> text]
    /\ UNCHANGED job
RepairAlone  == Then("lines", "alone", F!Alone(job.base, job.content, Owned, answer.text))
RepairFold   == Then("alone", "fold", F!Fold(job.base, job.content, Owned, answer.text))
RepairBlocks == /\ answer.kind = "fold" /\ job.document
                /\ Then("fold", "blocks", F!FixBlocks(job.content, Owned, answer.text))

Next == \/ AnswerWrite \/ AnswerKeep \/ AnswerDiff \/ AnswerSplit
        \/ RepairOnLines \/ RepairAlone \/ RepairFold \/ RepairBlocks

Spec == Init /\ [][Next]_<< job, answer >>

-----------------------------------------------------------------------------

SubSequence(s, t) ==
    LET step(n, x) == IF n < Len(s) /\ s[n + 1] = x THEN n + 1 ELSE n
    IN  FoldLeft(step, 0, t) = Len(s)
Only(s, ns) == LET at == SelectSeq([n \in DOMAIN s |-> n], LAMBDA n : n \in ns)
               IN  [n \in DOMAIN at |-> s[at[n]]]

Written == answer.kind = "write"

\* What the write hook leaves of an edit that could be made can still be made:
\* the tool finds its old text once, and the edit of a hand-made repair writes
\* the very file the hook decided on (handFix in cmd/handfix.go, lineSpan).
PlacesOnce ==
    Written /\ W!Replay(job.before, job.edits).ok /\ answer.hand.kind # "refuse"
      => /\ W!Replay(job.before, answer.edits).ok
         /\ answer.hand.kind = "rewrite" =>
              W!Replay(job.before, << W!Replacement(answer.hand.old, answer.hand.new, FALSE) >>).text
                  = answer.hand.result

\* The file the hook judged is the file the tool then writes: the span cut out
\* of the repaired file, put in the place of the edit's old text, gives that
\* file back (place and cutBack in cmd/placement.go, take in cmd/hook.go).
JudgedIsWritten ==
    /\ Written /\ answer.placed.ok /\ answer.hand.kind # "refuse"
    /\ job.tool = "Edit" \/ answer.hand.kind = "leave"
    => W!Replay(job.before, answer.edits).text = answer.placed.judged

\* A line the edit left alone comes out of the hand-made repair as it was, and
\* in its place (keepWritten and restoreRepairs in cmd/handfix.go).
KeepsUnwritten ==
    Written /\ answer.hand.kind = "rewrite" =>
        LET after == W!Replay(job.before, job.edits).text
        IN  SubSequence(Only(W!Lines(job.before), W!SameLines(job.before, after)),
                        W!Lines(answer.hand.result))

Count(t, w) == Cardinality({i \in DOMAIN t : t[i] = w})
Less(m, n) == IF m < n THEN m ELSE n
More(m, n) == IF m < n THEN n ELSE m
InOneRun == Cardinality({n \in DOMAIN L!Ops(job.old, job.new) : L!Ops(job.old, job.new)[n].tag # "e"}) <= 1

\* A repair that rewraps one run of lines, of which the fork wrote some, and
\* changes a word of it, neither loses a word nor writes one twice when it is
\* kept to the fork's lines (Keep in forkscope/scope.go, ownedRewrap).
WordsStandOnce ==
    answer.kind = "keep" /\ InOneRun =>
        \A w \in ToSet(job.old \o job.new) \ {Break} :
            Count(answer.kept, w) \in
                Less(Count(job.old, w), Count(job.new, w))..More(Count(job.old, w), Count(job.new, w))

\* The lines the fork did not write, outside the blocks and the comment runs it
\* grew, come through every step of a repair unchanged and in their order
\* (within, alone, fold and Fix in forkscope.go and fix.go).
ForeignLinesStand ==
    answer.kind \in {"lines", "alone", "fold", "blocks"} =>
        LET reach == IF job.document THEN F!Widen(Owned, job.content)
                     ELSE F!WidenComments(Owned, job.base, job.content)
            ls == F!SplitLines(job.content)
        IN  SubSequence(Only(ls, DOMAIN ls \ reach), F!SplitLines(answer.text))

\* The lines the diff matches are a common subsequence of both texts, and no
\* longer one exists (insertedLines in forkscope/myers.go).
ShortestScript ==
    answer.kind = "diff" =>
        /\ SubSequence(Only(job.b, answer.matched), job.a)
        /\ \A s \in SUBSET DOMAIN job.b :
              Cardinality(s) > Cardinality(answer.matched) => ~SubSequence(Only(job.b, s), job.a)

Fences(ls) == Cardinality({i \in DOMAIN ls : ls[i].kind = "fence"})
Named(ls, i) == {n \in DOMAIN ls : ls[n].id = i /\ ls[n].kind \in {"head", "text"}}

\* A split loses no line and doubles none: each text stands in one file, whole
\* or in its two parts, each heading in one, or in two as the title of what
\* moved; the file comes down to the target, and no fence is left open (Split,
\* moveSections and moveTail in split.go).
SplitKeeps ==
    answer.kind = "split" =>
        LET all == answer.file \o FlattenSeq(answer.docs)
        IN  /\ S!Size(job.lines) > Target => S!Size(answer.file) <= Target
            /\ \A i \in DOMAIN job.lines :
                 LET parts == [n \in Named(all, i) |-> all[n].part]
                     n == Cardinality(Named(all, i))
                 IN  /\ job.lines[i].kind = "text" =>
                          \/ n = 1 /\ \A k \in DOMAIN parts : parts[k] = "all"
                          \/ n = 2 /\ {parts[k] : k \in DOMAIN parts} = {"head", "rest"}
                     /\ job.lines[i].kind = "head" => n \in 1..2
            /\ Fences(job.lines) % 2 = 0 =>
                 /\ Fences(answer.file) % 2 = 0
                 /\ \A d \in ToSet(answer.docs) : Fences(d) % 2 = 0
=============================================================================
