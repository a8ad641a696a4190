----------------------------- MODULE MCTreeRun -----------------------------
(***************************************************************************)
(* A package whose Go files name what they move by functions of the same   *)
(* name, one of them generated and one a test, and a workflow.             *)
(***************************************************************************)
EXTENDS TreeRun, TLC

CONSTANTS p1, p2

\* The two processes run the same program.
Symmetry == Permutations(Proc)

Stems == {"run", "run-2", "testdata/run", "ci-job"}
Suffix == << "", "-2", "-3", "-4", "-5", "-6", "-7" >>
Paths == {s \o Suffix[n] : s \in Stems, n \in 1..7}
Names == [x \in Stems \X (1..7) |-> x[1] \o Suffix[x[2]]]

\* The variables of a name: its suffix with no dash.
VarSuffix == << "Sh", "Sh2", "Sh3", "Sh4", "Sh5", "Sh6", "Sh7" >>
Idents == {s \o VarSuffix[n] : s \in Stems, n \in 1..7}
VarNames == [x \in Stems \X (1..7) |->
    (IF x[1] = "testdata/run" THEN "run" ELSE x[1]) \o VarSuffix[x[2]]]
Fixtures == {p \in Paths : p \in {"testdata/run" \o x : x \in Range(Suffix)}}

\* raw settles to neat; the other texts are settled.
Texts == {"raw", "neat", "other", "third", "fourth"}
Settled == [t \in Texts |-> IF t = "raw" THEN "neat" ELSE t]

Inline(s, t) == [stem |-> s, text |-> t, var |-> "none", at |-> "none"]
Var(s, t, v) == [Inline(s, t) EXCEPT !.var = v]
Given(order, m) == [f \in Range(order) |-> IF f \in DOMAIN m THEN m[f] ELSE << >>]
Adds(order, S) == [f \in Range(order) |-> IF f = "a.go" THEN S ELSE {}]
Empty == [p \in Paths |-> "none"]

Files == << "ci.yml", "a.go", "a_gen.go", "b.go", "c_test.go" >>

\* One process, and texts the rules change; a foreign file holds a name.
Lone == [content |-> Given(Files,
            [x \in {"ci.yml"} |-> << Inline("ci-job", "raw") >>] @@
            [x \in {"a.go", "a_gen.go"} |-> << Inline("run", "raw") >>] @@
            [x \in {"b.go"} |-> << Inline("run", "neat"), Var("run-2", "other", "runSh") >>] @@
            [x \in {"c_test.go"} |-> << Inline("testdata/run", "raw") >>]),
         held |-> [Empty EXCEPT !["run"] = "other"], procs |-> {p1},
         adds |-> Adds(Files, {Inline("run", "raw"), Inline("run", "other")})]
\* Two processes, and texts the rules leave as they are.
Pair == [content |-> Given(Files,
            [x \in {"a.go"} |-> << Inline("run", "neat") >>] @@
            [x \in {"b.go"} |-> << Inline("run", "other"), Inline("run", "neat") >>]),
         held |-> Empty, procs |-> {p1, p2},
         adds |-> Adds(Files, {Inline("run", "other")})]
\* Two processes, a workflow, and Go strings that want one name for different texts.
Distinct == [content |-> Given(Files,
            [x \in {"ci.yml"} |-> << Inline("ci-job", "neat") >>] @@
            [x \in {"a.go"} |-> << Inline("run", "neat") >>] @@
            [x \in {"b.go"} |-> << Inline("run", "other"), Inline("run-2", "third") >>]),
         held |-> Empty, procs |-> {p1, p2},
         adds |-> Adds(Files, {Inline("run", "fourth")})]
All == {Lone, Pair, Distinct}
=============================================================================
