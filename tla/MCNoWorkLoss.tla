---------------------------- MODULE MCNoWorkLoss ----------------------------
(***************************************************************************)
(* Two paths and three contents: content 1 is committed, 2 is staged or    *)
(* written later, 3 is written last.  Every combination of index and disk  *)
(* on a branch of one commit, and on a branch with none.                   *)
(***************************************************************************)
EXTENDS NoWorkLoss

CONSTANTS a, b

MCPath == {a, b}
MCContent == {1, 2, 3}

Files(x, y) == [p \in MCPath |-> IF p = a THEN x ELSE y]

\* A repository whose branch holds a only, and its remote the same branch.
Born == {[disk |-> d, index |-> i, head |-> << Files(1, Absent) >>,
          remote |-> << Files(1, Absent) >>] :
            d \in {Files(x, y) : x \in {1, 2, 3, Absent}, y \in {Absent, 1}},
            i \in {Files(x, y) : x \in {1, 2, Absent, Unmerged}, y \in {Absent, 2}}}

Unborn == {[disk |-> d, index |-> i, head |-> << >>, remote |-> << >>] :
            d \in {Files(x, y) : x \in {1, 3, Absent}, y \in {Absent, 1}},
            i \in {Files(x, y) : x \in {1, 2, Absent}, y \in {Absent, 2}}}

F(paths, haz, effect) == [paths |-> paths, haz |-> haz, effect |-> effect, denied |-> FALSE]
Rm(paths) == F(paths, {"tracked", "untracked"}, "remove")
ResetHard == F(MCPath, {"tracked"}, "discard")
Clean == F(MCPath, {"untracked"}, "remove")
Checkout(paths) == F(paths, {"tracked"}, "discard")
StashDrop == [F({}, {}, "discard") EXCEPT !.denied = TRUE]

Singles == {Rm({a}), Rm({a, b}), ResetHard, Clean, Checkout({a})}
MCCommands == {<< f >> : f \in Singles} \cup {<< f, g >> : f, g \in Singles}
              \cup {<< Rm({a}), StashDrop >>}

AllBut(S) == Steps \ S
BornFailing == AllBut({"seed", "list"})
UnbornFailing == AllBut({"seed", "headtree"})
BothRepos == Born \cup Unborn
=============================================================================
