------------------------------ MODULE MCForkBase ------------------------------
(***************************************************************************)
(* Two processes of one clone, a whole one or one of a single commit.      *)
(* Histories of three to eight commits: a fork of a parent that moves on;  *)
(* a fork that merged its upstream and one that squashed it, which the     *)
(* fork list names; a repository that becomes a listed fork; a fork whose  *)
(* branch was rewritten at origin.                                         *)
(***************************************************************************)
EXTENDS ForkBase

CONSTANTS p1, p2
MCProc == {p1, p2}

Chain(n) == [c \in 1..n |-> IF c = 1 THEN << >> ELSE << c - 1 >>]
Saying(kind, tags, tip) == [kind |-> kind, tags |-> tags, tip |-> tip]
World(parents, branches, origin, cut, says, tree) ==
    [parents |-> parents, heads |-> branches, origin |-> origin, clone |-> cut, says |-> says,
     tree |-> tree]

\* 1-2-3-5-6 is the parent's branch, 2-4 the fork's.
Line == << << >>, <<1>>, <<2>>, <<2>>, <<3>>, <<5>> >>
LineTree == << {}, {1}, {1,2}, {1,4}, {1,2,3}, {1,2,3,5} >>
Forked(cut) ==
    World(Line, {4}, 4, cut, << Saying("parent", {}, 5), Saying("parent", {}, 6) >>, LineTree)

\* 6 merges the parent's 4, which came to it by a side branch too: 1-2-4-5-8,
\* 2-3-5; the fork's branches are 6 and, in front of it, 7.
Merged == << << >>, <<1>>, <<1>>, <<2>>, <<4, 3>>, <<2>>, <<6, 4>>, <<5>> >>
MergedTree == << {}, {1}, {2}, {1,3}, {1,2,3}, {1,4}, {1,3,4}, {1,2,3,5} >>
Synced(kind, tags) ==
    World(Merged, {6, 7}, 6, 0,
          << Saying(kind, {}, 5), Saying(kind, tags, 8) >>, MergedTree)

\* The fork 2-5-7 squashed the upstream 1-3-4-6-8 at 4.
Apart == << << >>, << >>, <<1>>, <<3>>, <<2>>, <<4>>, <<5>>, <<6>> >>
ApartTree == << {1}, {1}, {1,2}, {1,2,3}, {1,9}, {1,2,3,4}, {1,2,3,9}, {1,2,3,4,5} >>
Squashed(cut) ==
    World(Apart, {7}, 7, cut,
          << Saying("listed", {}, 6), Saying("listed", {1}, 8) >>, ApartTree)

Listed == World(Line, {4}, 4, 0, << Saying("plain", {}, 5), Saying("listed", {2}, 5) >>, LineTree)
\* The fork's 3 is no longer on origin's branch, which went back to 1.
Gone == World(<< << >>, <<1>>, <<1>> >>, {3}, 1, 1, << Saying("parent", {}, 2) >>, << {}, {1}, {2} >>)

MCWorlds == {Forked(0), Forked(1), Synced("parent", {}), Synced("listed", {2, 4}),
             Squashed(0), Squashed(1), Listed, Gone}

\* The world in which BaseIsRight does not hold, and no run has it: a side
\* branch that the parent merged reaches past the fork point, 3, sooner than its
\* main line 8-7-6-4-3 does: 8-5-2; the fork is 9, on 3.
Shortcut == << << >>, <<1>>, <<2>>, <<3>>, <<2>>, <<4>>, <<6>>, <<7, 5>>, <<3>> >>
ShortcutTree == [c \in 1..9 |-> {}]
MCShortcut == {World(Shortcut, {9}, 9, 1, << Saying("parent", {}, 8) >>, ShortcutTree)}

===============================================================================
