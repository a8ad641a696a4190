----------------------------- MODULE MCWalkTree -----------------------------
(***************************************************************************)
(* An instance of WalkTree: a root with a node_modules directory m and a   *)
(* directory w that holds a file and may be a linked worktree.             *)
(***************************************************************************)
EXTENDS WalkTree, TLC

Tree == {"root", "w", "w/.git", "w/f", "m"}
TreeDir == {"root", "w", "m"}
TreeParent == [n \in Tree \ {"root"} |-> IF n \in {"w/.git", "w/f"} THEN "w" ELSE "root"]

Changes == {"create", "delete"}

Procs == Permutations(Proc)
=============================================================================
