----------------------------- MODULE MCMdBudget -----------------------------
(***************************************************************************)
(* Tool calls at once, a file of the project and one under ~/.claude, and  *)
(* a session that leaves the project's folder and comes back.              *)
(***************************************************************************)
EXTENDS MdBudget, TLC

MCUnder == [d \in Folder |-> IF d = "here" THEN {"CLAUDE.md"} ELSE {}]

Slots == Permutations(Slot)
=============================================================================
