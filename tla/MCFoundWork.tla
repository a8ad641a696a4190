----------------------------- MODULE MCFoundWork -----------------------------
(***************************************************************************)
(* A repository with one submodule, and one piece of work.  The            *)
(* repository's default branch is the one origin/HEAD names, and one of    *)
(* its topic branches is called main; the submodule's is called main, and  *)
(* its origin/HEAD is not set.                                             *)
(***************************************************************************)
EXTENDS FoundWork

CONSTANTS top, sub, w1, h1

MCRepo == {top, sub}
MCSubs == [r \in MCRepo |-> IF r = top THEN << sub >> ELSE << >>]
OneWork == {w1}
OneHook == {h1}

MCHeadSet == {top}
MCPlain == [r \in MCRepo |-> IF r = top THEN {"topic"} ELSE {"default"}]

MCDoings == {"edit", "commit", "switch", "branch", "conflict"}

EditAndCommit == {"edit", "commit"}
NoFailure == {}
=============================================================================
