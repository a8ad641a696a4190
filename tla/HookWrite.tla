------------------------------ MODULE HookWrite -----------------------------
(***************************************************************************)
(* The write guard of the hook (judge in cmd/hook.go): an edit first goes  *)
(* through HandFix, then through Placement, and the tool applies what is   *)
(* left of it.                                                             *)
(***************************************************************************)
EXTENDS HandFix, Placement

\* The edit alone, when it cannot be pinned to the file: its new text is
\* repaired as a text of its own.
Fragments(edits) ==
    [n \in DOMAIN edits |-> [edits[n] EXCEPT !.new = Fix(@, Whole).text]]

\* Mutant: the repair is written over the edit the session asked for.
Pinned_Asked(tool, asked, placed) ==
    IF tool = "Edit" /\ placed.new # << >> /\ placed.new[1] # placed.was
    THEN << [asked[1] EXCEPT !.new = placed.new[1]] >>
    ELSE asked

\* take: the repair becomes the call's new_string, and its old_string when the
\* repair reaches past it.  A MultiEdit has neither, and stays as it is.
Pinned(tool, asked, placed) ==
    IF tool = "Edit" /\ placed.new # << >> /\ placed.new[1] # placed.was
    THEN << [asked[1] EXCEPT !.old = placed.old, !.new = placed.new[1]] >>
    ELSE asked

\* judge: what HandFix and Placement answer, and the edits the tool is left
\* with.
Judged(tool, hand, asked, placed) ==
    [hand |-> hand, placed |-> placed,
     edits |-> IF placed.ok THEN Pinned(tool, asked, placed) ELSE Fragments(asked)]

JudgeRepaired(tool, before, edits, hand) ==
    LET asked == IF hand.kind = "rewrite" THEN << Replacement(hand.old, hand.new, FALSE) >> ELSE edits
    IN  Judged(tool, hand, asked, Place(before, asked))

Judge(tool, before, edits) == JudgeRepaired(tool, before, edits, HandFix(before, edits))
=============================================================================
