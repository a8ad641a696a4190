------------------------------- MODULE FixText ------------------------------
(***************************************************************************)
(* The repair of one text (fix.go, fixer/file.go): the fixers of its kind  *)
(* run in order, each hands its edits to the gate, and the passes go on    *)
(* until the text holds or the rounds are used up.  The gate admits what   *)
(* lies in the scope and moves the scope along (module EditGate is the     *)
(* gate itself; here the parser accepts every edit).                       *)
(***************************************************************************)
EXTENDS Edits, SequencesExt

CONSTANTS Fixers,        (* the fixers of the text's kind, in their order   *)
          Wanted(_, _),  (* the edits a fixer wants, in order and disjoint  *)
          Findings(_),   (* a bag: what a check of a text reports           *)
          FixRounds      (* fixRounds                                       *)

\* File.through: what the gate admits is written, and the scope follows.
Through(file, edits) ==
    LET landed == SelectSeq(edits, LAMBDA e : Admits(file.scope, e))
    IN  [text |-> Splice(file.text, landed), scope |-> Shift(file.scope, landed)]

\* fixer.Run: one pass of the fixers a selection keeps, in their order.
Run(file, kept) ==
    FoldLeft(LAMBDA f, fixer : Through(f, Wanted(fixer, f.text)), file,
             SelectSeq(Fixers, LAMBDA fixer : fixer \in kept))

\* fixText: passes until the text holds, or the rounds are used up.
RECURSIVE Passes(_, _, _)
Onward(file, next, kept, rounds) ==
    IF rounds = 1 \/ next.text = file.text THEN next ELSE Passes(next, kept, rounds - 1)
Passes(file, kept, rounds) == Onward(file, Run(file, kept), kept, rounds)

Checked(file) == [text |-> file.text, scope |-> file.scope, findings |-> Findings(file.text)]

FixOnly(kept, text, scope) ==
    Checked(Passes([text |-> text, scope |-> scope], kept, FixRounds))

Fix(text, scope) == FixOnly(ToSet(Fixers), text, scope)
=============================================================================
