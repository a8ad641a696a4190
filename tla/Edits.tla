------------------------------- MODULE Edits --------------------------------
(***************************************************************************)
(* Byte-range edits (edit/edit.go): what a repair is made of, the scope    *)
(* that bounds where it may land, and the text it leaves.                  *)
(*                                                                         *)
(* Offsets are the code's: byte i of the source is src[i+1], and an edit   *)
(* replaces the bytes start .. end-1.                                      *)
(***************************************************************************)
EXTENDS Integers, Sequences

CONSTANT Byte    (* what a source is made of *)

Edit == [start : Int, end : Int, text : Seq(Byte)]

\* Scope bounds where an edit may land; bounded = FALSE admits the whole file.
Scope == [start : Int, end : Int, bounded : BOOLEAN]

Whole == [start |-> 0, end |-> 0, bounded |-> FALSE]
Within(from, to) == [start |-> from, end |-> to, bounded |-> TRUE]
Nowhere == Within(1, 0)

\* Scope.Admits: the edit lies inside the scope.
Admits(s, e) == ~s.bounded \/ (e.start >= s.start /\ e.end <= s.end)

Delta(e) == Len(e.text) - (e.end - e.start)

\* Mutant: an edit that ends exactly at the scope's end does not move it.
Shift_EndStrict(s, applied) ==
    LET end[i \in 0..Len(applied)] ==
          IF i = 0 THEN s.end
          ELSE end[i-1] + (IF applied[i].end < s.end THEN Delta(applied[i]) ELSE 0)
    IN  IF s.bounded THEN Within(s.start, end[Len(applied)]) ELSE s

\* Scope.Shift: each bound moves by the growth of every edit that ends at or
\* before where that bound stood in the original source.
Shift(s, applied) ==
    LET start[i \in 0..Len(applied)] ==
          IF i = 0 THEN s.start
          ELSE start[i-1] + (IF applied[i].end <= s.start THEN Delta(applied[i]) ELSE 0)
        end[i \in 0..Len(applied)] ==
          IF i = 0 THEN s.end
          ELSE end[i-1] + (IF applied[i].end <= s.end THEN Delta(applied[i]) ELSE 0)
    IN  IF s.bounded THEN Within(start[Len(applied)], end[Len(applied)]) ELSE s

\* Where copying resumes after the first i edits of es.
Resume(es, i) == IF i = 0 THEN 0 ELSE es[i].end

\* Splice writes sorted, disjoint edits into src.
Splice(src, es) ==
    LET written[i \in 0..Len(es)] ==
          IF i = 0 THEN << >>
          ELSE written[i-1] \o SubSeq(src, Resume(es, i-1) + 1, es[i].start)
                            \o es[i].text
    IN  written[Len(es)] \o SubSeq(src, Resume(es, Len(es)) + 1, Len(src))

OutOfBounds(src, e) == e.start < 0 \/ e.end > Len(src) \/ e.start > e.end
=============================================================================
