------------------------------ MODULE Placement -----------------------------
(***************************************************************************)
(* cmd/placement.go: an edit is judged where it lands.  The hook replays   *)
(* it onto the file, repairs the whole result inside the edit's own span,  *)
(* widens the span to the paragraph when findings remain, and cuts the     *)
(* span out of the repaired file as the edit's new text.                   *)
(***************************************************************************)
EXTENDS FixText, Text

\* A replacement as the tool takes it.
Replacement(old, new, all) == [old |-> old, new |-> new, all |-> all]

\* applyEdits: each old text must stand in the text exactly once.
ApplyEdits(src, edits) ==
    LET step(r, e) == IF r.ok /\ e.old # << >> /\ Len(Places(r.text, e.old)) = 1
                      THEN [text |-> Replaced(r.text, e.old, e.new), ok |-> TRUE]
                      ELSE [text |-> << >>, ok |-> FALSE]
    IN  FoldLeft(step, [text |-> src, ok |-> TRUE], edits)

\* The starts and the ends of the lines of src, their newlines left out.
LineStarts(src) == {0} \cup {i \in 1..Len(src) : src[i] = Newline}
LineEnds(src)   == {i - 1 : i \in {j \in DOMAIN src : src[j] = Newline}} \cup {Len(src)}
LineStart(src, at) == Max({s \in LineStarts(src) : s <= at})
LineEnd(src, at)   == Min({e \in LineEnds(src) : e >= at})
BlankAt(src, start) == LineEnd(src, start) = start

\* paragraphAround: from the line of start up to a blank line, and from the
\* line of end down to one.
ParagraphAround(src, start, end) ==
    LET first == LineStart(src, start)
        last  == LineEnd(src, end)
        unbroken(from, to) ==
            \A s \in LineStarts(src) : from <= s /\ s < to => ~BlankAt(src, s)
    IN  [from |-> Min({s \in LineStarts(src) : s <= first /\ unbroken(s, first)}),
         to   |-> Max({e \in LineEnds(src) : e >= last /\ unbroken(last + 1, e + 1)})]

\* introduced: what the file already carried is its author's.
Introduced(had, found) == found (-) had

\* cutBack: the bytes the scope bounds in the repaired file, if it bounds any.
CutBack(fixed, scope) ==
    LET s == fixed.scope
    IN  IF s.start < 0 \/ s.end > Len(fixed.text) \/ s.start > s.end THEN << >>
        ELSE << Slice(fixed.text, s.start, s.end) >>

\* place: the file the edits leave as repaired, what they introduced, the old
\* text of the edit to make (widened or not) and its new text, if there is one.
NotPlaced == [ok |-> FALSE]
Placed(had, fixed, scope, old, new) ==
    [ok |-> TRUE, judged |-> fixed.text, told |-> Introduced(had, fixed.findings), old |-> old,
     was |-> new, new |-> CutBack(fixed, scope)]

PlaceOne(before, after, e, at) ==
    LET had    == Findings(before)
        narrow == Within(at, at + Len(e.new))
        around == ParagraphAround(before, at, at + Len(e.old))
        grown  == Within(around.from, around.to + Len(e.new) - Len(e.old))
        near   == Placed(had, Fix(after, narrow), narrow, e.old, e.new)
        wide   == Placed(had, Fix(after, grown), grown, Slice(before, around.from, around.to),
                         Slice(after, grown.start, grown.end))
    IN  IF BagCardinality(wide.told) < BagCardinality(near.told) THEN wide ELSE near

Place(before, edits) ==
    LET applied == ApplyEdits(before, edits)
        judged  == Fix(applied.text, Nowhere)
    IN  IF ~applied.ok THEN NotPlaced
        ELSE IF Len(edits) = 1
        THEN PlaceOne(before, applied.text, edits[1], Places(before, edits[1].old)[1])
        ELSE [ok |-> TRUE, judged |-> judged.text, told |-> Introduced(Findings(before), judged.findings),
              old |-> << >>, was |-> << >>, new |-> << >>]
=============================================================================
