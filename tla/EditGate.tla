------------------------------ MODULE EditGate ------------------------------
(***************************************************************************)
(* edit.Gate (edit/edit.go): the only writer of a repaired file.           *)
(*                                                                         *)
(* A gate is handed a source, the edits a fixer wants, the scope the       *)
(* caller allows, a predicate that bars an edit from bytes the parser      *)
(* protects (reach) and a predicate on a candidate text (holds).  It       *)
(* triages the edits in start order, tries the surviving batch as a whole  *)
(* and, when the parser rejects it, bisects the batch so that a single     *)
(* bad edit does not cost the good ones.                                   *)
(*                                                                         *)
(* The recursion of settle is an explicit stack of index ranges into       *)
(* candidates.                                                             *)
(***************************************************************************)
EXTENDS Edits, FiniteSets

CONSTANT Inputs   (* the calls of Gate a behaviour may start from *)

\* A call of Gate: barred is {e : reach(e) # ""}, good is {t : holds(t)}.
Input == [src : Seq(Byte), edits : Seq(Edit), scope : Scope,
          barred : SUBSET Edit, good : SUBSET Seq(Byte)]

ASSUME InputsAssumption == Inputs \subseteq Input

\* sorted: the stable orders of es by start.  There is exactly one.
StableOrders(es) ==
    {p \in [DOMAIN es -> DOMAIN es] :
        \A r, s \in DOMAIN es :
            r < s => \/ es[p[r]].start < es[p[s]].start
                     \/ es[p[r]].start = es[p[s]].start /\ p[r] < p[s]}
Sorted(es) == {[r \in DOMAIN es |-> es[p[r]]] : p \in StableOrders(es)}

Reasons == {"outside the source", "reach", "overlap", "holds"}

-----------------------------------------------------------------------------
VARIABLES
    in,          \* the call's arguments
    pc,          \* "triage", "settle", "done"
    queue,       \* sorted edits still to triage
    candidates,  \* edits the triage kept
    refused,     \* [edit, reason] in the order they were refused
    landed,      \* indexes into candidates of the edits known to hold together
    stack,       \* ranges [lo, hi] of candidates settle has still to visit
    asked,       \* how often holds was called: each call reparses the file
    out          \* Result: text, scope, applied

vars == <<in, pc, queue, candidates, refused, landed, stack, asked, out>>

Spans == [lo : Nat, hi : Nat]
Span(lo, hi) == [lo |-> lo, hi |-> hi]
Interval(g) == [k \in 1..(g.hi - g.lo + 1) |-> g.lo + k - 1]
Pick(idx) == [k \in DOMAIN idx |-> candidates[idx[k]]]
Refusal(e, why) == [edit |-> e, reason |-> why]

Mid(g) == g.lo + (g.hi - g.lo + 1) \div 2

Halves(g) == << Span(g.lo, Mid(g) - 1), Span(Mid(g), g.hi) >>

Unchanged(src, scope) == [text |-> src, scope |-> scope, applied |-> << >>]
Written(es) ==
    [text |-> Splice(in.src, es), scope |-> Shift(in.scope, es), applied |-> es]

Init ==
    /\ in \in Inputs
    /\ pc = "triage"
    /\ queue \in Sorted(in.edits)
    /\ candidates = << >>
    /\ refused = << >>
    /\ landed = << >>
    /\ stack = << >>
    /\ asked = 0
    /\ out = Unchanged(in.src, in.scope)

\* An edit outside the scope is dropped without a finding.
Drop ==
    /\ pc = "triage" /\ queue # << >>
    /\ ~Admits(in.scope, Head(queue))
    /\ queue' = Tail(queue)
    /\ UNCHANGED <<in, pc, candidates, refused, landed, stack, asked, out>>

Overlaps(e) ==
    candidates # << >> /\ e.start < candidates[Len(candidates)].end

\* Why triage refuses an edit inside the scope; the first reason that applies.
Objection(e) ==
    CASE OutOfBounds(in.src, e) -> "outside the source"
      [] ~OutOfBounds(in.src, e) /\ e \in in.barred -> "reach"
      [] ~OutOfBounds(in.src, e) /\ e \notin in.barred /\ Overlaps(e) -> "overlap"
      [] OTHER -> "none"

Refuse ==
    /\ pc = "triage" /\ queue # << >>
    /\ Admits(in.scope, Head(queue))
    /\ Objection(Head(queue)) # "none"
    /\ refused' = Append(refused, Refusal(Head(queue), Objection(Head(queue))))
    /\ queue' = Tail(queue)
    /\ UNCHANGED <<in, pc, candidates, landed, stack, asked, out>>

Keep ==
    /\ pc = "triage" /\ queue # << >>
    /\ Admits(in.scope, Head(queue))
    /\ Objection(Head(queue)) = "none"
    /\ candidates' = Append(candidates, Head(queue))
    /\ queue' = Tail(queue)
    /\ UNCHANGED <<in, pc, refused, landed, stack, asked, out>>

\* Nothing survived the triage: the source is answered unchanged.
NoCandidates ==
    /\ pc = "triage" /\ queue = << >> /\ candidates = << >>
    /\ pc' = "done"
    /\ UNCHANGED <<in, queue, candidates, refused, landed, stack, asked, out>>

\* The whole batch holds, and lands at once.
Batch ==
    /\ pc = "triage" /\ queue = << >> /\ candidates # << >>
    /\ asked' = asked + 1
    /\ Splice(in.src, candidates) \in in.good
    /\ landed' = Interval(Span(1, Len(candidates)))
    /\ out' = Written(candidates)
    /\ pc' = "done"
    /\ UNCHANGED <<in, queue, candidates, refused, stack>>

\* It does not: settle its halves.
Split ==
    /\ pc = "triage" /\ queue = << >> /\ candidates # << >>
    /\ asked' = asked + 1
    /\ Splice(in.src, candidates) \notin in.good
    /\ stack' = Halves(Span(1, Len(candidates)))
    /\ pc' = "settle"
    /\ UNCHANGED <<in, queue, candidates, refused, landed, out>>

Group == Head(stack)
\* Mutant: the trial forgets what has landed.
Trial_GroupAlone == Interval(Group)

Trial == landed \o Interval(Group)
\* Mutant: asks the parser about the group alone.
TrialHolds_GroupAlone == Splice(in.src, Pick(Interval(Group))) \in in.good

TrialHolds == Splice(in.src, Pick(Trial)) \in in.good

\* Mutants: an empty half is put to the parser, or never returns.
SettleEmpty_Asks ==
    /\ pc = "settle" /\ stack # << >> /\ Group.hi < Group.lo
    /\ stack' = Tail(stack)
    /\ asked' = asked + 1
    /\ UNCHANGED <<in, pc, queue, candidates, refused, landed, out>>

\* settle of an empty half returns at once.
SettleEmpty ==
    /\ pc = "settle" /\ stack # << >> /\ Group.hi < Group.lo
    /\ stack' = Tail(stack)
    /\ UNCHANGED <<in, pc, queue, candidates, refused, landed, asked, out>>

\* The group holds beside everything landed so far.
SettleLand ==
    /\ pc = "settle" /\ stack # << >> /\ Group.lo <= Group.hi
    /\ TrialHolds
    /\ asked' = asked + 1
    /\ landed' = Trial
    /\ stack' = Tail(stack)
    /\ UNCHANGED <<in, pc, queue, candidates, refused, out>>

\* A single edit that does not hold is refused.
SettleRefuse ==
    /\ pc = "settle" /\ stack # << >> /\ Group.lo = Group.hi
    /\ ~TrialHolds
    /\ asked' = asked + 1
    /\ refused' = Append(refused, Refusal(candidates[Group.lo], "holds"))
    /\ stack' = Tail(stack)
    /\ UNCHANGED <<in, pc, queue, candidates, landed, out>>

\* A larger group that does not hold is halved again, left half first.
SettleHalve ==
    /\ pc = "settle" /\ stack # << >> /\ Group.lo < Group.hi
    /\ ~TrialHolds
    /\ asked' = asked + 1
    /\ stack' = Halves(Group) \o Tail(stack)
    /\ UNCHANGED <<in, pc, queue, candidates, refused, landed, out>>

\* Both halves are settled: write what landed.
Finish ==
    /\ pc = "settle" /\ stack = << >>
    /\ out' = Written(Pick(landed))
    /\ pc' = "done"
    /\ UNCHANGED <<in, queue, candidates, refused, landed, stack, asked>>

Next ==
    \/ Drop \/ Refuse \/ Keep \/ NoCandidates \/ Batch \/ Split
    \/ SettleEmpty \/ SettleLand \/ SettleRefuse \/ SettleHalve \/ Finish

Spec == Init /\ [][Next]_vars

-----------------------------------------------------------------------------
(* Properties *)

\* The shapes every variable keeps.
TypeOK ==
    /\ in \in Input
    /\ pc \in {"triage", "settle", "done"}
    /\ queue \in Seq(Edit)
    /\ candidates \in Seq(Edit)
    /\ refused \in Seq([edit : Edit, reason : Reasons])
    /\ landed \in Seq(Nat)
    /\ stack \in Seq(Spans)
    /\ asked \in Nat
    /\ out.text \in Seq(Byte)
    /\ out.applied \in Seq(Edit)

\* What a gate writes is a text the parser accepts, or the source untouched:
\* no path through the bisection answers a text holds was not asked about
\* (edit.go:130, 154).
ResultHolds == pc = "done" => out.text \in in.good \cup {in.src}

\* The edits that landed lie inside the scope and the source, in order and
\* without overlap, so Splice never slices backwards (edit.go:108-125, 165).
AppliedDisjoint ==
    /\ \A i \in DOMAIN out.applied :
          LET e == out.applied[i] IN
          /\ Admits(in.scope, e)
          /\ ~OutOfBounds(in.src, e)
          /\ e \notin in.barred
    /\ \A i, j \in DOMAIN out.applied :
          i < j => out.applied[i].end <= out.applied[j].start

\* The bisection visits the batch from left to right and skips nothing: every
\* candidate before the group on top of the stack has landed or was refused
\* for not holding, and no candidate at or after it has landed
\* (edit.go:136-153).
Visited == {k \in DOMAIN candidates : stack = << >> \/ k < Head(stack).lo}
NothingSkipped ==
    pc = "settle" =>
        /\ \A k \in Visited :
              \/ \E i \in DOMAIN landed : landed[i] = k
              \/ \E i \in DOMAIN refused :
                    refused[i] = Refusal(candidates[k], "holds")
        /\ \A i \in DOMAIN landed : landed[i] \in Visited

\* Bytes outside a bounded scope survive, and the returned scope still ends
\* where the untouched tail begins (Result.Scope, edit.go:43-44, 72).
Before == SubSeq(in.src, 1, in.scope.start)
After == SubSeq(in.src, in.scope.end + 1, Len(in.src))
OutsideSurvives ==
    (pc = "done" /\ in.scope.bounded /\ in.scope.start <= in.scope.end) =>
        /\ SubSeq(out.text, 1, in.scope.start) = Before
        /\ SubSeq(out.text, out.scope.end + 1, Len(out.text)) = After

\* "a single bad rewrite does not cost the file every good one" (edit.go:104):
\* when a text holds exactly if it carries no edit of some set Bad, every
\* candidate outside Bad lands.
Subsets == SUBSET DOMAIN candidates
Chosen(S) ==
    LET upTo[n \in 0..Len(candidates)] ==
          IF n = 0 THEN << >>
          ELSE IF n \in S THEN Append(upTo[n-1], n) ELSE upTo[n-1]
    IN  upTo[Len(candidates)]
SpoiltBy(Bad) ==
    \A S \in Subsets :
        (Splice(in.src, Pick(Chosen(S))) \in in.good) <=> S \cap Bad = {}
OneBadEditCostsOnlyItself ==
    pc = "done" => \A Bad \in Subsets :
        SpoiltBy(Bad) => {landed[i] : i \in DOMAIN landed} = DOMAIN candidates \ Bad

\* holds reparses the whole file; the bisection asks it at most twice per
\* candidate (edit.go:129, 141).
FewReparses == asked <= 2 * Len(candidates)

=============================================================================
