---------------------------- MODULE HookDispatch ----------------------------
(***************************************************************************)
(* The hook dispatcher (cmd/guards.go): one event is put to every selected *)
(* guard that serves it, in the order of the table, and what they answer   *)
(* becomes one answer.  On PreToolUse the first refusal is the answer and  *)
(* a rewrite of the tool input reaches every guard after it.               *)
(*                                                                         *)
(* An answer is the set of the parts a guard wrote.  The tool input, the   *)
(* displayed text and each part of the reply are the sets of the guards    *)
(* whose rewrite or words they hold: the joins keep the order of the       *)
(* table, so the set says it all.                                          *)
(***************************************************************************)
EXTENDS Naturals, FiniteSets

CONSTANTS Guard,
          Rank,       (* a guard's place in the table                        *)
          Serves,     (* the events each guard serves                        *)
          Says,       (* what a guard can answer to a call                   *)
          HookCall,   (* the payloads: [event, tool, named]                  *)
          Clock,      (* the guard that runs over the others' display text   *)
          Worker,     (* the guard that moves content before it answers      *)
          NoReply

Refusals == {"deny", "exit", "block"}
Tellings == {"update", "context", "message", "stderr", "decision", "display", "note"}
Parts == Refusals \cup Tellings

ASSUME DispatchAssumption ==
    /\ IsFiniteSet(Guard)
    /\ Rank \in [Guard -> Nat]
    /\ \A g, h \in Guard : Rank[g] = Rank[h] => g = h
    /\ Clock \in Guard
    /\ Says \in [HookCall -> [Guard -> SUBSET SUBSET Parts]]
    /\ NoReply \notin [Parts -> SUBSET Guard]

\* A refusal is all a guard says, and what a guard can say fits the event; one
\* guard at most decides, or rewrites the display, and the Clock says nothing.
ASSUME AnswersAssumption ==
    \A c \in HookCall : Says[c][Clock] = {{}} /\ \A g \in Guard : \A a \in Says[c][g] :
        /\ \A part \in Refusals \cap a : a = {part}
        /\ c.event = "PreToolUse" => "block" \notin a
        /\ c.event # "PreToolUse" => {"deny", "update"} \cap a = {}
        /\ IF c.event = "MessageDisplay" THEN a \subseteq {"display", "note", "stderr"}
           ELSE {"display", "note"} \cap a = {}
        /\ \A part \in {"display", "decision"} \cap a :
             \A h \in Guard \ {g} : \A b \in Says[c][h] : part \notin b

VARIABLES
    call,      \* the payload
    running,   \* the guards --only left on
    asked,     \* the guards that have answered
    answers,   \* what they answered
    saw,       \* the rewrites the tool input held when a guard read it
    payload,   \* the rewrites it holds now
    base,      \* the rewrites the displayed text holds
    reply

dispatchVars == << call, running, asked, answers, saw, payload, base, reply >>

Quiet == [g \in Guard |-> {}]

\* hookSelection and dispatch
Serving == {g \in running : call.event \in Serves[g]}

DispatchInit ==
    /\ call \in HookCall
    /\ running \in SUBSET Guard
    /\ asked = {} /\ answers = Quiet /\ saw = Quiet
    /\ payload = {} /\ base = {}
    /\ reply = NoReply

InTurn(g) ==
    /\ reply = NoReply
    /\ g \in Serving \ asked
    /\ \A h \in Serving : Rank[h] < Rank[g] => h \in asked

\* Mutant: a guard judges the payload the event came with.
Threaded_Not(g, a) == payload

\* The tool input the next guard reads.
Threaded(g, a) == IF "update" \in a THEN payload \cup {g} ELSE payload

Refuses(a) == a \cap Refusals # {}
Alone(g, a) == [part \in Parts |-> IF part \in a THEN {g} ELSE {}]

Hear(g, a) ==
    /\ asked' = asked \cup {g}
    /\ answers' = [answers EXCEPT ![g] = a]
    /\ saw' = [saw EXCEPT ![g] = payload]

AskFirst(g) ==    \* preToolUse
    /\ call.event = "PreToolUse" /\ InTurn(g)
    /\ \E a \in Says[call][g] :
         /\ Hear(g, a)
         /\ payload' = Threaded(g, a)
         /\ reply' = IF Refuses(a) THEN Alone(g, a) ELSE NoReply
    /\ UNCHANGED << call, running, base >>

AskEach(g) ==     \* dispatch
    /\ call.event \notin {"PreToolUse", "MessageDisplay"} /\ InTurn(g)
    /\ \E a \in Says[call][g] : Hear(g, a)
    /\ UNCHANGED << call, running, payload, base, reply >>

AskDisplay(g) ==  \* messageDisplay
    /\ call.event = "MessageDisplay" /\ InTurn(g)
    /\ \E a \in Says[call][g] :
         /\ Hear(g, a)
         /\ base' = IF "display" \in a THEN {g} ELSE base
    /\ UNCHANGED << call, running, payload, reply >>

Spoke == {g \in asked : answers[g] # {}}
Refusers == {g \in Spoke : Refuses(answers[g])}

\* Mutant: a refusal is one more thing that was said.
Joined_Mixed ==
    [part \in Parts |-> {g \in Spoke : part \in answers[g]}]

\* Several refusals become one; without one, what was said is joined.
Joined ==
    IF Refusers = {} THEN [part \in Parts |-> {g \in Spoke : part \in answers[g]}]
    ELSE [part \in Parts |-> IF part = "exit" THEN Refusers ELSE {}]

\* A single answer passes through as it is.
Merged ==
    IF Cardinality(Spoke) <= 1
    THEN [part \in Parts |-> {g \in Spoke : part \in answers[g]}]
    ELSE Joined

Over == reply = NoReply /\ Serving \subseteq asked
Reported(whole) == reply' = whole

\* The last rewrite of the input already holds the ones before it.
WithInput(whole) ==
    IF payload = {} THEN whole ELSE [whole EXCEPT !["update"] = payload]

EndFirst ==
    /\ call.event = "PreToolUse" /\ Over
    /\ Reported(WithInput(Merged))
    /\ UNCHANGED << call, running, asked, answers, saw, payload, base >>

EndEach ==
    /\ call.event \notin {"PreToolUse", "MessageDisplay"} /\ Over
    /\ Reported(Merged)
    /\ UNCHANGED << call, running, asked, answers, saw, payload, base >>

\* Whether the Clock guard finds a time in the text.
Rewrites == IF Clock \in Serving THEN BOOLEAN ELSE {FALSE}

\* The Clock guard rewrites what the others made of the text; the notes follow
\* it as they are.
EndDisplay ==
    /\ call.event = "MessageDisplay" /\ Over
    /\ \E times \in Rewrites :
         /\ base' = IF times THEN base \cup {Clock} ELSE base
         /\ answers' = IF times THEN [answers EXCEPT ![Clock] = {"display"}] ELSE answers
    /\ Reported([part \in Parts |->
               IF part = "display" THEN base'
               ELSE IF part \in {"note", "stderr"} THEN {g \in Spoke : part \in answers[g]}
               ELSE {}])
    /\ UNCHANGED << call, running, asked, saw, payload >>

DispatchNext ==
    \/ \E g \in Guard : AskFirst(g) \/ AskEach(g) \/ AskDisplay(g)
    \/ EndFirst \/ EndEach \/ EndDisplay

DispatchSpec == DispatchInit /\ [][DispatchNext]_dispatchVars

-----------------------------------------------------------------------------
Done == reply # NoReply

DispatchTypeOK ==
    /\ call \in HookCall /\ running \subseteq Guard
    /\ asked \subseteq Serving
    /\ answers \in [Guard -> SUBSET Parts]
    /\ \A g \in Guard \ asked : answers[g] = {}
    /\ saw \in [Guard -> SUBSET Guard]
    /\ payload \subseteq Guard /\ base \subseteq Guard
    /\ Done => reply \in [Parts -> SUBSET Guard]

RefusedBy == UNION {reply[part] : part \in Refusals}

(* A refusal by any guard refuses the event, and the answer carries the      *)
(* reason of every guard that refused, whichever way each of them refuses    *)
(* (merge, guards.go:286-323).                                               *)
RefusalHeard == Done => RefusedBy = {g \in asked : answers[g] \cap Refusals # {}}

(* When nobody refuses, every context, message, note and rewrite that any    *)
(* guard answered is in the reply (merge and messageDisplay).                *)
NothingDropped ==
    Done /\ RefusedBy = {} =>
        \A g \in asked : \A part \in answers[g] : g \in reply[part]

(* The input the tool runs with holds the rewrite of every guard that made   *)
(* one, and each guard after the last of them judged exactly that input      *)
(* (preToolUse, guards.go:180-226).                                          *)
JudgedAsRun ==
    Done /\ call.event = "PreToolUse" /\ RefusedBy = {} =>
        LET rewriters == {g \in asked : "update" \in answers[g]}
        IN  /\ reply["update"] = rewriters
            /\ \A g \in asked :
                 (\A h \in rewriters : Rank[h] < Rank[g]) => saw[g] = rewriters

(* No guard is asked after a refusal of a tool call, and no guard is passed  *)
(* over before one (the first refusal is the answer).                        *)
FirstRefusalEnds ==
    call.event = "PreToolUse" =>
        \A g \in asked : answers[g] \cap Refusals # {} =>
            asked = {h \in Serving : Rank[h] <= Rank[g]}

(* What the dispatcher answers is what HookPromise promises of its guards.   *)
Promise == INSTANCE HookPromise WITH
    Nobody <- NoReply,
    said   <- IF Done THEN [g \in asked |-> answers[g]] ELSE << >>,
    answer <- IF Done THEN [refused |-> RefusedBy,
                            told |-> [part \in Tellings |-> reply[part]]]
              ELSE NoReply
KeepsPromise == Promise!Spec

=============================================================================
