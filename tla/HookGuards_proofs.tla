-------------------------- MODULE HookGuards_proofs --------------------------
(***************************************************************************)
(* The dispatcher and a guard it asks.  For every table of guards and      *)
(* whatever they answer, the reply is what HookPromise promises.  Whatever *)
(* the subjects, the tools, the gap and the tail's length, the busy-poll   *)
(* guard refuses a status read exactly when the tail shows that it can     *)
(* learn nothing.                                                          *)
(***************************************************************************)
EXTENDS HookDispatch, BusyPoll, FiniteSetTheorems, SequenceTheorems,
        WellFoundedInduction, TLAPS

-----------------------------------------------------------------------------
(* The dispatcher (HookDispatch).                                           *)

First == call.event = "PreToolUse"
Display == call.event = "MessageDisplay"
Declined(g) == answers[g] \cap Refusals # {}
Sayers(part) == {g \in asked : part \in answers[g]}

\* Guards are asked in the order of the table, and none after a refusal.
InOrder == \A g \in asked, h \in Serving : Rank[h] < Rank[g] => h \in asked
StopsThere == First => \A g \in asked : Declined(g) =>
                 Done /\ \A h \in asked : Rank[h] <= Rank[g]

\* An answer is one the guard can give, or the clock's rewrite.
Known == \A g \in asked :
    \/ answers[g] \in Says[call][g]
    \/ Done /\ Display /\ g = Clock /\ answers[g] = {"display"}

\* The input and the text hold the rewrites of the guards asked so far.
InputTrue == payload = IF First THEN Sayers("update") ELSE {}
SawTrue == First => \A g \in asked :
    saw[g] = {h \in Sayers("update") : Rank[h] < Rank[g]}
TextTrue == base = IF Display THEN Sayers("display") ELSE {}

\* The reply is what the guards said, or that they refused.
Truthful(r) ==
    LET refused == UNION {r[part] : part \in Refusals}
    IN  /\ r \in [Parts -> SUBSET Guard]
        /\ refused = {g \in asked : Declined(g)}
        /\ \A part \in Tellings : r[part] = IF refused = {} THEN Sayers(part) ELSE {}
ReplyTrue == Done => Truthful(reply)

DispatchInv == DispatchTypeOK /\ InOrder /\ StopsThere /\ Known /\ InputTrue /\ SawTrue /\ TextTrue /\ ReplyTrue

-----------------------------------------------------------------------------
(* What an answer may hold.                                                 *)

LEMMA AnswerFits ==
    ASSUME NEW c \in HookCall, NEW g \in Guard, NEW a \in Says[c][g]
    PROVE  /\ a \subseteq Parts
           /\ \A part \in Refusals \cap a : a = {part}
           /\ c.event = "PreToolUse" => "block" \notin a
           /\ c.event # "PreToolUse" => "deny" \notin a /\ "update" \notin a
           /\ IF c.event = "MessageDisplay" THEN a \subseteq {"display", "note", "stderr"}
              ELSE "display" \notin a /\ "note" \notin a
<1>1. a \subseteq Parts
  BY DispatchAssumption
<1> QED
  BY <1>1, AnswersAssumption

LEMMA OneDisplay ==
    ASSUME NEW c \in HookCall, NEW g \in Guard, NEW a \in Says[c][g], "display" \in a,
           NEW h \in Guard, NEW b \in Says[c][h], "display" \in b
    PROVE  g = h /\ g # Clock
<1>1. g = h
  BY AnswersAssumption
<1>2. g # Clock
  BY AnswersAssumption
<1> QED
  BY <1>1, <1>2

LEMMA Apart == Refusals \cap Tellings = {} /\ Parts = Refusals \cup Tellings
BY DEF Refusals, Tellings, Parts

\* What a refusal leaves out of an answer.
LEMMA RefusalAlone ==
    ASSUME NEW c \in HookCall, NEW g \in Guard, NEW a \in Says[c][g], a \cap Refusals # {}
    PROVE  \A part \in Tellings : part \notin a
BY AnswerFits, Apart

-----------------------------------------------------------------------------
LEMMA InitOK == DispatchInit => DispatchInv
<1> SUFFICES ASSUME DispatchInit PROVE DispatchInv
  OBVIOUS
<1>1. ~Done
  BY DEF DispatchInit, Done
<1>2. DispatchTypeOK
  BY <1>1 DEF DispatchInit, DispatchTypeOK, Quiet, Parts
<1>3. InOrder /\ StopsThere /\ Known /\ SawTrue /\ ReplyTrue
  BY <1>1 DEF DispatchInit, InOrder, StopsThere, Known, SawTrue, ReplyTrue
<1>4. InputTrue /\ TextTrue
  BY DEF DispatchInit, InputTrue, TextTrue, Sayers
<1> QED
  BY <1>2, <1>3, <1>4 DEF DispatchInv

-----------------------------------------------------------------------------
(* A guard answers.                                                         *)

LEMMA Heard ==
    ASSUME DispatchInv, NEW g \in Guard, InTurn(g), NEW a \in Says[call][g], Hear(g, a),
           UNCHANGED << call, running >>
    PROVE  /\ ~Done /\ g \in Serving \ asked /\ Serving' = Serving
           /\ asked' = asked \cup {g} /\ asked \subseteq Guard
           /\ answers'[g] = a /\ \A h \in asked : answers'[h] = answers[h]
           /\ saw'[g] = payload /\ \A h \in asked : saw'[h] = saw[h]
           /\ \A h \in asked : Rank[h] < Rank[g]
           /\ answers' \in [Guard -> SUBSET Parts] /\ saw' \in [Guard -> SUBSET Guard]
           /\ \A h \in Guard \ asked' : answers'[h] = {}
<1>1. /\ ~Done /\ g \in Serving \ asked /\ asked' = asked \cup {g}
      /\ answers' = [answers EXCEPT ![g] = a] /\ saw' = [saw EXCEPT ![g] = payload]
  BY DEF InTurn, Hear, Done
<1>2. Serving' = Serving /\ Serving \subseteq Guard
  BY DEF Serving, DispatchInv, DispatchTypeOK
<1>3. asked \subseteq Guard /\ call \in HookCall /\ payload \subseteq Guard
  BY <1>2 DEF DispatchInv, DispatchTypeOK
<1>4. a \subseteq Parts
  BY <1>3, AnswerFits
<1>5. \A h \in asked : Rank[h] < Rank[g]
  <2> SUFFICES ASSUME NEW h \in asked PROVE Rank[h] < Rank[g]
    OBVIOUS
  <2>1. Rank[h] \in Nat /\ Rank[g] \in Nat /\ Rank[h] # Rank[g]
    BY <1>1, <1>3, DispatchAssumption
  <2>2. ~(Rank[g] < Rank[h])
    BY <1>1 DEF DispatchInv, InOrder
  <2> QED
    BY <2>1, <2>2
<1> QED
  BY <1>1, <1>2, <1>3, <1>4, <1>5 DEF DispatchInv, DispatchTypeOK

LEMMA HeardKept ==
    ASSUME DispatchInv, NEW g \in Guard, InTurn(g), NEW a \in Says[call][g], Hear(g, a),
           UNCHANGED << call, running >>
    PROVE  /\ InOrder' /\ Known'
           /\ \A part : Sayers(part)' = IF part \in a THEN Sayers(part) \cup {g} ELSE Sayers(part)
           /\ asked' \subseteq Serving'
<1>1. /\ ~Done /\ g \in Serving \ asked /\ Serving' = Serving /\ asked' = asked \cup {g}
      /\ answers'[g] = a /\ \A h \in asked : answers'[h] = answers[h]
      /\ \A h \in asked : Rank[h] < Rank[g]
  BY Heard
<1>2. InOrder'
  <2> SUFFICES ASSUME NEW i \in asked', NEW h \in Serving, Rank[h] < Rank[i] PROVE h \in asked'
    BY <1>1 DEF InOrder
  <2>1. CASE i \in asked
    BY <1>1, <2>1 DEF DispatchInv, InOrder
  <2>2. CASE i = g
    BY <1>1, <2>2 DEF InTurn
  <2> QED
    BY <1>1, <2>1, <2>2
<1>3. Known'
  BY <1>1 DEF DispatchInv, Known
<1>4. ASSUME NEW part
      PROVE  Sayers(part)' = IF part \in a THEN Sayers(part) \cup {g} ELSE Sayers(part)
  BY <1>1 DEF Sayers
<1>5. asked' \subseteq Serving'
  BY <1>1 DEF DispatchInv, DispatchTypeOK
<1> QED
  BY <1>2, <1>3, <1>4, <1>5

LEMMA AskFirstKeeps ==
    ASSUME DispatchInv, NEW g \in Guard, AskFirst(g)
    PROVE  DispatchInv'
<1>1. First /\ InTurn(g) /\ UNCHANGED << call, running, base >>
  BY DEF AskFirst, First
<1>2. PICK a \in Says[call][g] :
        /\ Hear(g, a)
        /\ payload' = Threaded(g, a)
        /\ reply' = IF Refuses(a) THEN Alone(g, a) ELSE NoReply
  BY DEF AskFirst
<1>3. /\ ~Done /\ g \in Serving \ asked /\ Serving' = Serving
      /\ asked' = asked \cup {g} /\ asked \subseteq Guard
      /\ answers'[g] = a /\ \A h \in asked : answers'[h] = answers[h]
      /\ saw'[g] = payload /\ \A h \in asked : saw'[h] = saw[h]
      /\ \A h \in asked : Rank[h] < Rank[g]
      /\ answers' \in [Guard -> SUBSET Parts] /\ saw' \in [Guard -> SUBSET Guard]
      /\ \A h \in Guard \ asked' : answers'[h] = {}
  BY <1>1, <1>2, Heard
<1>4. /\ InOrder' /\ Known'
      /\ \A part : Sayers(part)' = IF part \in a THEN Sayers(part) \cup {g} ELSE Sayers(part)
      /\ asked' \subseteq Serving'
  BY <1>1, <1>2, HeardKept
<1>5. call \in HookCall /\ a \subseteq Parts /\ First' /\ ~Display /\ ~Display'
  BY <1>1, AnswerFits DEF DispatchInv, DispatchTypeOK, First, Display
<1>6. NoReply \notin [Parts -> SUBSET Guard] /\ (Refuses(a) => reply' \in [Parts -> SUBSET Guard])
  BY <1>2, DispatchAssumption DEF Alone
<1>7. Done' <=> Refuses(a)
  BY <1>2, <1>6 DEF Done
<1>8. \A h \in asked : ~Declined(h)
  BY <1>1, <1>3 DEF DispatchInv, StopsThere
<1>9. DispatchTypeOK'
  <2>1. payload' \subseteq Guard
    BY <1>2 DEF DispatchInv, DispatchTypeOK, Threaded
  <2> QED
    BY <1>1, <1>3, <1>4, <1>6, <1>7, <2>1 DEF DispatchInv, DispatchTypeOK
<1>10. StopsThere'
  <2> SUFFICES ASSUME NEW h \in asked', Declined(h)' PROVE Done' /\ \A i \in asked' : Rank[i] <= Rank[h]
    BY DEF StopsThere
  <2>1. h = g /\ Refuses(a)
    BY <1>3, <1>8 DEF Declined, Refuses
  <2>2. \A i \in asked' : Rank[i] \in Nat
    BY <1>3, DispatchAssumption
  <2> QED
    BY <1>3, <1>7, <2>1, <2>2
<1>11. InputTrue'
  BY <1>1, <1>2, <1>4, <1>5 DEF DispatchInv, InputTrue, Threaded
<1>12. SawTrue'
  <2> SUFFICES ASSUME NEW h \in asked'
               PROVE  saw'[h] = {i \in Sayers("update")' : Rank[i] < Rank[h]}
    BY DEF SawTrue
  <2>1. Sayers("update") \subseteq asked /\ Rank[g] \in Nat
    BY DispatchAssumption DEF Sayers
  <2>2. CASE h = g
    <3>1. saw'[h] = Sayers("update")
      BY <1>1, <1>3, <2>2 DEF DispatchInv, InputTrue
    <3>2. ~(Rank[g] < Rank[g]) /\ \A i \in Sayers("update") : Rank[i] < Rank[g]
      BY <1>3, <2>1
    <3> QED
      BY <1>4, <2>2, <3>1, <3>2
  <2>3. CASE h \in asked
    <3>1. saw'[h] = {i \in Sayers("update") : Rank[i] < Rank[h]}
      BY <1>1, <1>3, <2>3 DEF DispatchInv, SawTrue
    <3>2. ~(Rank[g] < Rank[h])
      BY <1>3, <2>1, <2>3, DispatchAssumption
    <3> QED
      BY <1>4, <3>1, <3>2
  <2> QED
    BY <1>3, <2>2, <2>3
<1>13. TextTrue'
  BY <1>1, <1>5 DEF DispatchInv, TextTrue
<1>14. ReplyTrue'
  <2> SUFFICES ASSUME Refuses(a) PROVE Truthful(reply)'
    BY <1>7 DEF ReplyTrue
  <2>1. reply' = Alone(g, a)
    BY <1>2
  <2>2. \A part \in Parts : reply'[part] = IF part \in a THEN {g} ELSE {}
    BY <2>1 DEF Alone
  <2>3. PICK part \in Refusals : part \in a
    BY DEF Refuses
  <2>4. UNION {reply'[p] : p \in Refusals} = {g}
    BY <2>2, <2>3, Apart
  <2>5. {h \in asked' : Declined(h)'} = {g}
    BY <1>3, <1>8, <2>3 DEF Declined
  <2>6. \A p \in Tellings : reply'[p] = {}
    BY <1>5, <2>2, <2>3, RefusalAlone, Apart
  <2> QED
    BY <1>6, <2>4, <2>5, <2>6 DEF Truthful
<1> QED
  BY <1>4, <1>9, <1>10, <1>11, <1>12, <1>13, <1>14 DEF DispatchInv

LEMMA AskEachKeeps ==
    ASSUME DispatchInv, NEW g \in Guard, AskEach(g)
    PROVE  DispatchInv'
<1>1. /\ ~First /\ ~Display /\ InTurn(g)
      /\ UNCHANGED << call, running, payload, base, reply >>
  BY DEF AskEach, First, Display
<1>2. PICK a \in Says[call][g] : Hear(g, a)
  BY DEF AskEach
<1>3. /\ ~Done /\ asked \subseteq Guard
      /\ answers' \in [Guard -> SUBSET Parts] /\ saw' \in [Guard -> SUBSET Guard]
      /\ \A h \in Guard \ asked' : answers'[h] = {}
  BY <1>1, <1>2, Heard
<1>4. InOrder' /\ Known' /\ asked' \subseteq Serving'
  BY <1>1, <1>2, HeardKept
<1>5. ~Done' /\ ~First' /\ ~Display'
  BY <1>1, <1>3 DEF Done, First, Display
<1>6. DispatchTypeOK'
  BY <1>1, <1>3, <1>4, <1>5 DEF DispatchInv, DispatchTypeOK
<1>7. StopsThere' /\ SawTrue' /\ ReplyTrue'
  BY <1>5 DEF StopsThere, SawTrue, ReplyTrue
<1>8. InputTrue' /\ TextTrue'
  BY <1>1, <1>5 DEF DispatchInv, InputTrue, TextTrue
<1> QED
  BY <1>4, <1>6, <1>7, <1>8 DEF DispatchInv

LEMMA AskDisplayKeeps ==
    ASSUME DispatchInv, NEW g \in Guard, AskDisplay(g)
    PROVE  DispatchInv'
<1>1. /\ ~First /\ Display /\ InTurn(g)
      /\ UNCHANGED << call, running, payload, reply >>
  BY DEF AskDisplay, First, Display
<1>2. PICK a \in Says[call][g] : Hear(g, a) /\ base' = IF "display" \in a THEN {g} ELSE base
  BY DEF AskDisplay
<1>3. /\ ~Done /\ asked \subseteq Guard /\ g \notin asked
      /\ answers' \in [Guard -> SUBSET Parts] /\ saw' \in [Guard -> SUBSET Guard]
      /\ \A h \in Guard \ asked' : answers'[h] = {}
  BY <1>1, <1>2, Heard
<1>4. /\ InOrder' /\ Known' /\ asked' \subseteq Serving'
      /\ \A part : Sayers(part)' = IF part \in a THEN Sayers(part) \cup {g} ELSE Sayers(part)
  BY <1>1, <1>2, HeardKept
<1>5. ~Done' /\ ~First' /\ Display'
  BY <1>1, <1>3 DEF Done, First, Display
<1>6. DispatchTypeOK'
  BY <1>1, <1>2, <1>3, <1>4, <1>5 DEF DispatchInv, DispatchTypeOK
<1>7. StopsThere' /\ SawTrue' /\ ReplyTrue'
  BY <1>5 DEF StopsThere, SawTrue, ReplyTrue
<1>8. TextTrue'
  <2>1. CASE "display" \in a
    <3>1. \A h \in asked : answers[h] \in Says[call][h]
      BY <1>3 DEF DispatchInv, Known
    <3>2. Sayers("display") = {}
      BY <1>3, <2>1, <3>1, OneDisplay DEF Sayers, DispatchInv, DispatchTypeOK
    <3> QED
      BY <1>2, <1>4, <1>5, <2>1, <3>2 DEF TextTrue
  <2>2. CASE "display" \notin a
    BY <1>1, <1>2, <1>4, <1>5, <2>2 DEF DispatchInv, TextTrue
  <2> QED
    BY <2>1, <2>2
<1>9. InputTrue'
  BY <1>1, <1>5 DEF DispatchInv, InputTrue
<1> QED
  BY <1>4, <1>6, <1>7, <1>8, <1>9 DEF DispatchInv

-----------------------------------------------------------------------------
(* The reply.                                                               *)

LEMMA OneSpeaker ==
    ASSUME asked \subseteq Guard, Cardinality(Spoke) <= 1, NEW g \in Spoke, NEW h \in Spoke
    PROVE  g = h
<1>1. IsFiniteSet(Spoke) /\ IsFiniteSet({g, h})
  <2>1. Spoke \subseteq Guard
    BY DEF Spoke
  <2> QED
    BY <2>1, DispatchAssumption, FS_Subset, FS_Singleton, FS_EmptySet
<1>2. {g, h} \subseteq Spoke /\ Cardinality({g, h}) <= Cardinality(Spoke)
  BY <1>1, FS_Subset
<1>3. Cardinality(Spoke) \in Nat /\ Cardinality({g, h}) \in Nat
  BY <1>1, FS_CardinalityType
<1>4. ASSUME g # h PROVE Cardinality({g, h}) = 2
  <2>1. Cardinality({h} \cup {g}) = Cardinality({h}) + 1
    BY <1>4, FS_Singleton, FS_AddElement
  <2>2. Cardinality({h}) = 1 /\ {h} \cup {g} = {g, h}
    BY FS_Singleton
  <2> QED
    BY <2>1, <2>2
<1> QED
  BY <1>2, <1>3, <1>4

LEMMA MergedTrue ==
    ASSUME DispatchInv, ~Done, ~Display, First => \A g \in asked : ~Declined(g)
    PROVE  Truthful(Merged)
<1>1. call \in HookCall /\ asked \subseteq Guard /\ Spoke \subseteq asked
  BY DEF DispatchInv, DispatchTypeOK, Spoke, Serving
<1>2. \A g \in asked : answers[g] \in Says[call][g]
  BY DEF DispatchInv, Known
<1>3. \A g \in asked : Declined(g) => \A part \in Tellings : part \notin answers[g]
  BY <1>1, <1>2, RefusalAlone DEF Declined
<1>4. Refusers = {g \in asked : Declined(g)}
  BY DEF Refusers, Spoke, Refuses, Declined
<1>5. \A part : {g \in Spoke : part \in answers[g]} = Sayers(part)
  BY DEF Spoke, Sayers
<1>6. Sayers("stderr") \subseteq Guard /\ \A part : Sayers(part) \subseteq Guard
  BY <1>1 DEF Sayers
<1>7. UNION {Sayers(part) : part \in Refusals} = {g \in asked : Declined(g)}
  BY DEF Sayers, Declined
<1>8. CASE Cardinality(Spoke) <= 1 \/ Refusers = {}
  <2>1. Merged = [part \in Parts |-> Sayers(part)]
    BY <1>5, <1>8 DEF Merged, Joined
  <2>2. ASSUME {g \in asked : Declined(g)} # {}, NEW part \in Tellings PROVE Sayers(part) = {}
    <3>1. PICK g \in asked : Declined(g)
      BY <2>2
    <3>2. g \in Spoke /\ Cardinality(Spoke) <= 1
      BY <1>4, <1>8, <3>1 DEF Spoke, Declined
    <3>3. Spoke = {g}
      BY <1>1, <3>2, OneSpeaker
    <3> QED
      BY <1>3, <1>5, <3>1, <3>3
  <2>3. /\ \A part \in Refusals : Merged[part] = Sayers(part)
        /\ \A part \in Tellings : Merged[part] = Sayers(part)
    BY <2>1, Apart
  <2>4. UNION {Merged[part] : part \in Refusals} = {g \in asked : Declined(g)}
    BY <1>7, <2>3
  <2>5. Merged \in [Parts -> SUBSET Guard]
    BY <1>6, <2>1
  <2> QED
    BY <2>2, <2>3, <2>4, <2>5 DEF Truthful
<1>9. CASE ~(Cardinality(Spoke) <= 1) /\ Refusers # {}
  <2>1. Merged = [part \in Parts |-> IF part = "exit" THEN Refusers ELSE {}]
    BY <1>9 DEF Merged, Joined
  <2>2. UNION {Merged[part] : part \in Refusals} = Refusers
    BY <2>1 DEF Refusals, Parts
  <2>3. \A part \in Tellings : Merged[part] = {}
    BY <2>1 DEF Tellings, Parts
  <2>4. Merged \in [Parts -> SUBSET Guard]
    BY <1>1, <1>4, <2>1
  <2> QED
    BY <1>4, <1>9, <2>2, <2>3, <2>4 DEF Truthful
<1> QED
  BY <1>8, <1>9

LEMMA EndFirstKeeps ==
    ASSUME DispatchInv, EndFirst
    PROVE  DispatchInv'
<1>1. /\ First /\ ~Done /\ Serving \subseteq asked /\ reply' = WithInput(Merged)
      /\ UNCHANGED << call, running, asked, answers, saw, payload, base >>
  BY DEF EndFirst, Over, Reported, First, Done
<1>2. \A g \in asked : ~Declined(g)
  BY <1>1 DEF DispatchInv, StopsThere
<1>3. ~Display
  BY <1>1 DEF First, Display
<1>4. Truthful(Merged)
  BY <1>1, <1>2, <1>3, MergedTrue
<1>5. /\ Merged \in [Parts -> SUBSET Guard] /\ \A part \in Refusals : Merged[part] = {}
      /\ \A part \in Tellings : Merged[part] = Sayers(part)
  BY <1>2, <1>4 DEF Truthful
<1>6. payload = Sayers("update") /\ payload \subseteq Guard
  BY <1>1 DEF DispatchInv, InputTrue, DispatchTypeOK
<1>7. "update" \in Tellings /\ "update" \notin Refusals /\ "update" \in Parts
  BY DEF Tellings, Refusals, Parts
<1>8. /\ reply' \in [Parts -> SUBSET Guard] /\ \A part \in Refusals : reply'[part] = {}
      /\ \A part \in Tellings : reply'[part] = Sayers(part)
  BY <1>1, <1>5, <1>6, <1>7, Apart DEF WithInput
<1>9. Done'
  BY <1>8, DispatchAssumption DEF Done
<1>10. Serving' = Serving /\ First' /\ ~Display'
  BY <1>1, <1>3 DEF Serving, First, Display
<1>11. DispatchTypeOK'
  BY <1>1, <1>8, <1>10 DEF DispatchInv, DispatchTypeOK
<1>12. InOrder' /\ StopsThere' /\ Known'
  BY <1>1, <1>2, <1>9, <1>10, <1>3 DEF DispatchInv, InOrder, StopsThere, Known, Declined
<1>13. \A part : Sayers(part)' = Sayers(part)
  BY <1>1 DEF Sayers
<1>14. InputTrue' /\ SawTrue' /\ TextTrue'
  BY <1>1, <1>3, <1>10, <1>13 DEF DispatchInv, InputTrue, SawTrue, TextTrue
<1>15. ReplyTrue'
  BY <1>1, <1>2, <1>8, <1>13 DEF ReplyTrue, Truthful, Declined
<1> QED
  BY <1>11, <1>12, <1>14, <1>15 DEF DispatchInv

LEMMA EndEachKeeps ==
    ASSUME DispatchInv, EndEach
    PROVE  DispatchInv'
<1>1. /\ ~First /\ ~Display /\ ~Done /\ Serving \subseteq asked /\ reply' = Merged
      /\ UNCHANGED << call, running, asked, answers, saw, payload, base >>
  BY DEF EndEach, Over, Reported, First, Done, Display
<1>2. Truthful(Merged)
  BY <1>1, MergedTrue
<1>3. Done' /\ reply' \in [Parts -> SUBSET Guard]
  BY <1>1, <1>2, DispatchAssumption DEF Done, Truthful
<1>4. Serving' = Serving /\ ~First' /\ ~Display'
  BY <1>1 DEF Serving, First, Display
<1>5. \A part : Sayers(part)' = Sayers(part)
  BY <1>1 DEF Sayers
<1>6. DispatchTypeOK'
  BY <1>1, <1>3, <1>4 DEF DispatchInv, DispatchTypeOK
<1>7. InOrder' /\ StopsThere' /\ Known'
  BY <1>1, <1>4 DEF DispatchInv, InOrder, StopsThere, Known
<1>8. InputTrue' /\ SawTrue' /\ TextTrue'
  BY <1>1, <1>4 DEF DispatchInv, InputTrue, SawTrue, TextTrue
<1>9. ReplyTrue'
  BY <1>1, <1>2, <1>5 DEF ReplyTrue, Truthful, Declined
<1> QED
  BY <1>6, <1>7, <1>8, <1>9 DEF DispatchInv

LEMMA EndDisplayKeeps ==
    ASSUME DispatchInv, EndDisplay
    PROVE  DispatchInv'
<1>1. /\ ~First /\ Display /\ ~Done /\ Serving \subseteq asked
      /\ UNCHANGED << call, running, asked, saw, payload >>
  BY DEF EndDisplay, Over, First, Done, Display
<1>2. PICK times \in Rewrites :
        /\ base' = IF times THEN base \cup {Clock} ELSE base
        /\ answers' = IF times THEN [answers EXCEPT ![Clock] = {"display"}] ELSE answers
  BY DEF EndDisplay
<1>3. reply' = [part \in Parts |->
               IF part = "display" THEN base'
               ELSE IF part \in {"note", "stderr"} THEN {g \in Spoke : part \in answers[g]}
               ELSE {}]
  BY DEF EndDisplay, Reported
<1>4. call \in HookCall /\ asked \subseteq Guard /\ Clock \in Guard /\ base \subseteq Guard
      /\ answers \in [Guard -> SUBSET Parts]
  BY DispatchAssumption DEF DispatchInv, DispatchTypeOK, Serving
<1>5. times => Clock \in asked
  BY <1>1, <1>2 DEF Rewrites
<1>6. \A g \in asked : answers[g] \in Says[call][g] /\ answers[g] \subseteq {"display", "note", "stderr"}
  <2>1. \A g \in asked : answers[g] \in Says[call][g]
    BY <1>1 DEF DispatchInv, Known
  <2> QED
    BY <1>1, <1>4, <2>1, AnswerFits DEF Display
<1>7. Clock \in asked => answers[Clock] = {}
  <2>1. Says[call][Clock] = {{}}
    BY <1>4, AnswersAssumption
  <2> QED
    BY <1>6, <2>1
<1>8. /\ \A g \in asked : answers'[g] = IF times /\ g = Clock THEN {"display"} ELSE answers[g]
      /\ answers' \in [Guard -> SUBSET Parts]
      /\ \A g \in Guard \ asked : answers'[g] = {}
  BY <1>2, <1>4, <1>5 DEF DispatchInv, DispatchTypeOK, Parts, Tellings
<1>9. /\ Sayers("display")' = base'
      /\ \A part \in Parts \ {"display"} : Sayers(part)' = Sayers(part)
  <2>1. base = Sayers("display")
    BY <1>1 DEF DispatchInv, TextTrue
  <2>2. Sayers("display")' = IF times THEN Sayers("display") \cup {Clock} ELSE Sayers("display")
    BY <1>1, <1>5, <1>8 DEF Sayers
  <2>3. ASSUME NEW part \in Parts \ {"display"} PROVE Sayers(part)' = Sayers(part)
    BY <1>1, <1>5, <1>7, <1>8 DEF Sayers
  <2> QED
    BY <1>2, <2>1, <2>2, <2>3
<1>10. \A g \in asked : ~Declined(g) /\ ~Declined(g)'
  BY <1>6, <1>8 DEF Declined, Refusals
<1>11. \A part \in Tellings : reply'[part] = Sayers(part)'
  <2> SUFFICES ASSUME NEW part \in Tellings PROVE reply'[part] = Sayers(part)'
    OBVIOUS
  <2>1. part \in Parts
    BY Apart
  <2>2. CASE part = "display"
    BY <1>3, <1>9, <2>1, <2>2
  <2>3. CASE part \in {"note", "stderr"}
    <3>1. reply'[part] = {g \in Spoke : part \in answers[g]}
      BY <1>3, <2>1, <2>3
    <3>2. {g \in Spoke : part \in answers[g]} = Sayers(part)
      BY DEF Spoke, Sayers
    <3> QED
      BY <1>9, <2>1, <2>3, <3>1, <3>2
  <2>4. CASE part \notin {"display", "note", "stderr"}
    <3>1. reply'[part] = {}
      BY <1>3, <2>1, <2>4
    <3>2. Sayers(part) = {}
      BY <1>6, <2>4 DEF Sayers
    <3> QED
      BY <1>9, <2>1, <2>4, <3>1, <3>2
  <2> QED
    BY <2>2, <2>3, <2>4
<1>12. \A part \in Refusals : reply'[part] = {}
  BY <1>3 DEF Refusals, Parts
<1>13. base' \subseteq Guard /\ reply' \in [Parts -> SUBSET Guard]
  <2>1. base' \subseteq Guard
    BY <1>2, <1>4
  <2>2. \A part \in Parts : {g \in Spoke : part \in answers[g]} \subseteq Guard
    BY <1>4 DEF Spoke
  <2> QED
    BY <1>3, <2>1, <2>2
<1>14. Done' /\ Serving' = Serving /\ ~First' /\ Display'
  BY <1>1, <1>13, DispatchAssumption DEF Done, Serving, First, Display
<1>15. DispatchTypeOK'
  BY <1>1, <1>8, <1>13, <1>14 DEF DispatchInv, DispatchTypeOK
<1>16. InOrder' /\ StopsThere' /\ SawTrue' /\ InputTrue'
  BY <1>1, <1>14 DEF DispatchInv, InOrder, StopsThere, SawTrue, InputTrue
<1>17. Known' /\ TextTrue'
  BY <1>1, <1>6, <1>8, <1>9, <1>14 DEF Known, TextTrue
<1>18. ReplyTrue'
  <2>1. UNION {reply'[part] : part \in Refusals} = {}
    BY <1>12
  <2>2. {g \in asked' : Declined(g)'} = {}
    BY <1>1, <1>10
  <2> QED
    BY <1>11, <1>13, <2>1, <2>2 DEF ReplyTrue, Truthful
<1> QED
  BY <1>15, <1>16, <1>17, <1>18 DEF DispatchInv

LEMMA StepKeeps == DispatchInv /\ [DispatchNext]_dispatchVars => DispatchInv'
<1> SUFFICES ASSUME DispatchInv, [DispatchNext]_dispatchVars PROVE DispatchInv'
  OBVIOUS
<1>1. CASE DispatchNext
  BY <1>1, AskFirstKeeps, AskEachKeeps, AskDisplayKeeps, EndFirstKeeps, EndEachKeeps, EndDisplayKeeps DEF DispatchNext
<1>2. CASE UNCHANGED dispatchVars
  <2>1. /\ UNCHANGED << call, running, asked, answers, saw, payload, base, reply >>
        /\ Serving' = Serving /\ Done' = Done /\ First' = First /\ Display' = Display
    BY <1>2 DEF dispatchVars, Serving, Done, First, Display
  <2>2. (\A part : Sayers(part)' = Sayers(part)) /\ (\A g : Declined(g)' = Declined(g))
    BY <2>1 DEF Sayers, Declined
  <2>3. DispatchTypeOK' /\ InOrder' /\ StopsThere' /\ Known'
    BY <2>1, <2>2 DEF DispatchInv, DispatchTypeOK, InOrder, StopsThere, Known
  <2>4. InputTrue' /\ SawTrue' /\ TextTrue'
    BY <2>1, <2>2 DEF DispatchInv, InputTrue, SawTrue, TextTrue
  <2>5. ReplyTrue'
    BY <2>1, <2>2 DEF DispatchInv, ReplyTrue, Truthful
  <2> QED
    BY <2>3, <2>4, <2>5 DEF DispatchInv
<1> QED
  BY <1>1, <1>2

-----------------------------------------------------------------------------
(* The invariant of the dispatcher holds whatever the guards answer.         *)
THEOREM DispatchInvariant == DispatchSpec => []DispatchInv
BY InitOK, StepKeeps, PTL DEF DispatchSpec

(* The dispatcher keeps its types, and asks no guard that does not serve.    *)
THEOREM DispatchTypes == DispatchSpec => []DispatchTypeOK
<1>1. DispatchInv => DispatchTypeOK
  BY DEF DispatchInv
<1> QED
  BY <1>1, DispatchInvariant, PTL

(* Every reason of every guard that refused is in the reply.                 *)
THEOREM RefusalsHeard == DispatchSpec => []RefusalHeard
<1>1. DispatchInv => RefusalHeard
  BY DEF DispatchInv, ReplyTrue, Truthful, RefusalHeard, RefusedBy, Declined
<1> QED
  BY <1>1, DispatchInvariant, PTL

(* Without a refusal all that was said is in the reply.                      *)
THEOREM AllSaid == DispatchSpec => []NothingDropped
<1>1. DispatchInv => NothingDropped
  <2> SUFFICES ASSUME DispatchInv, Done, RefusedBy = {}, NEW g \in asked, NEW part \in answers[g]
               PROVE  g \in reply[part]
    BY DEF NothingDropped
  <2>1. Truthful(reply)
    BY DEF DispatchInv, ReplyTrue
  <2>2. part \in Parts
    BY DEF DispatchInv, DispatchTypeOK, Serving
  <2>3. part \notin Refusals
    BY <2>1 DEF Truthful, RefusedBy, Declined
  <2>4. reply[part] = Sayers(part)
    BY <2>1, <2>2, <2>3, Apart DEF Truthful, RefusedBy
  <2> QED
    BY <2>4 DEF Sayers
<1> QED
  BY <1>1, DispatchInvariant, PTL

(* Guards after the last rewrite judged the input the tool runs with.        *)
THEOREM InputJudged == DispatchSpec => []JudgedAsRun
<1>1. DispatchInv => JudgedAsRun
  <2> SUFFICES ASSUME DispatchInv, Done, First, RefusedBy = {}
               PROVE  /\ reply["update"] = Sayers("update")
                      /\ \A g \in asked :
                           (\A h \in Sayers("update") : Rank[h] < Rank[g]) => saw[g] = Sayers("update")
    BY DEF JudgedAsRun, Sayers, First
  <2>1. reply["update"] = Sayers("update")
    BY DEF DispatchInv, ReplyTrue, Truthful, RefusedBy, Tellings
  <2>2. \A g \in asked : saw[g] = {h \in Sayers("update") : Rank[h] < Rank[g]}
    BY DEF DispatchInv, SawTrue
  <2> QED
    BY <2>1, <2>2
<1> QED
  BY <1>1, DispatchInvariant, PTL

(* A refused tool call is put to no guard after the first refusal.           *)
THEOREM RefusalEnds == DispatchSpec => []FirstRefusalEnds
<1>1. DispatchInv => FirstRefusalEnds
  <2> SUFFICES ASSUME DispatchInv, First, NEW g \in asked, Declined(g)
               PROVE  asked = {h \in Serving : Rank[h] <= Rank[g]}
    BY DEF FirstRefusalEnds, First, Declined
  <2>1. asked \subseteq Serving /\ Serving \subseteq Guard
    BY DEF DispatchInv, DispatchTypeOK, Serving
  <2>2. \A h \in asked : Rank[h] <= Rank[g]
    BY DEF DispatchInv, StopsThere
  <2>3. ASSUME NEW h \in Serving, Rank[h] <= Rank[g] PROVE h \in asked
    <3>1. Rank[h] \in Nat /\ Rank[g] \in Nat
      BY <2>1, <2>3, DispatchAssumption
    <3>2. CASE Rank[h] < Rank[g]
      BY <2>3, <3>2 DEF DispatchInv, InOrder
    <3>3. CASE Rank[h] = Rank[g]
      BY <2>1, <2>3, <3>3, DispatchAssumption
    <3> QED
      BY <2>3, <3>1, <3>2, <3>3
  <2> QED
    BY <2>1, <2>2, <2>3
<1> QED
  BY <1>1, DispatchInvariant, PTL

-----------------------------------------------------------------------------
(* The refinement.                                                          *)

\* What HookPromise sees of the dispatcher.
SaidSoFar == IF Done THEN [g \in asked |-> answers[g]] ELSE << >>
AnswerSoFar == IF Done THEN [refused |-> RefusedBy, told |-> [part \in Tellings |-> reply[part]]]
               ELSE NoReply

LEMMA ReplyPromised ==
    ASSUME DispatchInv', ~Done, Done'
    PROVE  Promise!Reply
<1>1. /\ SaidSoFar' = [g \in asked' |-> answers'[g]] /\ DOMAIN SaidSoFar' = asked'
      /\ AnswerSoFar = NoReply
      /\ AnswerSoFar' = [refused |-> RefusedBy', told |-> [part \in Tellings |-> reply'[part]]]
  BY DEF SaidSoFar, AnswerSoFar
<1>2. \A part : {g \in DOMAIN SaidSoFar' : part \in SaidSoFar'[g]} = Sayers(part)'
  BY <1>1 DEF Sayers
<1>3. Truthful(reply)' /\ RefusedBy' = {g \in asked' : Declined(g)'}
  BY DEF DispatchInv, ReplyTrue, Truthful, RefusedBy
<1>4. UNION {Sayers(part)' : part \in Refusals} = RefusedBy'
  BY <1>3 DEF Sayers, Declined
<1>5. \A part \in Tellings : reply'[part] = IF RefusedBy' = {} THEN Sayers(part)' ELSE {}
  BY <1>3 DEF Truthful, RefusedBy
<1>6. asked' \subseteq Guard /\ SaidSoFar' \in [asked' -> SUBSET (Refusals \cup Tellings)]
  BY <1>1, Apart DEF DispatchInv, DispatchTypeOK, Serving
<1>7. Promise!Promised = [refused |-> RefusedBy', told |-> [part \in Tellings |-> Sayers(part)']]
  BY <1>2, <1>4 DEF Promise!Promised, Promise!SaidBy, SaidSoFar
<1>8. CASE RefusedBy' = {}
  <2>1. AnswerSoFar' = Promise!Promised
    BY <1>1, <1>5, <1>7, <1>8
  <2>2. Promise!Tell
    BY <1>7, <1>8, <2>1 DEF Promise!Tell, AnswerSoFar
  <2> QED
    BY <1>1, <1>6, <2>2 DEF Promise!Reply, SaidSoFar, AnswerSoFar
<1>9. CASE RefusedBy' # {}
  <2>1. AnswerSoFar' = [Promise!Promised EXCEPT !.told = [part \in Tellings |-> {}]]
    BY <1>1, <1>5, <1>7, <1>9
  <2>2. Promise!Refuse
    BY <1>7, <1>9, <2>1 DEF Promise!Refuse, AnswerSoFar
  <2> QED
    BY <1>1, <1>6, <2>2 DEF Promise!Reply, SaidSoFar, AnswerSoFar
<1> QED
  BY <1>8, <1>9

LEMMA StepPromised ==
    ASSUME DispatchInv', [DispatchNext]_dispatchVars
    PROVE  [Promise!Reply]_<< SaidSoFar, AnswerSoFar >>
<1>1. CASE Done
  <2>1. ~DispatchNext
    BY <1>1 DEF DispatchNext, AskFirst, AskEach, AskDisplay, InTurn, EndFirst, EndEach, EndDisplay, Over, Done
  <2>2. UNCHANGED dispatchVars
    BY <2>1
  <2> QED
    BY <2>2 DEF dispatchVars, SaidSoFar, AnswerSoFar, Done, RefusedBy
<1>2. CASE ~Done /\ Done'
  BY <1>2, ReplyPromised
<1>3. CASE ~Done /\ ~Done'
  BY <1>3 DEF SaidSoFar, AnswerSoFar
<1> QED
  BY <1>1, <1>2, <1>3

(* The dispatcher implements HookPromise, for every table of guards.         *)
THEOREM Refinement == DispatchSpec => KeepsPromise
<1>1. DispatchInit => Promise!Init
  BY DEF DispatchInit, Promise!Init, Done
<1>2. DispatchInv' /\ [DispatchNext]_dispatchVars => [Promise!Reply]_<< SaidSoFar, AnswerSoFar >>
  BY StepPromised
<1> QED
  BY <1>1, <1>2, DispatchInvariant, PTL DEF DispatchSpec, KeepsPromise, Promise!Spec, SaidSoFar, AnswerSoFar
-----------------------------------------------------------------------------
(* The busy-poll guard (BusyPoll).                                          *)

\* Later records are younger.
Aging(rs) == \A i, j \in 1 .. Len(rs) : i <= j => rs[j].age <= rs[i].age

\* The call that a result answers.
Of(i, r) == i - r.back

\* An open call has no answer.
Open(rs, open) ==
    \A p \in open : /\ p \in 1 .. Len(rs) /\ rs[p].kind = "call"
                    /\ \A i \in 1 .. Len(rs) : rs[i].kind = "result" => Of(i, rs[i]) # p

\* A call has one answer at most.
OneAnswer(rs) ==
    \A i, j \in 1 .. Len(rs) :
        /\ rs[i].kind = "result" /\ rs[j].kind = "result"
        /\ Of(i, rs[i]) = Of(j, rs[j]) /\ Of(i, rs[i]) >= 1
        => i = j

Coherent(rs, open) == rs \in Seq(Record) /\ IsFiniteSet(open) /\ Aging(rs) /\ Open(rs, open) /\ OneAnswer(rs)

\* A turn writes at most two records for each call, so that an open call is
\* still in the tail.
Near(rs, open, n) == \A p \in open : Len(rs) - p + Cardinality(open) < 2 * n

IInv ==
    /\ remote \in BOOLEAN /\ busy \in BOOLEAN /\ heeding \in BOOLEAN /\ calls \in 0 .. MaxCalls
    /\ Coherent(records, pending) /\ Len(records) <= Kept
    /\ Near(records, pending, calls)

-----------------------------------------------------------------------------
(* The least and the greatest of a set of numbers.                          *)

LEMMA MinOf ==
    ASSUME NEW S, S \subseteq Nat, S # {}
    PROVE  Min(S) \in S /\ \A y \in S : Min(S) <= y
<1>1. PICK x \in S : \A y \in S : << y, x >> \notin OpToRel(<, Nat)
  BY WFMin, NatLessThanWellFounded, Zenon
<1>2. ASSUME NEW y \in S PROVE x <= y
  <2>1. x \in Nat /\ y \in Nat
    OBVIOUS
  <2>2. << y, x >> \in Nat \X Nat /\ << y, x >>[1] = y /\ << y, x >>[2] = x
    BY <2>1
  <2>3. ~(y < x)
    BY <1>1, <2>2, Zenon DEF OpToRel
  <2> QED
    BY <2>1, <2>3
<1> QED
  BY <1>2 DEF Min

LEMMA MaxOf ==
    ASSUME NEW S, S \subseteq Nat, S # {}, NEW n \in Nat, \A y \in S : y <= n
    PROVE  Max(S) \in S /\ \A y \in S : y <= Max(S)
<1> DEFINE T == {n - y : y \in S}
<1>1. T \subseteq Nat /\ T # {}
  <2>1. \A y \in S : y \in Nat /\ y <= n
    OBVIOUS
  <2>2. \A y \in S : n - y \in Nat
    BY <2>1
  <2>3. T \subseteq Nat
    BY <2>2, Zenon
  <2> QED
    BY <2>3, Zenon
<1>2. Min(T) \in T /\ \A t \in T : Min(T) <= t
  BY <1>1, MinOf
<1>3. PICK x \in S : Min(T) = n - x
  BY <1>2
<1>4. \A y \in S : x >= y
  <2> SUFFICES ASSUME NEW y \in S PROVE x >= y
    OBVIOUS
  <2>1. n - x <= n - y
    BY <1>2, <1>3
  <2> QED
    BY <2>1
<1> QED
  BY <1>4 DEF Max

-----------------------------------------------------------------------------
(* What the guard reads of a transcript.                                    *)

\* The window is the records no older than the gap.
LEMMA Window ==
    ASSUME IInv
    PROVE  /\ RecentFrom \in Nat /\ 1 <= RecentFrom
           /\ Recent \subseteq DOMAIN records
           /\ \A i \in DOMAIN records : i \in Recent <=> records[i].age <= Gap
<1> DEFINE recent == {i \in DOMAIN records : records[i].age <= Gap}
<1>1. Len(records) \in Nat /\ DOMAIN records = 1 .. Len(records)
  BY LenProperties DEF IInv, Coherent
<1>a. \A i \in DOMAIN records : records[i].age \in Nat
  BY <1>1, ElementOfSeq, BusyAssumption DEF IInv, Coherent, Record, Age
<1>2. CASE recent = {}
  <2>1. RecentFrom = Len(records) + 1
    BY <1>2 DEF RecentFrom
  <2> QED
    BY <1>1, <1>2, <2>1 DEF Recent
<1>3. CASE recent # {}
  <2>1. RecentFrom = Min(recent)
    BY <1>3 DEF RecentFrom
  <2>2. Min(recent) \in recent /\ \A y \in recent : Min(recent) <= y
    <3>1. recent \subseteq Nat
      BY <1>1
    <3> HIDE DEF recent
    <3> QED
      BY <1>3, <3>1, MinOf
  <2>3. \A i \in DOMAIN records : i >= RecentFrom => records[i].age <= Gap
    BY <1>1, <1>a, <2>1, <2>2, BusyAssumption DEF IInv, Coherent, Aging
  <2>4. RecentFrom \in 1 .. Len(records)
    BY <1>1, <2>1, <2>2
  <2>5. ASSUME NEW i \in DOMAIN records, records[i].age <= Gap PROVE i \in Recent
    <3>1. RecentFrom <= i
      BY <2>1, <2>2, <2>5
    <3> QED
      BY <1>1, <2>4, <3>1 DEF Recent
  <2>6. Recent \subseteq DOMAIN records /\ \A i \in Recent : i >= RecentFrom
    BY <1>1, <2>4 DEF Recent
  <2> QED
    BY <2>3, <2>4, <2>5, <2>6
<1> QED
  BY <1>2, <1>3

\* Since the last signal: no signal inside the window is later.
LEMMA Since ==
    ASSUME IInv
    PROVE  /\ LastSignal \in Nat /\ LastSignal >= RecentFrom
           /\ \A i \in Recent : Signal(i) => i <= LastSignal
           /\ LastSignal = RecentFrom \/ (LastSignal \in Recent /\ Signal(LastSignal))
<1> DEFINE S == {RecentFrom} \cup {i \in Recent : Signal(i)}
<1>1. Len(records) \in Nat /\ DOMAIN records = 1 .. Len(records)
  BY LenProperties DEF IInv, Coherent
<1>2. RecentFrom \in Nat /\ Recent \subseteq 1 .. Len(records)
  BY <1>1, Window
<1>3. S \subseteq Nat /\ S # {} /\ RecentFrom \in S
  <2>1. Recent \subseteq Nat
    BY <1>1, <1>2
  <2> QED
    BY <1>2, <2>1, Zenon
<1>4. \A y \in S : y <= Len(records) + RecentFrom
  BY <1>1, <1>2
<1>5. Max(S) \in S /\ \A y \in S : y <= Max(S)
  <2> HIDE DEF S
  <2>1. Len(records) + RecentFrom \in Nat
    BY <1>1, <1>2
  <2> QED
    BY <1>3, <1>4, <2>1, MaxOf
<1>6. LastSignal = Max(S)
  BY DEF LastSignal
<1>7. Max(S) = RecentFrom \/ (Max(S) \in Recent /\ Signal(Max(S)))
  BY <1>5
<1> QED
  BY <1>2, <1>3, <1>5, <1>6, <1>7

\* A status read is no signal.
LEMMA ReadsNoSignal ==
    ASSUME NEW i, NEW s, Reads(i, s)
    PROVE  ~Signal(i)
BY BusyAssumption DEF Reads, Signal, Told

-----------------------------------------------------------------------------
(* A refusal is grounded.                                                   *)

LEMMA Grounded == IInv => RefusalIsGrounded
<1> SUFFICES ASSUME IInv, NEW s \in Subject, Refused(s)
             PROVE  \/ \E i \in DOMAIN records : Settles(i, s) /\ records[i].age <= Gap
                    \/ remote /\ \E i, j \in DOMAIN records : FreshAnswer(s, i, j) /\ records[i].age <= Gap
  BY DEF RefusalIsGrounded
<1>1. CASE s \in Terminal
  <2>1. PICK i \in Recent : Settles(i, s)
    BY <1>1 DEF Terminal
  <2> QED
    BY <2>1, Window
<1>2. CASE remote /\ s \in AlreadyRead
  <2> DEFINE since == LastSignal .. Len(records)
  <2>1. PICK c \in since : /\ Reads(c, s)
                           /\ \E i \in since : Answers(i, c)
                           /\ \A i \in since : Answers(i, c) => ~Told(i, "error")
    BY <1>2 DEF AlreadyRead
  <2>2. PICK j \in since : Answers(j, c)
    BY <2>1
  <2>3. /\ Len(records) \in Nat /\ DOMAIN records = 1 .. Len(records)
        /\ LastSignal \in Nat /\ LastSignal >= RecentFrom /\ RecentFrom \in Nat /\ RecentFrom >= 1
    BY LenProperties, Window, Since DEF IInv, Coherent
  <2>4. c \in DOMAIN records /\ j \in DOMAIN records /\ c \in Recent
    BY <2>3 DEF Recent
  <2>5. ASSUME NEW k \in c .. Len(records), Signal(k) PROVE FALSE
    <3>1. k \in Recent /\ k \in Nat
      BY <2>3 DEF Recent
    <3>2. k <= LastSignal
      BY <3>1, <2>5, Since
    <3>3. k = c
      BY <3>1, <3>2, <2>3
    <3> QED
      BY <3>3, <2>5, <2>1, ReadsNoSignal
  <2>6. FreshAnswer(s, c, j)
    BY <2>1, <2>2, <2>5 DEF FreshAnswer
  <2>7. records[c].age <= Gap
    BY <2>4, Window
  <2> QED
    BY <1>2, <2>4, <2>6, <2>7
<1> QED
  BY <1>1, <1>2 DEF Refused

\* What can be learned is not refused: a read that may run has no fresh answer.
LEMMA Useful ==
    ASSUME IInv, NEW s \in Subject, ~Refused(s)
    PROVE  /\ ~\E i \in DOMAIN records : Settles(i, s) /\ records[i].age <= Gap
           /\ remote => ~\E i, j \in DOMAIN records : FreshAnswer(s, i, j) /\ records[i].age <= Gap
<1>1. ASSUME NEW i \in DOMAIN records, Settles(i, s), records[i].age <= Gap PROVE FALSE
  <2>1. i \in Recent
    BY <1>1, Window
  <2>2. s \in Terminal
    BY <1>1, <2>1 DEF Terminal
  <2> QED
    BY <2>2 DEF Refused
<1>2. ASSUME remote, NEW i \in DOMAIN records, NEW j \in DOMAIN records,
             FreshAnswer(s, i, j), records[i].age <= Gap
      PROVE  FALSE
  <2> DEFINE since == LastSignal .. Len(records)
  <2>1. /\ Len(records) \in Nat /\ DOMAIN records = 1 .. Len(records)
        /\ LastSignal \in Nat /\ RecentFrom \in Nat /\ RecentFrom >= 1
    BY LenProperties, Window, Since DEF IInv, Coherent
  <2>2. i \in Recent /\ i \in Nat /\ j \in Nat /\ RecentFrom <= i
    BY <1>2, <2>1, Window DEF Recent
  <2>3. LastSignal <= i
    <3> SUFFICES ASSUME ~(LastSignal <= i) PROVE FALSE
      OBVIOUS
    <3>1. LastSignal \in Recent /\ Signal(LastSignal)
      BY <2>1, <2>2, Since
    <3>2. LastSignal \in i .. Len(records)
      BY <3>1, <2>1, <2>2, Window
    <3> QED
      BY <3>1, <3>2, <1>2 DEF FreshAnswer
  <2>4. Reads(i, s) /\ Answers(j, i) /\ ~Told(j, "error")
    BY <1>2 DEF FreshAnswer
  <2>5. records[j].kind = "result" /\ records[j].back \in Nat /\ records[j].back >= 1 /\ j - records[j].back = i
    <3>1. records[j] \in Record
      BY <2>1, ElementOfSeq DEF IInv, Coherent
    <3>2. records[j].kind = "result" /\ j - records[j].back = i
      BY <2>4 DEF Answers
    <3> QED
      BY <3>1, <3>2, BusyAssumption DEF Record
  <2>6. i \in since /\ j \in since
    BY <2>1, <2>2, <2>3, <2>5
  <2>7. \A k \in since : Answers(k, i) => k = j
    <3> SUFFICES ASSUME NEW k \in since, Answers(k, i) PROVE k = j
      OBVIOUS
    <3>1. k \in 1 .. Len(records)
      BY <2>1, Since
    <3>2. records[k].kind = "result" /\ k - records[k].back = i
      BY DEF Answers
    <3> QED
      BY <3>1, <3>2, <2>1, <2>2, <2>5 DEF IInv, Coherent, OneAnswer, Of
  <2>8. s \in AlreadyRead
    BY <2>4, <2>6, <2>7 DEF AlreadyRead
  <2> QED
    BY <1>2, <2>8 DEF Refused
<1> QED
  BY <1>1, <1>2

-----------------------------------------------------------------------------
(* What is written keeps the transcript coherent.                           *)

\* What a record of each kind is.
LEMMA Kinds ==
    ASSUME NEW r \in Record
    PROVE  /\ r.age \in Nat /\ r.age <= Gap + 1
           /\ r.kind \in {"prompt", "call", "result"}
           /\ r.kind = "result" => r.back \in 1 .. Kept
BY BusyAssumption DEF Record, Age

LEMMA NewRecords ==
    /\ \A s \in Subject \cup {None} : Prompt(s) \in Record /\ Prompt(s).kind = "prompt" /\ Prompt(s).age = 0
    /\ \A c \in Call : Asking(c) \in Record /\ Asking(c).kind = "call" /\ Asking(c).age = 0
    /\ \A back \in 1 .. Kept, answer \in Answer, s \in Subject \cup {None} :
         LET r == Reply(back, answer, s)
         IN  r \in Record /\ r.kind = "result" /\ r.age = 0 /\ r.back = back
<1>1. 0 \in Age
  BY BusyAssumption DEF Age
<1>2. ASSUME NEW s \in Subject \cup {None}
      PROVE  Prompt(s) \in Record /\ Prompt(s).kind = "prompt" /\ Prompt(s).age = 0
  <2>1. Waited \in BOOLEAN
    BY DEF Waited
  <2> QED
    BY <1>1, <2>1 DEF Prompt, Record
<1>3. ASSUME NEW c \in Call
      PROVE  Asking(c) \in Record /\ Asking(c).kind = "call" /\ Asking(c).age = 0
  BY <1>1 DEF Asking, Record
<1>4. ASSUME NEW back \in 1 .. Kept, NEW answer \in Answer, NEW s \in Subject \cup {None}
      PROVE  /\ Reply(back, answer, s) \in Record /\ Reply(back, answer, s).kind = "result"
             /\ Reply(back, answer, s).age = 0 /\ Reply(back, answer, s).back = back
  BY <1>1 DEF Reply, Record
<1> QED
  BY <1>2, <1>3, <1>4

\* One record more: a prompt or a call, or the answer to an open call.
LEMMA Appended ==
    ASSUME NEW rs, NEW open, Coherent(rs, open),
           NEW r \in Record, r.age = 0, NEW left,
           \/ /\ r.kind # "result"
              /\ left = {} \/ left = open \/ (r.kind = "call" /\ left = open \cup {Len(rs) + 1})
           \/ /\ r.kind = "result" /\ Of(Len(rs) + 1, r) \in open
              /\ left = open \ {Of(Len(rs) + 1, r)}
    PROVE  Coherent(Append(rs, r), left) /\ Len(Append(rs, r)) = Len(rs) + 1
<1> DEFINE more == Append(rs, r)
           n == Len(rs)
<1>1. rs \in Seq(Record) /\ n \in Nat /\ \A i \in 1 .. n : rs[i] \in Record
  BY LenProperties, ElementOfSeq DEF Coherent
<1>2. /\ more \in Seq(Record) /\ Len(more) = n + 1
      /\ \A i \in 1 .. n : more[i] = rs[i]
      /\ more[n + 1] = r
  BY <1>1
<1>3. \A i \in 1 .. n + 1 : i \in 1 .. n \/ i = n + 1
  BY <1>1
<1> HIDE DEF more
<1>4. Aging(more)
  <2> SUFFICES ASSUME NEW i \in 1 .. n + 1, NEW j \in 1 .. n + 1, i <= j
               PROVE  more[j].age <= more[i].age
    BY <1>2 DEF Aging
  <2>1. CASE j = n + 1
    <3>1. more[i] \in Record /\ more[i].age \in Nat
      BY <1>1, <1>2, <1>3, Kinds
    <3> QED
      BY <2>1, <3>1, <1>2
  <2>2. CASE j # n + 1
    <3>1. i \in 1 .. n /\ j \in 1 .. n
      BY <2>2, <1>1
    <3> QED
      BY <3>1, <1>2 DEF Coherent, Aging
  <2> QED
    BY <2>1, <2>2
<1>5. IsFiniteSet(left)
  <2>1. IsFiniteSet(open)
    BY DEF Coherent
  <2>2. IsFiniteSet({}) /\ IsFiniteSet(open \cup {n + 1})
    BY <2>1, FS_EmptySet, FS_AddElement
  <2>3. IsFiniteSet(open \ {Of(n + 1, r)})
    BY <2>1, FS_RemoveElement
  <2> QED
    BY <2>1, <2>2, <2>3
<1>6. Open(more, left)
  <2> SUFFICES ASSUME NEW p \in left
               PROVE  /\ p \in 1 .. n + 1 /\ more[p].kind = "call"
                      /\ \A i \in 1 .. n + 1 : more[i].kind = "result" => Of(i, more[i]) # p
    BY <1>2 DEF Open
  <2>1. CASE p \in open
    <3>1. p \in 1 .. n /\ rs[p].kind = "call"
      BY <2>1 DEF Coherent, Open
    <3>2. \A i \in 1 .. n : rs[i].kind = "result" => Of(i, rs[i]) # p
      BY <2>1 DEF Coherent, Open
    <3>3. r.kind = "result" => Of(n + 1, r) # p
      OBVIOUS
    <3>4. p \in 1 .. n + 1 /\ more[p].kind = "call"
      BY <3>1, <1>1, <1>2
    <3>5. ASSUME NEW i \in 1 .. n + 1, more[i].kind = "result" PROVE Of(i, more[i]) # p
      <4>1. CASE i \in 1 .. n
        <5>1. more[i] = rs[i]
          BY <4>1, <1>2
        <5>2. rs[i].kind = "result"
          BY <5>1, <3>5
        <5> QED
          BY <4>1, <5>1, <5>2, <3>2, Zenon
      <4>2. CASE i = n + 1
        BY <4>2, <3>3, <3>5, <1>2
      <4> QED
        BY <4>1, <4>2, <1>3
    <3> QED
      BY <3>4, <3>5
  <2>2. CASE p \notin open
    <3>1. p = n + 1 /\ r.kind = "call"
      BY <2>2
    <3>2. ASSUME NEW i \in 1 .. n + 1, more[i].kind = "result" PROVE Of(i, more[i]) # p
      <4>1. i \in 1 .. n /\ more[i] = rs[i]
        BY <3>1, <3>2, <1>2, <1>3
      <4>2. rs[i].back \in 1 .. Kept
        BY <4>1, <3>2, <1>1, Kinds
      <4> QED
        BY <3>1, <4>1, <4>2, <1>1, BusyAssumption DEF Of
    <3> QED
      BY <3>1, <3>2, <1>1, <1>2
  <2> QED
    BY <2>1, <2>2
<1>7. OneAnswer(more)
  <2> SUFFICES ASSUME NEW i \in 1 .. n + 1, NEW j \in 1 .. n + 1,
                      more[i].kind = "result", more[j].kind = "result",
                      Of(i, more[i]) = Of(j, more[j]), Of(i, more[i]) >= 1
               PROVE  i = j
    BY <1>2 DEF OneAnswer
  <2>1. CASE i \in 1 .. n /\ j \in 1 .. n
    BY <2>1, <1>2 DEF Coherent, OneAnswer
  <2>2. ASSUME NEW k \in 1 .. n, rs[k].kind = "result", r.kind = "result",
               Of(k, rs[k]) = Of(n + 1, r)
        PROVE  FALSE
    BY <2>2 DEF Coherent, Open
  <2>3. CASE i \in 1 .. n /\ j = n + 1
    <3>1. more[i] = rs[i] /\ more[j] = r
      BY <2>3, <1>2
    <3>2. rs[i].kind = "result" /\ r.kind = "result" /\ Of(i, rs[i]) = Of(n + 1, r)
      BY <3>1, <2>3, Zenon
    <3> QED
      BY <3>2, <2>2, <2>3, Zenon
  <2>4. CASE i = n + 1 /\ j \in 1 .. n
    <3>1. more[j] = rs[j] /\ more[i] = r
      BY <2>4, <1>2
    <3>2. rs[j].kind = "result" /\ r.kind = "result" /\ Of(j, rs[j]) = Of(n + 1, r)
      BY <3>1, <2>4, Zenon
    <3> QED
      BY <3>2, <2>2, <2>4, Zenon
  <2> QED
    BY <2>1, <2>3, <2>4, <1>3
<1> QED
  BY <1>2, <1>4, <1>5, <1>6, <1>7 DEF Coherent, more

\* The calls open in the whole are open in the tail.
LEMMA Rebased ==
    ASSUME NEW open, IsFiniteSet(open), NEW cut \in Nat
    PROVE  IsFiniteSet(Rebase(open, cut)) /\ Cardinality(Rebase(open, cut)) <= Cardinality(open)
<1> DEFINE f == [p \in open |-> p - cut]
<1>1. f \in Surjection(open, Rebase(open, cut))
  BY DEF Surjection, Rebase
<1> QED
  BY <1>1, FS_Surjection

LEMMA Shift ==
    ASSUME NEW i \in Int, NEW j \in Int, NEW a \in Nat, NEW b \in Nat, NEW cut \in Nat,
           i - a = j - b, i - a >= 1
    PROVE  (i + cut) - a = (j + cut) - b /\ (i + cut) - a >= 1
<1>1. (i + cut) - a = (i - a) + cut /\ (j + cut) - b = (j - b) + cut
  OBVIOUS
<1>2. i - a \in Int
  OBVIOUS
<1> QED
  BY <1>1, <1>2

LEMMA CutCounts ==
    ASSUME NEW m \in Nat, NEW p \in Int, NEW cut \in Nat, NEW a \in Nat, NEW b \in Nat, NEW n \in Nat,
           m - p + a < 2 * n, b <= a
    PROVE  (m - cut) - (p - cut) + b < 2 * n
<1>1. (m - cut) - (p - cut) = m - p
  OBVIOUS
<1> QED
  BY <1>1

\* The tail of a coherent transcript is coherent, and no open call is cut off.
LEMMA Tailed ==
    ASSUME NEW all, NEW open, NEW n \in 0 .. MaxCalls,
           Coherent(all, open), Near(all, open, n), Write(all, open)
    PROVE  /\ Coherent(records, pending)' /\ (Len(records) <= Kept)'
           /\ Near(records', pending', n)
<1> DEFINE m == Len(all)
           cut == Cut(all)
           rs == records'
<1>1. /\ all \in Seq(Record) /\ m \in Nat /\ IsFiniteSet(open)
      /\ \A i \in 1 .. m : all[i] \in Record
  BY LenProperties, ElementOfSeq DEF Coherent
<1>2. Kept \in Nat /\ MaxCalls \in Nat /\ Kept > 2 * MaxCalls /\ n \in Nat /\ n <= MaxCalls
  BY BusyAssumption
<1>3. cut \in Nat /\ cut <= m /\ m - cut <= Kept /\ (cut > 0 => m - cut = Kept)
  BY <1>1, <1>2 DEF Cut
<1>4. rs = SubSeq(all, cut + 1, m) /\ pending' = Rebase(open, cut)
  BY DEF Write
<1> HIDE DEF cut, rs
<1>5. /\ rs \in Seq(Record) /\ Len(rs) = m - cut
      /\ \A i \in 1 .. m - cut : rs[i] = all[i + cut] /\ i + cut \in 1 .. m
  <2>1. \A i \in cut + 1 .. m : all[i] \in Record
    BY <1>1, <1>3
  <2>2. /\ SubSeq(all, cut + 1, m) \in Seq(Record)
        /\ Len(SubSeq(all, cut + 1, m)) = IF cut + 1 <= m THEN m - (cut + 1) + 1 ELSE 0
        /\ \A i \in 1 .. m - (cut + 1) + 1 : SubSeq(all, cut + 1, m)[i] = all[cut + 1 + i - 1]
    BY <2>1, <1>1, <1>3, SubSeqProperties
  <2>3. \A i \in 1 .. m - cut : i \in 1 .. m - (cut + 1) + 1 /\ cut + 1 + i - 1 = i + cut /\ i + cut \in 1 .. m
    BY <1>1, <1>3
  <2> QED
    BY <2>2, <2>3, <1>1, <1>3, <1>4
<1>6. Aging(rs)
  <2> SUFFICES ASSUME NEW i \in 1 .. m - cut, NEW j \in 1 .. m - cut, i <= j
               PROVE  rs[j].age <= rs[i].age
    BY <1>5 DEF Aging
  <2>1. i + cut \in 1 .. m /\ j + cut \in 1 .. m /\ i + cut <= j + cut
    BY <1>1, <1>3, <1>5
  <2> QED
    BY <2>1, <1>5 DEF Coherent, Aging
<1>7. IsFiniteSet(pending') /\ Cardinality(pending') <= Cardinality(open)
  BY <1>1, <1>3, <1>4, Rebased
<1>8. Cardinality(open) \in Nat /\ Cardinality(pending') \in Nat
  BY <1>1, <1>7, FS_CardinalityType
<1>9. ASSUME NEW p \in open PROVE p \in 1 .. m /\ p - cut \in 1 .. m - cut
  <2>1. p \in 1 .. m /\ m - p + Cardinality(open) < 2 * n
    BY DEF Coherent, Open, Near
  <2> QED
    BY <2>1, <1>1, <1>2, <1>3, <1>8
<1>10. Open(rs, pending')
  <2> SUFFICES ASSUME NEW p \in open
               PROVE  /\ p - cut \in 1 .. m - cut /\ rs[p - cut].kind = "call"
                      /\ \A i \in 1 .. m - cut : rs[i].kind = "result" => Of(i, rs[i]) # p - cut
    BY <1>4, <1>5 DEF Open, Rebase
  <2>1. p \in 1 .. m /\ p - cut \in 1 .. m - cut /\ p - cut + cut = p
    BY <1>9, <1>3
  <2>2. rs[p - cut] = all[p] /\ all[p].kind = "call"
    BY <2>1, <1>5 DEF Coherent, Open
  <2>3. ASSUME NEW i \in 1 .. m - cut, rs[i].kind = "result" PROVE Of(i, rs[i]) # p - cut
    <3>1. i + cut \in 1 .. m /\ rs[i] = all[i + cut]
      BY <1>5
    <3>2. Of(i + cut, all[i + cut]) # p
      <4>1. all[i + cut].kind = "result"
        BY <3>1, <2>3
      <4> QED
        BY <3>1, <4>1 DEF Coherent, Open
    <3>3. rs[i].back \in Nat
      BY <3>1, <2>3, <1>1, <1>2, Kinds
    <3> QED
      BY <3>1, <3>2, <3>3, <2>1, <1>1, <1>3 DEF Of
  <2> QED
    BY <2>1, <2>2, <2>3
<1>11. OneAnswer(rs)
  <2> SUFFICES ASSUME NEW i \in 1 .. m - cut, NEW j \in 1 .. m - cut,
                      rs[i].kind = "result", rs[j].kind = "result",
                      Of(i, rs[i]) = Of(j, rs[j]), Of(i, rs[i]) >= 1
               PROVE  i = j
    BY <1>5 DEF OneAnswer
  <2>1. /\ i + cut \in 1 .. m /\ rs[i] = all[i + cut]
        /\ j + cut \in 1 .. m /\ rs[j] = all[j + cut]
    BY <1>5
  <2>2. rs[i].back \in Nat /\ rs[j].back \in Nat
    BY <2>1, <1>1, <1>2, Kinds
  <2>3. Of(i + cut, rs[i]) = Of(j + cut, rs[j]) /\ Of(i + cut, rs[i]) >= 1
    <3>1. i \in Int /\ j \in Int
      BY <1>1, <1>3
    <3>2. i - rs[i].back = j - rs[j].back /\ i - rs[i].back >= 1
      BY DEF Of
    <3> HIDE DEF m
    <3>3. (i + cut) - rs[i].back = (j + cut) - rs[j].back /\ (i + cut) - rs[i].back >= 1
      BY <1>3, <2>2, <3>1, <3>2, Shift
    <3> QED
      BY <3>3 DEF Of
  <2>5. /\ Of(i + cut, all[i + cut]) = Of(j + cut, all[j + cut])
        /\ Of(i + cut, all[i + cut]) >= 1
        /\ all[i + cut].kind = "result" /\ all[j + cut].kind = "result"
    BY <2>1, <2>3, Zenon
  <2>6. i + cut = j + cut
    BY <2>1, <2>5 DEF Coherent, OneAnswer
  <2> QED
    BY <2>6, <1>1, <1>3
<1>12. Near(rs, pending', n)
  <2> SUFFICES ASSUME NEW p \in open
               PROVE  Len(rs) - (p - cut) + Cardinality(pending') < 2 * n
    BY <1>4 DEF Near, Rebase
  <2>1. p \in 1 .. m /\ m - p + Cardinality(open) < 2 * n
    BY <1>9 DEF Near
  <2>2. p \in Int /\ Cardinality(pending') <= Cardinality(open)
    BY <2>1, <1>7
  <2> HIDE DEF m
  <2>3. (m - cut) - (p - cut) + Cardinality(pending') < 2 * n
    BY <2>1, <2>2, <1>1, <1>2, <1>3, <1>8, CutCounts
  <2> QED
    BY <2>3, <1>5
<1>13. Len(rs) <= Kept
  BY <1>3, <1>5
<1> QED
  BY <1>5, <1>6, <1>7, <1>10, <1>11, <1>12, <1>13 DEF Coherent, rs

-----------------------------------------------------------------------------
(* Every step keeps the invariant.                                          *)

LEMMA InitIInv == Init => IInv
<1> SUFFICES ASSUME Init PROVE IInv
  OBVIOUS
<1>1. << >> \in Seq(Record) /\ Len(<< >>) = 0
  BY EmptySeq
<1>2. Coherent(<< >>, {})
  BY <1>1, FS_EmptySet DEF Coherent, Aging, Open, OneAnswer
<1>3. calls \in 0 .. MaxCalls /\ Len(records) <= Kept
  BY <1>1, BusyAssumption DEF Init
<1>4. Near(records, pending, calls)
  BY DEF Init, Near
<1> QED
  BY <1>2, <1>3, <1>4 DEF Init, IInv

\* What a step writes and what it leaves open.
LEMMA Prompts ==
    ASSUME IInv, NEW s \in Subject \cup {None}, Write(Append(records, Prompt(s)), {}),
           calls' \in 0 .. MaxCalls, (remote \in BOOLEAN /\ busy \in BOOLEAN /\ heeding \in BOOLEAN)'
    PROVE  IInv'
<1> DEFINE all == Append(records, Prompt(s))
<1>1. Prompt(s) \in Record /\ Prompt(s).kind = "prompt" /\ Prompt(s).age = 0
  BY NewRecords
<1>2. Coherent(all, {})
  BY <1>1, Appended DEF IInv
<1>3. Near(all, {}, calls')
  BY DEF Near
<1> HIDE DEF all
<1>4. Write(all, {})
  BY DEF all
<1>5. Coherent(records, pending)' /\ (Len(records) <= Kept)' /\ Near(records', pending', calls')
  BY <1>2, <1>3, <1>4, Tailed
<1> QED
  BY <1>5 DEF IInv

LEMMA PromptedKeeps == IInv /\ Prompted => IInv'
<1> SUFFICES ASSUME IInv, Prompted PROVE IInv'
  OBVIOUS
<1>1. PICK s \in Subject \cup {None} : Write(Append(records, Prompt(s)), {})
  BY DEF Prompted
<1>2. calls' \in 0 .. MaxCalls /\ (remote \in BOOLEAN /\ busy \in BOOLEAN /\ heeding \in BOOLEAN)'
  BY DEF Prompted, IInv
<1> QED
  BY <1>1, <1>2, Prompts

LEMMA AgainKeeps == IInv /\ (StopRefused \/ StopRefusedElsewhere) => IInv'
<1> SUFFICES ASSUME IInv, StopRefused \/ StopRefusedElsewhere PROVE IInv'
  OBVIOUS
<1>1. Write(Append(records, Prompt(None)), {})
  BY DEF StopRefused, StopRefusedElsewhere, Again
<1>2. calls' \in 0 .. MaxCalls
  BY BusyAssumption DEF StopRefused, StopRefusedElsewhere, Again
<1>3. (remote \in BOOLEAN /\ busy \in BOOLEAN /\ heeding \in BOOLEAN)'
  BY DEF StopRefused, StopRefusedElsewhere, Again, IInv
<1> QED
  BY <1>1, <1>2, <1>3, Prompts

LEMMA StopKeeps == IInv /\ Stop => IInv'
<1> SUFFICES ASSUME IInv, Stop PROVE IInv'
  OBVIOUS
<1>1. Near(records, pending, calls)'
  BY DEF Stop, Near
<1>2. calls' \in 0 .. MaxCalls
  BY BusyAssumption DEF Stop
<1> QED
  BY <1>1, <1>2 DEF Stop, IInv

\* One call more leaves the open calls near.
LEMMA NearCall ==
    ASSUME IInv, calls < MaxCalls, NEW rs, Len(rs) = Len(records) + 1
    PROVE  Near(rs, pending \cup {Len(records) + 1}, calls + 1)
<1> DEFINE m == Len(records)
           open == pending \cup {m + 1}
           k == Cardinality(pending)
<1>1. /\ m \in Nat /\ IsFiniteSet(pending) /\ k \in Nat /\ calls \in Nat /\ Len(rs) = m + 1
      /\ \A p \in pending : p \in 1 .. m /\ m - p + k < 2 * calls
  BY LenProperties, FS_CardinalityType DEF IInv, Coherent, Open, Near
<1>2. Cardinality(open) <= k + 1 /\ Cardinality(open) \in Nat
  BY <1>1, FS_AddElement, FS_CardinalityType
<1>3. k <= 2 * calls
  <2>1. CASE pending = {}
    BY <2>1, <1>1, FS_EmptySet
  <2>2. CASE pending # {}
    <3>1. PICK p \in pending : TRUE
      BY <2>2
    <3> QED
      BY <3>1, <1>1
  <2> QED
    BY <2>1, <2>2
<1> SUFFICES ASSUME NEW p \in open PROVE Len(rs) - p + Cardinality(open) < 2 * (calls + 1)
  BY DEF Near
<1>4. CASE p \in pending
  <2>1. p \in 1 .. m /\ m - p + k < 2 * calls
    BY <1>4, <1>1
  <2> HIDE DEF m, k, open
  <2> QED
    BY <2>1, <1>1, <1>2
<1>5. CASE p = m + 1
  <2> HIDE DEF m, k, open
  <2> QED
    BY <1>5, <1>1, <1>2, <1>3
<1> QED
  BY <1>4, <1>5

LEMMA RunCallKeeps == ASSUME IInv, NEW c \in Call, RunCall(c) PROVE IInv'
<1> DEFINE all == Append(records, Asking(c))
           open == pending \cup {Len(records) + 1}
<1>1. Asking(c) \in Record /\ Asking(c).kind = "call" /\ Asking(c).age = 0
  BY NewRecords
<1>2. Coherent(all, open) /\ Len(all) = Len(records) + 1
  BY <1>1, Appended DEF IInv
<1>3. calls < MaxCalls /\ calls' = calls + 1 /\ calls + 1 \in 0 .. MaxCalls /\ Write(all, open)
  BY BusyAssumption DEF RunCall, Calling, IInv
<1> HIDE DEF all
<1>4. Near(all, open, calls + 1)
  BY <1>2, <1>3, NearCall
<1> HIDE DEF open
<1>5. Coherent(records, pending)' /\ (Len(records) <= Kept)' /\ Near(records', pending', calls + 1)
  BY <1>2, <1>3, <1>4, Tailed
<1> QED
  BY <1>3, <1>5 DEF RunCall, IInv

\* A refused call and its error: the calls open before stay open.
LEMMA RefuseKeeps == ASSUME IInv, NEW c \in Call, Refuse(c) PROVE IInv'
<1> DEFINE m == Len(records)
           called == Append(records, Asking(c))
           answered == Reply(1, "error", None)
           all == Append(called, answered)
           open == pending \cup {m + 1}
<1>1. Asking(c) \in Record /\ Asking(c).kind = "call" /\ Asking(c).age = 0
  BY NewRecords
<1>2. answered \in Record /\ answered.kind = "result" /\ answered.age = 0 /\ answered.back = 1
  BY BusyAssumption, NewRecords DEF Answer
<1>3. Coherent(called, open) /\ Len(called) = m + 1
  BY <1>1, Appended DEF IInv
<1>4. m \in Nat /\ pending \subseteq 1 .. m /\ records \in Seq(Record) /\ IsFiniteSet(pending)
  BY LenProperties DEF IInv, Coherent, Open
<1>5. records \o << Asking(c), answered >> = all
  BY <1>1, <1>2, <1>4
<1> HIDE DEF answered
<1>6. Of(Len(called) + 1, answered) = m + 1
  BY <1>2, <1>3, <1>4 DEF Of
<1>7. pending = open \ {m + 1}
  BY <1>4
<1>8. Coherent(all, pending) /\ Len(all) = m + 2
  <2> HIDE DEF called, open
  <2>1. m + 1 \in open
    BY DEF open
  <2>2. Coherent(Append(called, answered), pending) /\ Len(Append(called, answered)) = Len(called) + 1
    BY <1>2, <1>3, <1>6, <1>7, <2>1, Appended
  <2> QED
    BY <2>2, <1>3, <1>4
<1> HIDE DEF all
<1>9. calls < MaxCalls /\ calls' = calls + 1 /\ calls + 1 \in 0 .. MaxCalls
  BY BusyAssumption DEF Refuse, Calling, IInv
<1>12. Write(all, pending)
  BY <1>5 DEF Refuse, answered
<1>10. Near(all, pending, calls + 1)
  <2> SUFFICES ASSUME NEW p \in pending
               PROVE  Len(all) - p + Cardinality(pending) < 2 * (calls + 1)
    BY DEF Near
  <2>1. m - p + Cardinality(pending) < 2 * calls /\ p \in 1 .. m
    BY <1>4 DEF IInv, Near
  <2>2. Cardinality(pending) \in Nat
    BY <1>4, FS_CardinalityType
  <2>3. calls \in Nat
    BY DEF IInv
  <2> HIDE DEF m
  <2> QED
    BY <2>1, <2>2, <2>3, <1>4, <1>8
<1>11. Coherent(records, pending)' /\ (Len(records) <= Kept)' /\ Near(records', pending', calls + 1)
  BY <1>8, <1>9, <1>10, <1>12, Tailed
<1> QED
  BY <1>9, <1>11 DEF Refuse, IInv

LEMMA ResultKeeps == ASSUME IInv, NEW p \in pending, Result(p) PROVE IInv'
<1> DEFINE m == Len(records)
<1>1. m \in Nat /\ p \in 1 .. m /\ m <= Kept /\ IsFiniteSet(pending) /\ calls \in Nat
  BY LenProperties DEF IInv, Coherent, Open
<1>2. PICK answer \in Answer, s \in {None} \cup Subject :
        Write(Append(records, Reply(m + 1 - p, answer, s)), pending \ {p})
  BY DEF Result
<1> DEFINE answered == Reply(m + 1 - p, answer, s)
           all == Append(records, answered)
           open == pending \ {p}
<1>3. m + 1 - p \in 1 .. Kept
  BY <1>1, BusyAssumption
<1>4. answered \in Record /\ answered.kind = "result" /\ answered.age = 0 /\ answered.back = m + 1 - p
  BY <1>3, NewRecords
<1> HIDE DEF answered
<1>5. Of(m + 1, answered) = p
  BY <1>1, <1>4 DEF Of
<1>6. Coherent(all, open) /\ Len(all) = m + 1
  BY <1>4, <1>5, Appended DEF IInv
<1>7. Write(all, open)
  BY <1>2 DEF answered
<1> HIDE DEF all
<1>8. Near(all, open, calls)
  <2> SUFFICES ASSUME NEW q \in open
               PROVE  Len(all) - q + Cardinality(open) < 2 * calls
    BY DEF Near
  <2>1. q \in 1 .. m /\ m - q + Cardinality(pending) < 2 * calls
    BY DEF IInv, Coherent, Open, Near
  <2>2. Cardinality(open) = Cardinality(pending) - 1 /\ Cardinality(pending) \in Nat
    BY <1>1, FS_RemoveElement, FS_CardinalityType
  <2> HIDE DEF m, open
  <2> QED
    BY <2>1, <2>2, <1>1, <1>6
<1> HIDE DEF open
<1>9. calls \in 0 .. MaxCalls /\ calls' = calls
  BY DEF Result, IInv
<1>10. Coherent(records, pending)' /\ (Len(records) <= Kept)' /\ Near(records', pending', calls)
  BY <1>6, <1>7, <1>8, <1>9, Tailed
<1> QED
  BY <1>9, <1>10 DEF Result, IInv

\* A record that ages stays what it is.
LEMMA Aged ==
    ASSUME NEW r \in Record, NEW a \in Age
    PROVE  /\ [r EXCEPT !.age = a] \in Record
           /\ [r EXCEPT !.age = a].age = a /\ [r EXCEPT !.age = a].kind = r.kind
           /\ r.kind = "result" => [r EXCEPT !.age = a].back = r.back
<1>1. CASE r \in [kind : {"prompt"}, waited : BOOLEAN, settles : Subject \cup {None}, age : Age]
  BY <1>1 DEF Record
<1>2. CASE r \in [kind : {"call"}, call : Call, age : Age]
  BY <1>2 DEF Record
<1>3. CASE r \in [kind : {"result"}, back : 1 .. Kept, answer : Answer, settles : Subject \cup {None}, age : Age]
  BY <1>3 DEF Record
<1> QED
  BY <1>1, <1>2, <1>3 DEF Record

LEMMA TickKeeps == IInv /\ Tick => IInv'
<1> SUFFICES ASSUME IInv, Tick PROVE IInv'
  OBVIOUS
<1> DEFINE m == Len(records)
           rs == records'
           older(a) == IF a > Gap THEN a ELSE a + 1
<1>1. /\ records \in Seq(Record) /\ m \in Nat /\ DOMAIN records = 1 .. m
      /\ \A i \in 1 .. m : records[i] \in Record
  BY LenProperties, ElementOfSeq DEF IInv, Coherent
<1>2. \A i \in 1 .. m : /\ records[i].age \in Nat /\ records[i].age <= Gap + 1
                        /\ older(records[i].age) \in Age
  BY <1>1, Kinds, BusyAssumption DEF Age
<1>3. rs = [i \in 1 .. m |-> [records[i] EXCEPT !.age = older(records[i].age)]]
  BY <1>1 DEF Tick
<1>4. \A i \in 1 .. m : /\ rs[i] \in Record /\ rs[i].age = older(records[i].age)
                        /\ rs[i].kind = records[i].kind
                        /\ rs[i].kind = "result" => rs[i].back = records[i].back
  <2> TAKE i \in 1 .. m
  <2> DEFINE a == older(records[i].age)
  <2>1. rs[i] = [records[i] EXCEPT !.age = a]
    BY <1>3
  <2>2. a \in Age /\ records[i] \in Record
    BY <1>1, <1>2
  <2> HIDE DEF a, rs
  <2>3. rs[i] \in Record /\ rs[i].age = a /\ rs[i].kind = records[i].kind
    BY <2>1, <2>2, Aged
  <2>4. rs[i].kind = "result" => rs[i].back = records[i].back
    BY <2>1, <2>2, <2>3, Aged
  <2> QED
    BY <2>3, <2>4 DEF a
<1>5. rs \in Seq(Record) /\ Len(rs) = m
  <2>1. rs \in [1 .. m -> Record]
    BY <1>3, <1>4
  <2> QED
    BY <2>1, <1>1
<1>6. Aging(rs)
  <2> SUFFICES ASSUME NEW i \in 1 .. m, NEW j \in 1 .. m, i <= j PROVE rs[j].age <= rs[i].age
    BY <1>5 DEF Aging
  <2>1. records[j].age <= records[i].age
    BY DEF IInv, Coherent, Aging
  <2>2. older(records[j].age) <= older(records[i].age)
    BY <2>1, <1>2, BusyAssumption
  <2> QED
    BY <2>2, <1>4
<1>7. \A i \in 1 .. m : rs[i].kind = "result" => Of(i, rs[i]) = Of(i, records[i])
  BY <1>4 DEF Of
<1>8. UNCHANGED << pending, calls, remote, busy, heeding >>
  BY DEF Tick
<1> HIDE DEF rs
<1>9. Open(rs, pending)
  BY <1>4, <1>5, <1>7 DEF IInv, Coherent, Open
<1>10. OneAnswer(rs)
  BY <1>4, <1>5, <1>7 DEF IInv, Coherent, OneAnswer
<1>11. Near(rs, pending, calls) /\ Len(rs) <= Kept
  BY <1>5 DEF IInv, Near
<1> QED
  BY <1>5, <1>6, <1>8, <1>9, <1>10, <1>11 DEF IInv, Coherent, rs

LEMMA NextKeeps == IInv /\ [Next]_vars => IInv'
<1> SUFFICES ASSUME IInv, [Next]_vars PROVE IInv'
  OBVIOUS
<1>1. CASE UNCHANGED vars
  BY <1>1 DEF vars, IInv
<1>2. CASE Prompted
  BY <1>2, PromptedKeeps
<1>3. CASE StopRefused \/ StopRefusedElsewhere
  BY <1>3, AgainKeeps
<1>4. CASE Stop
  BY <1>4, StopKeeps
<1>5. CASE Tick
  BY <1>5, TickKeeps
<1>6. ASSUME NEW c \in Call, RunCall(c) \/ Refuse(c) PROVE IInv'
  BY <1>6, RunCallKeeps, RefuseKeeps
<1>7. ASSUME NEW p \in pending, Result(p) PROVE IInv'
  BY <1>7, ResultKeeps
<1> QED
  BY <1>1, <1>2, <1>3, <1>4, <1>5, <1>6, <1>7 DEF Next

-----------------------------------------------------------------------------
(* What follows for every run.                                              *)

(* The invariant that the proofs rest on holds in every reachable state: the  *)
(* tail is in the order of time, a call has one answer at most, and an open   *)
(* call is never cut off the tail readTail keeps.                             *)
THEOREM CoherentTail == Spec => []IInv
<1>1. Init => IInv
  BY InitIInv
<1>2. IInv /\ [Next]_vars => IInv'
  BY NextKeeps
<1> QED
  BY <1>1, <1>2, PTL DEF Spec

(* The types of the session's state: the tail keeps to its bound, what is     *)
(* pending is a call of the tail, and a turn keeps to its calls.              *)
THEOREM TypeCorrect == Spec => []TypeOK
<1>1. IInv => TypeOK
  <2> SUFFICES ASSUME IInv PROVE TypeOK
    OBVIOUS
  <2>1. records \in Seq(Record) /\ DOMAIN records = 1 .. Len(records)
    BY LenProperties DEF IInv, Coherent
  <2> QED
    BY <2>1 DEF IInv, Coherent, Open, TypeOK
<1> QED
  BY <1>1, CoherentTail, PTL

(* Whatever the subjects and tools, the gap and the tail: a status read is    *)
(* refused only while the tail shows its subject settled, or a fresh answer   *)
(* in a session that is woken (judgeCall, readSinceLastSignal).               *)
THEOREM RefusalAlwaysGrounded == Spec => []RefusalIsGrounded
<1>1. IInv => RefusalIsGrounded
  BY Grounded
<1> QED
  BY <1>1, CoherentTail, PTL

(* And no read runs that the tail shows useless: the two halves of judgeCall  *)
(* leave no gap between what is refused and what can be learned.              *)
THEOREM NothingWasted == Spec => NoWastedRead
<1> DEFINE useful ==
        \A c \in Read : RunCall(c) =>
          /\ ~\E i \in DOMAIN records : Settles(i, About[c]) /\ records[i].age <= Gap
          /\ remote => ~\E i, j \in DOMAIN records : FreshAnswer(About[c], i, j) /\ records[i].age <= Gap
<1>1. IInv => useful
  <2> SUFFICES ASSUME IInv, NEW c \in Read, RunCall(c)
               PROVE  /\ ~\E i \in DOMAIN records : Settles(i, About[c]) /\ records[i].age <= Gap
                      /\ remote => ~\E i, j \in DOMAIN records : FreshAnswer(About[c], i, j) /\ records[i].age <= Gap
    OBVIOUS
  <2>1. About[c] \in Subject /\ ~Refused(About[c])
    BY BusyAssumption DEF RunCall
  <2> QED
    BY <2>1, Useful
<1>2. IInv /\ [Next]_vars => [useful]_vars
  BY <1>1
<1>3. [][useful]_vars => NoWastedRead
  BY PTL DEF NoWastedRead
<1> QED
  BY <1>2, <1>3, CoherentTail, PTL DEF Spec
=============================================================================
