----------------------------- MODULE HookPromise -----------------------------
(***************************************************************************)
(* What the answer to one hook event promises, whichever guards served it: *)
(* a refusal by any of them refuses and carries every reason given, and    *)
(* without a refusal everything that any of them said is in the answer.    *)
(***************************************************************************)
CONSTANTS Guard,      (* the guards                                        *)
          Refusals,   (* what a guard says to refuse                       *)
          Tellings,   (* what else a guard can say                         *)
          Nobody      (* no answer yet                                     *)

VARIABLES said,       (* what each guard that was asked said               *)
          answer      (* the answer to the event                           *)

SaidBy(part) == {g \in DOMAIN said' : part \in said'[g]}

Promised == [refused |-> UNION {SaidBy(part) : part \in Refusals},
             told    |-> [part \in Tellings |-> SaidBy(part)]]

Init == said = << >> /\ answer = Nobody

Refuse ==
    /\ Promised.refused # {}
    /\ answer' = [Promised EXCEPT !.told = [part \in Tellings |-> {}]]

Tell ==
    /\ Promised.refused = {}
    /\ answer' = Promised

Reply ==
    /\ answer = Nobody
    /\ DOMAIN said' \subseteq Guard
    /\ said' \in [DOMAIN said' -> SUBSET (Refusals \cup Tellings)]
    /\ Refuse \/ Tell

Spec == Init /\ [][Reply]_<< said, answer >>
=============================================================================
