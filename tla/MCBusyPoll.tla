------------------------------ MODULE MCBusyPoll ------------------------------
(***************************************************************************)
(* One subject that two tools can read, and a run of two turns refused.     *)
(***************************************************************************)
EXTENDS BusyPoll

CONSTANTS pr, view, checks

MCSubject == {pr}
MCRead == {view, checks}
MCAbout == [r \in MCRead |-> pr]
=============================================================================
