---------------------------- MODULE MCHookDispatch ----------------------------
(***************************************************************************)
(* The dispatcher with the guards of the table, every subset of them that  *)
(* --only can leave on for the payload's event.                            *)
(***************************************************************************)
EXTENDS HookDispatch, GuardTable

CONSTANT none

\* Which of the guards that do not serve the event are on makes no difference.
MCInit == DispatchInit /\ \A g \in running : call.event \in Serves[g]
MCSpec == MCInit /\ [][DispatchNext]_dispatchVars

ClockGuard == "twelve-hour"
WorkGuard == "no-work-loss"
=============================================================================
