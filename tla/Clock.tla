------------------------------- MODULE Clock -------------------------------
(***************************************************************************)
(* time.time() of the dashboard process, in the unit of the component that *)
(* reads it.  MaxTime bounds it.                                           *)
(***************************************************************************)
EXTENDS Naturals

CONSTANT MaxTime

ASSUME ClockAssumption == MaxTime \in Nat

VARIABLE now

Passes == now < MaxTime /\ now' = now + 1
=============================================================================
