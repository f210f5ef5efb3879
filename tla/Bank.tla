-------------------------------- MODULE Bank --------------------------------
(***************************************************************************)
(* What every walk of a bankroll promises: money is free or locked, what   *)
(* is locked comes back with what it earned, and nothing is lent that is   *)
(* not there.                                                              *)
(***************************************************************************)
EXTENDS Integers

CONSTANT Total
VARIABLES free, locked, earned

Init == free = Total /\ locked = 0 /\ earned = 0

Move ==
  /\ locked' >= 0 /\ earned' >= earned
  /\ free' = free + (locked - locked') + (earned' - earned)
  /\ free' >= 0

Spec == Init /\ [][Move]_<<free, locked, earned>>
=============================================================================
