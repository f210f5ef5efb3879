----------------------------- MODULE MCPostpone -----------------------------
(***************************************************************************)
(* Small values for the constants of Postpone.                             *)
(***************************************************************************)
EXTENDS Probe

St(state, official, target) == [state |-> state, official |-> official, target |-> target]

\* Every game is dated day 0, and the window is one day.
DayZero == [s \in Slugs |-> 0]

OnTime == St("Normal", 0, None)

\* A slide by a day and by two, a makeup in and past the window or with no date, a cancellation.
SevenStatuses ==
  {OnTime, St("Normal", 1, None), St("Normal", 2, None),
   St("Postponed", 1, 1), St("Postponed", 2, 2), St("Suspended", 0, None),
   St("Cancelled", 0, 1)}

\* Only a slide.
Slides == {OnTime, St("Normal", 2, None)}
=============================================================================
