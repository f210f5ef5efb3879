------------------------------- MODULE Probe -------------------------------
(***************************************************************************)
(* The detector of postponements as the research probe has it              *)
(* (src/scripts/probe_mlb_postpone.py), beside the poll of the bot that    *)
(* was written after it.                                                   *)
(***************************************************************************)
EXTENDS Postpone

\* An absent snapshot is no snapshot, and says nothing.
ASSUME ProbeAssumption ==
  /\ None \notin {"UNWIND", "WATCH"}
  /\ None \notin [state : {"Normal", "Postponed", "Suspended", "Cancelled"}, officialDate : Int \cup {None},
                  gameDate : Int, target : Int \cup {None}]

\* snap: what the detector keeps of an entry of the schedule.  A postponed game's officialDate moves to the makeup
\* date, its gameDate stays: the day in the slug.
Snap(s, status) == [state |-> status.state, officialDate |-> status.official, gameDate |-> EventDay[s],
                    target |-> status.target]

\* The day a gap is measured from: of the pair if it is given, else of the first snapshot there is.
Original(prev0, cur, eventDay) ==
  IF eventDay # None THEN eventDay ELSE IF prev0 # None THEN prev0.gameDate ELSE cur.gameDate

Far(from, to) == to - from > Window

\* Mutant of Trigger: the gap is measured from the official date, which has moved with the game.
BugTrigger(prev0, cur, eventDay) ==
  IF cur.state = "Normal"
  THEN IF prev0 = None \/ None \in {prev0.officialDate, cur.officialDate} \/ prev0.officialDate = cur.officialDate
       THEN None
       ELSE IF Far(prev0.officialDate, cur.officialDate) THEN "UNWIND" ELSE "WATCH"
  ELSE IF cur.state = "Cancelled" \/ cur.target = None \/ Far(cur.officialDate, cur.target) THEN "UNWIND" ELSE "WATCH"

\* unwind_trigger
Trigger(prev0, cur, eventDay) ==
  LET orig == Original(prev0, cur, eventDay)
  IN  IF cur.state = "Normal"
      THEN IF prev0 = None \/ None \in {prev0.officialDate, cur.officialDate} \/ prev0.officialDate = cur.officialDate
           THEN None
           ELSE IF Far(orig, cur.officialDate) THEN "UNWIND" ELSE "WATCH"
      ELSE IF cur.state = "Cancelled" \/ cur.target = None \/ Far(orig, cur.target) THEN "UNWIND" ELSE "WATCH"

\* scan: the games that are off, each with what the trigger says of it at first sight, from the day it was found under.
Found == {s \in Slugs : game[s].state # "Normal"}
Scan  == [s \in Found |-> Trigger(None, Snap(s, game[s]), EventDay[s])]

(***************************************************************************)
(* Properties                                                              *)
(***************************************************************************)
SnapOf(s, status) == IF status = None THEN None ELSE Snap(s, status)

\* The bot asks to unwind a held pair exactly when the probe's trigger, on the two snapshots the poll compares, says
\* UNWIND, with the day of the pair given to it or taken from the game's own date (postpone.rs says it is the port of
\* unwind_trigger).
PollIsTheProbe ==
  \A s \in Slugs : \A given \in {None, EventDay[s]} :
    Decide(s) => (Trigger(SnapOf(s, prev[s]), Snap(s, sched[s]), given) = "UNWIND" <=> requests' # requests)

\* What the scan shows as UNWIND is what the league has announced as not surely played within the window, and what it
\* shows as WATCH both venues settle on the replay.
ScanIsTheAnnouncement == \A s \in Slugs : Announced(s) <=> s \in Found /\ Scan[s] = "UNWIND"

\* The two detectors agree with the poll and with the league, in every step.
ProbeAgrees == [][PollIsTheProbe /\ ScanIsTheAnnouncement']_vars
=============================================================================
