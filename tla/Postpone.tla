------------------------------ MODULE Postpone ------------------------------
(***************************************************************************)
(* The postponement poll (postpone.rs), the unwind rule (unwind.rs) and    *)
(* the loop's answer to the poll's requests.  The league reschedules games *)
(* at any time; the poll looks at the schedule now and then, remembers     *)
(* what it saw last, and asks the loop to unwind, one leg per request.     *)
(*                                                                         *)
(* The slugs are games the poll has a source for.  A date is a day number. *)
(***************************************************************************)
EXTENDS Integers, Sequences, SequencesExt

CONSTANTS
  Slugs,
  Statuses,      \* what the league may say of a game
  Scheduled,     \* what it says at first
  EventDay,      \* the day in each slug
  Window,        \* kalshi_void_window_days
  None,          \* an absent date, snapshot or slug
  MaxChanges,    \* bound on what the league announces
  MaxEntries,    \* bound on the entries that fill or are recovered
  MaxRequests    \* bound on the requests waiting when a poll starts

\* GameStatus; target is the resume date of a suspended game, else the reschedule date.
GameStatus ==
  [state : {"Normal", "Postponed", "Suspended", "Cancelled"},
   official : Int \cup {None}, target : Int \cup {None}]

ASSUME PostponeAssumption ==
  /\ Statuses \subseteq GameStatus /\ Scheduled \in Statuses
  /\ EventDay \in [Slugs -> Int] /\ Window \in Nat
  /\ None \notin Slugs /\ None \notin GameStatus /\ None \notin Int
  /\ MaxChanges \in Nat /\ MaxEntries \in Nat /\ MaxRequests \in Nat \ {0}

VARIABLES
  game,         \* what the league says of each game now
  changes,
  legs,         \* how many legs are held of each slug
  prev,         \* SlugPositions.prev: what the poll saw last, while the slug is held
  entries,
  flattening,
  requests,     \* the UnwindRequest channel
  pulls,        \* the slugs whose schedule this cycle has still to pull
  sched,        \* the statuses this cycle has pulled and not dealt with
  storing,      \* the slug dealt with whose snapshot is not stored yet
  moved         \* the games that were at some time not to be settled within the window

leagueVars == <<game, changes, moved>>
loopVars == <<legs, entries, flattening>>
pollVars == <<pulls, sched, storing>>
vars == <<leagueVars, loopVars, prev, requests, pollVars>>

\* Every variable has its type; the snapshot of a slug lives as long as its legs, and an unwind in
\* flight still has its leg (bookkeeping.rs 278-280).
PostponeTypeOK ==
  /\ game \in [Slugs -> Statuses] /\ changes \in Nat /\ moved \subseteq Slugs
  /\ legs \in [Slugs -> Nat] /\ entries \in Nat
  /\ prev \in [Slugs -> Statuses \cup {None}]
  /\ \A s \in Slugs : legs[s] = 0 => prev[s] = None
  /\ flattening \in [Slugs -> {"none", "Unwind", "Recovery"}]
  /\ \A s \in Slugs : flattening[s] = "Unwind" => legs[s] > 0
  /\ requests \in Seq(Slugs)
  /\ pulls \subseteq Slugs
  /\ sched \in [Slugs -> Statuses \cup {None}]
  /\ storing \in Slugs \cup {None}
  /\ storing # None => sched[storing] # None

\* The game is not, or not surely, played within the window.
Beyond(s, status) ==
  IF status.state = "Normal"
  THEN status.official # None /\ status.official > EventDay[s] + Window
  ELSE \/ status.state = "Cancelled" \/ status.target = None
       \/ status.target > EventDay[s] + Window

Init ==
  /\ game = [s \in Slugs |-> Scheduled] /\ changes = 0
  /\ moved = {s \in Slugs : Beyond(s, Scheduled)}
  /\ legs = [s \in Slugs |-> 0] /\ prev = [s \in Slugs |-> None] /\ entries = 0
  /\ flattening = [s \in Slugs |-> "none"]
  /\ requests = <<>>
  /\ pulls = {} /\ sched = [s \in Slugs |-> None] /\ storing = None

(***************************************************************************)
(* detect_postponement and should_unwind                                   *)
(***************************************************************************)

IsPostpone(cur) == cur.state # "Normal"

\* officialDate moved without a status flip.
Slid(before, cur) ==
  /\ before # None
  /\ before.official # None /\ cur.official # None
  /\ before.official # cur.official

Detects(before, cur) == IsPostpone(cur) \/ Slid(before, cur)

\* Mutant of RescheduleInDays: the gap is measured from the official date, which moves with the game.
BugRescheduleInDays(s, cur) ==
  IF ~ IsPostpone(cur) THEN cur.official - EventDay[s]
  ELSE IF cur.state = "Cancelled" \/ cur.target = None THEN None
  ELSE cur.target - (IF cur.official = None THEN EventDay[s] ELSE cur.official)

\* The days from the slug's own date to the makeup; None when there is none to confirm.
RescheduleInDays(s, cur) ==
  IF ~ IsPostpone(cur) THEN cur.official - EventDay[s]
  ELSE IF cur.state = "Cancelled" \/ cur.target = None THEN None
  ELSE cur.target - EventDay[s]

\* Mutant of ShouldUnwind: a makeup on the last day of the window is not trusted.
BugShouldUnwind(days) == days = None \/ days >= Window

ShouldUnwind(days) == days = None \/ days > Window

(***************************************************************************)
(* The league, and the loop's entries                                      *)
(***************************************************************************)

Announce(s) ==
  /\ changes < MaxChanges
  /\ \E status \in Statuses \ {game[s]} :
       /\ game' = [game EXCEPT ![s] = status]
       /\ moved' = IF Beyond(s, status) THEN moved \cup {s} ELSE moved
  /\ changes' = changes + 1
  /\ UNCHANGED <<loopVars, prev, requests, pollVars>>

\* An entry locks: one more leg, and at the first a record without a snapshot.  No recovery runs then.
Lock(s) ==
  /\ entries < MaxEntries
  /\ flattening[s] # "Recovery"
  /\ entries' = entries + 1
  /\ legs' = [legs EXCEPT ![s] = @ + 1]
  /\ UNCHANGED <<leagueVars, prev, flattening, requests, pollVars>>

\* An entry is naked, and its recovery takes the flatten slot until it is answered.
Recover(s) ==
  /\ entries < MaxEntries
  /\ entries' = entries + 1
  /\ flattening[s] = "none"
  /\ flattening' = [flattening EXCEPT ![s] = "Recovery"]
  /\ UNCHANGED <<leagueVars, legs, prev, requests, pollVars>>

Recovered(s) ==
  /\ flattening[s] = "Recovery"
  /\ flattening' = [flattening EXCEPT ![s] = "none"]
  /\ UNCHANGED <<leagueVars, legs, entries, prev, requests, pollVars>>

(***************************************************************************)
(* The poll                                                                *)
(***************************************************************************)

\* A cycle starts from the slugs held then.  Without teams, or with nothing held, it ends at once.
Wake ==
  /\ pulls = {} /\ \A s \in Slugs : sched[s] = None
  /\ Len(requests) < MaxRequests
  /\ pulls' = {s \in Slugs : legs[s] > 0}
  /\ UNCHANGED <<leagueVars, loopVars, prev, requests, sched, storing>>

\* The schedule of the slug's date arrives, with the game on it.  (The code pulls a date once for all its
\* slugs: a cycle in which these pulls see the same league.)
Pull(s) ==
  /\ s \in pulls
  /\ pulls' = pulls \ {s}
  /\ sched' = [sched EXCEPT ![s] = game[s]]
  /\ UNCHANGED <<leagueVars, loopVars, prev, requests, storing>>

\* The pull fails, or the game is not found: the slug is skipped this cycle.
PullFails(s) ==
  /\ s \in pulls
  /\ pulls' = pulls \ {s}
  /\ UNCHANGED <<leagueVars, loopVars, prev, requests, sched, storing>>

\* When all is pulled, each status is held against the last one seen, and may send a request.
Decide(s) ==
  /\ pulls = {} /\ storing = None
  /\ sched[s] # None
  /\ requests' = IF /\ Detects(prev[s], sched[s])
                    /\ ShouldUnwind(RescheduleInDays(s, sched[s]))
                 THEN Append(requests, s) ELSE requests
  /\ storing' = s
  /\ UNCHANGED <<leagueVars, loopVars, prev, pulls, sched>>

\* The snapshot is stored, if the slug is still held.
Store(s) ==
  /\ storing = s
  /\ prev' = IF legs[s] > 0 THEN [prev EXCEPT ![s] = sched[s]] ELSE prev
  /\ sched' = [sched EXCEPT ![s] = None]
  /\ storing' = None
  /\ UNCHANGED <<leagueVars, loopVars, requests, pulls>>

(***************************************************************************)
(* The loop's answer to a request                                          *)
(***************************************************************************)

\* spawn_unwind: the front leg is sold if the slot is free and both its books have a bid.
SpawnUnwind(s) ==
  /\ requests # <<>> /\ Head(requests) = s
  /\ requests' = Tail(requests)
  /\ flattening[s] = "none" /\ legs[s] > 0
  /\ flattening' = [flattening EXCEPT ![s] = "Unwind"]
  /\ UNCHANGED <<leagueVars, legs, entries, prev, pollVars>>

\* Else the request is forgotten; a one-sided book can do that to any.
DropRequest ==
  /\ requests # <<>>
  /\ requests' = Tail(requests)
  /\ UNCHANGED <<leagueVars, loopVars, prev, pollVars>>

\* Both orders filled: the front leg is gone, with the last leg the record and its snapshot.
Unwound(s) ==
  /\ flattening[s] = "Unwind"
  /\ flattening' = [flattening EXCEPT ![s] = "none"]
  /\ legs' = [legs EXCEPT ![s] = @ - 1]
  /\ prev' = IF legs'[s] = 0 THEN [prev EXCEPT ![s] = None] ELSE prev
  /\ UNCHANGED <<leagueVars, entries, requests, pollVars>>

\* Not both filled: the leg is kept, and the poll is to ask again.
UnwindFails(s) ==
  /\ flattening[s] = "Unwind"
  /\ flattening' = [flattening EXCEPT ![s] = "none"]
  /\ UNCHANGED <<leagueVars, legs, entries, prev, requests, pollVars>>

(***************************************************************************)
(* The specification                                                       *)
(***************************************************************************)

Next ==
  \/ \E s \in Slugs :
       \/ Announce(s) \/ Lock(s) \/ Recover(s) \/ Recovered(s)
       \/ Pull(s) \/ PullFails(s) \/ Decide(s) \/ Store(s)
       \/ SpawnUnwind(s) \/ Unwound(s) \/ UnwindFails(s)
  \/ Wake \/ DropRequest

Spec == Init /\ [][Next]_vars

(***************************************************************************)
(* The poll and the loop keep running and every order is answered.  A      *)
(* schedule that is pulled again and again arrives in the end, and so do   *)
(* two bids when an unwind is asked for again and again, and its fills.    *)
(***************************************************************************)
Fairness ==
  /\ WF_vars(Wake) /\ WF_vars(DropRequest)
  /\ \A s \in Slugs :
       /\ WF_vars(Pull(s) \/ PullFails(s)) /\ SF_vars(Pull(s))
       /\ WF_vars(Decide(s)) /\ WF_vars(Store(s))
       /\ SF_vars(SpawnUnwind(s))
       /\ WF_vars(Unwound(s) \/ UnwindFails(s)) /\ SF_vars(Unwound(s))
       /\ WF_vars(Recovered(s))

FairSpec == Spec /\ Fairness

(***************************************************************************)
(* Properties                                                              *)
(***************************************************************************)

\* A held pair is asked to unwind, and unwound, only if its game was at some time out of the window:
\* the poll never sells a pair that both venues will settle on the same result (unwind.rs 24-26).
NeverNeedless ==
  \A s \in Slugs \ moved :
    /\ flattening[s] # "Unwind"
    /\ \A i \in DOMAIN requests : requests[i] # s

Announced(s) == IsPostpone(game[s]) /\ Beyond(s, game[s])

\* While the league announces a game as off, or as made up too late, the poll keeps asking and every leg
\* held on it is sold, whatever pulls failed, requests were dropped and legs were added on the way.
AnnouncedUnwinds ==
  \A s \in Slugs : legs[s] > 0 /\ Announced(s) ~> legs[s] = 0 \/ ~ Announced(s)

\* "the poll's per-cycle re-emit picks up the next leg over later cycles [...] EVERY leg on the slug must
\* eventually flatten" (bookkeeping.rs 783-785): what was asked for once is asked for until it is done.
ReemitsUntilFlat ==
  \A s \in Slugs :
    (\E i \in DOMAIN requests : requests[i] = s) /\ legs[s] > 0 /\ Beyond(s, game[s])
      ~> legs[s] = 0 \/ ~ Beyond(s, game[s])
=============================================================================
