--------------------------- MODULE Postpone_proofs ---------------------------
(***************************************************************************)
(* Theorems about the postponement poll and the probe beside it, for any   *)
(* games, dates and window.                                                *)
(***************************************************************************)
EXTENDS Probe, TLAPS

\* What the poll sends a request for is a status that puts the game out of the window: the decision is
\* detect_postponement followed by should_unwind.
LEMMA RequestedIsBeyond ==
  ASSUME NEW s \in Slugs, NEW before, NEW cur \in Statuses,
         Detects(before, cur), ShouldUnwind(RescheduleInDays(s, cur))
  PROVE  Beyond(s, cur)
  <1>1. cur \in GameStatus /\ EventDay[s] \in Int /\ Window \in Nat /\ None \notin Int
    BY PostponeAssumption
  <1>2. CASE IsPostpone(cur)
    <2>1. CASE cur.state = "Cancelled" \/ cur.target = None
      BY <1>2, <2>1 DEF IsPostpone, Beyond
    <2>2. CASE ~ (cur.state = "Cancelled" \/ cur.target = None)
      <3>1. cur.target \in Int
        BY <1>1, <2>2 DEF GameStatus
      <3>2. RescheduleInDays(s, cur) = cur.target - EventDay[s]
        BY <1>2, <2>2 DEF RescheduleInDays
      <3>3. cur.target - EventDay[s] > Window
        BY <1>1, <3>1, <3>2 DEF ShouldUnwind
      <3> QED BY <1>1, <1>2, <3>1, <3>3 DEF IsPostpone, Beyond
    <2> QED BY <2>1, <2>2
  <1>3. CASE ~ IsPostpone(cur)
    <2>1. cur.official # None /\ cur.official \in Int
      BY <1>1, <1>3 DEF Detects, Slid, GameStatus
    <2>2. RescheduleInDays(s, cur) = cur.official - EventDay[s]
      BY <1>3 DEF RescheduleInDays
    <2>3. cur.official - EventDay[s] > Window
      BY <1>1, <2>1, <2>2 DEF ShouldUnwind
    <2> QED BY <1>1, <1>3, <2>1, <2>3 DEF IsPostpone, Beyond
  <1> QED BY <1>2, <1>3

(***************************************************************************)
(* Types                                                                   *)
(***************************************************************************)

\* Every variable keeps its type, and a slug's snapshot never outlives its legs.
THEOREM PostponeTypeCorrect == Spec => []PostponeTypeOK
  <1> USE DEF PostponeTypeOK
  <1>1. Init => PostponeTypeOK
    BY PostponeAssumption DEF Init
  <1>2. PostponeTypeOK /\ [Next]_vars => PostponeTypeOK'
    <2> SUFFICES ASSUME PostponeTypeOK, [Next]_vars PROVE PostponeTypeOK'
      OBVIOUS
    <2> USE PostponeAssumption
    <2>1. ASSUME NEW s \in Slugs, Announce(s) PROVE PostponeTypeOK'
      BY <2>1 DEF Announce, loopVars, pollVars
    <2>2. ASSUME NEW s \in Slugs, Lock(s) PROVE PostponeTypeOK'
      BY <2>2 DEF Lock, leagueVars, pollVars
    <2>3. ASSUME NEW s \in Slugs, Recover(s) \/ Recovered(s) PROVE PostponeTypeOK'
      <3>1. CASE Recover(s)
        BY <3>1 DEF Recover, leagueVars, pollVars
      <3>2. CASE Recovered(s)
        BY <3>2 DEF Recovered, leagueVars, pollVars
      <3> QED BY <2>3, <3>1, <3>2
    <2>4. ASSUME NEW s \in Slugs, Pull(s) PROVE PostponeTypeOK'
      BY <2>4 DEF Pull, leagueVars, loopVars
    <2>5. ASSUME NEW s \in Slugs, PullFails(s) PROVE PostponeTypeOK'
      BY <2>5 DEF PullFails, leagueVars, loopVars
    <2>6. ASSUME NEW s \in Slugs, Decide(s) PROVE PostponeTypeOK'
      <3>1. requests' \in Seq(Slugs)
        BY <2>6 DEF Decide
      <3> QED BY <2>6, <3>1 DEF Decide, leagueVars, loopVars
    <2>7. ASSUME NEW s \in Slugs, Store(s) PROVE PostponeTypeOK'
      BY <2>7 DEF Store, leagueVars, loopVars
    <2>8. ASSUME NEW s \in Slugs, SpawnUnwind(s) PROVE PostponeTypeOK'
      BY <2>8 DEF SpawnUnwind, leagueVars, pollVars
    <2>9. ASSUME NEW s \in Slugs, Unwound(s) PROVE PostponeTypeOK'
      <3>1. legs[s] \in Nat \ {0} /\ legs' = [legs EXCEPT ![s] = @ - 1] /\ legs' \in [Slugs -> Nat]
        BY <2>9 DEF Unwound
      <3>2. prev' \in [Slugs -> Statuses \cup {None}]
        BY <2>9 DEF Unwound
      <3>3. \A u \in Slugs : legs'[u] = 0 => prev'[u] = None
        BY <2>9, <3>1 DEF Unwound
      <3>4. /\ flattening' \in [Slugs -> {"none", "Unwind", "Recovery"}]
            /\ \A u \in Slugs : flattening'[u] = "Unwind" => legs'[u] > 0
        BY <2>9, <3>1 DEF Unwound
      <3> QED BY <2>9, <3>1, <3>2, <3>3, <3>4 DEF Unwound, leagueVars, pollVars
    <2>10. ASSUME NEW s \in Slugs, UnwindFails(s) PROVE PostponeTypeOK'
      BY <2>10 DEF UnwindFails, leagueVars, pollVars
    <2>11. ASSUME Wake PROVE PostponeTypeOK'
      BY <2>11 DEF Wake, leagueVars, loopVars
    <2>12. ASSUME DropRequest PROVE PostponeTypeOK'
      BY <2>12 DEF DropRequest, leagueVars, loopVars, pollVars
    <2>13. CASE UNCHANGED vars
      BY <2>13 DEF vars, leagueVars, loopVars, pollVars
    <2> QED BY <2>1, <2>2, <2>3, <2>4, <2>5, <2>6, <2>7, <2>8, <2>9, <2>10, <2>11, <2>12, <2>13
         DEF Next
  <1> QED BY <1>1, <1>2, PTL DEF Spec

(***************************************************************************)
(* NeverNeedless                                                           *)
(***************************************************************************)

\* A status in hand that puts its game out of the window, the league's or the one the poll has pulled,
\* is of a game that has been out of it.
MovedKnown ==
  \A s \in Slugs :
    /\ Beyond(s, game[s]) => s \in moved
    /\ sched[s] # None /\ Beyond(s, sched[s]) => s \in moved

\* Appending a slug that has moved keeps every request about one that has.
LEMMA AppendMoved ==
  ASSUME NEW q \in Seq(Slugs), NEW u \in Slugs, NEW M,
         u \in M, \A i \in DOMAIN q : q[i] \in M
  PROVE  \A i \in DOMAIN Append(q, u) : Append(q, u)[i] \in M
  OBVIOUS

LEMMA TailMoved ==
  ASSUME NEW q \in Seq(Slugs), q # <<>>, NEW M, \A i \in DOMAIN q : q[i] \in M
  PROVE  /\ Head(q) \in M
         /\ \A i \in DOMAIN Tail(q) : Tail(q)[i] \in M
  OBVIOUS

\* The same as NeverNeedless, by slug asked for instead of by slug spared.
LEMMA Needless ==
  ASSUME PostponeTypeOK
  PROVE  NeverNeedless <=> /\ \A s \in Slugs : flattening[s] = "Unwind" => s \in moved
                           /\ \A i \in DOMAIN requests : requests[i] \in moved
  BY DEF PostponeTypeOK, NeverNeedless

\* No held pair is asked to unwind, or unwound, whose game both venues would settle alike throughout.
THEOREM NeverNeedlessHolds == Spec => []NeverNeedless
  <1> DEFINE Inv == MovedKnown /\ NeverNeedless
  <1>1. ASSUME Init PROVE Inv
    BY <1>1 DEF Init, MovedKnown, NeverNeedless
  <1>2. ASSUME PostponeTypeOK, PostponeTypeOK', Inv, [Next]_vars PROVE Inv'
    <2> DEFINE Asked(q, M) == \A i \in DOMAIN q : q[i] \in M
               Sold(f, M) == \A s \in Slugs : f[s] = "Unwind" => s \in M
    <2> USE DEF PostponeTypeOK
    <2>1. Asked(requests, moved) /\ Sold(flattening, moved)
      BY <1>2, Needless
    <2>2. ASSUME Asked(requests, moved)', Sold(flattening, moved)' PROVE NeverNeedless'
      BY <1>2, <2>2 DEF NeverNeedless
    <2>3. ASSUME NEW s \in Slugs, Announce(s) PROVE Inv'
      <3>1. moved \subseteq moved' /\ flattening' = flattening /\ requests' = requests /\ sched' = sched
        BY <2>3 DEF Announce, loopVars, pollVars
      <3>2. MovedKnown'
        BY <1>2, <2>3, <3>1 DEF Announce, MovedKnown
      <3> QED BY <2>1, <2>2, <3>1, <3>2
    <2>4. ASSUME UNCHANGED <<leagueVars, sched>> PROVE MovedKnown'
      BY <1>2, <2>4 DEF MovedKnown, leagueVars
    <2>5. ASSUME NEW s \in Slugs, Lock(s) PROVE Inv'
      <3>1. UNCHANGED <<leagueVars, sched, flattening, requests>>
        BY <2>5 DEF Lock, pollVars
      <3> QED BY <2>1, <2>2, <2>4, <3>1 DEF leagueVars
    <2>6. ASSUME NEW s \in Slugs, Recover(s) \/ Recovered(s) \/ Unwound(s) \/ UnwindFails(s) PROVE Inv'
      <3>1. /\ UNCHANGED <<leagueVars, sched, requests>>
            /\ \A u \in Slugs : flattening'[u] = "Unwind" => flattening[u] = "Unwind"
        BY <1>2, <2>6 DEF Recover, Recovered, Unwound, UnwindFails, pollVars
      <3> QED BY <2>1, <2>2, <2>4, <3>1 DEF leagueVars
    <2>7. ASSUME NEW s \in Slugs, Pull(s) PROVE Inv'
      <3>1. /\ UNCHANGED <<leagueVars, flattening, requests>>
            /\ \A u \in Slugs : sched'[u] \in {sched[u], game[u]}
        BY <1>2, <2>7 DEF Pull, loopVars
      <3>2. MovedKnown'
        BY <1>2, <3>1 DEF MovedKnown, leagueVars
      <3> QED BY <2>1, <2>2, <3>1, <3>2 DEF leagueVars
    <2>8. ASSUME NEW s \in Slugs, PullFails(s) PROVE Inv'
      <3>1. UNCHANGED <<leagueVars, sched, flattening, requests>>
        BY <2>8 DEF PullFails, loopVars
      <3> QED BY <2>1, <2>2, <2>4, <3>1 DEF leagueVars
    <2>9. ASSUME NEW s \in Slugs, Decide(s) PROVE Inv'
      <3>1. UNCHANGED <<leagueVars, sched, flattening>>
        BY <2>9 DEF Decide, loopVars
      <3>2. Asked(requests', moved)
        <4>1. CASE /\ Detects(prev[s], sched[s])
                   /\ ShouldUnwind(RescheduleInDays(s, sched[s]))
          <5>1. sched[s] \in Statuses /\ requests' = Append(requests, s)
            BY <1>2, <2>9, <4>1 DEF Decide
          <5>2. s \in moved
            BY <1>2, <2>9, <4>1, <5>1, RequestedIsBeyond DEF Decide, MovedKnown
          <5> QED BY <1>2, <2>1, <5>1, <5>2, AppendMoved
        <4>2. CASE ~ (/\ Detects(prev[s], sched[s])
                      /\ ShouldUnwind(RescheduleInDays(s, sched[s])))
          BY <2>1, <2>9, <4>2 DEF Decide
        <4> QED BY <4>1, <4>2
      <3> QED BY <2>1, <2>2, <2>4, <3>1, <3>2 DEF leagueVars
    <2>10. ASSUME NEW s \in Slugs, Store(s) PROVE Inv'
      <3>1. /\ UNCHANGED <<leagueVars, flattening, requests>>
            /\ \A u \in Slugs : sched'[u] \in {sched[u], None}
        BY <1>2, <2>10 DEF Store, loopVars
      <3>2. MovedKnown'
        BY <1>2, <3>1 DEF MovedKnown, leagueVars
      <3> QED BY <2>1, <2>2, <3>1, <3>2 DEF leagueVars
    <2>11. ASSUME NEW s \in Slugs, SpawnUnwind(s) PROVE Inv'
      <3>1. /\ UNCHANGED <<leagueVars, sched>> /\ requests # <<>> /\ s = Head(requests)
            /\ requests' = Tail(requests) /\ flattening' = [flattening EXCEPT ![s] = "Unwind"]
        BY <2>11 DEF SpawnUnwind, pollVars
      <3>2. s \in moved /\ Asked(requests', moved)
        BY <1>2, <2>1, <3>1, TailMoved
      <3>3. Sold(flattening', moved)
        BY <1>2, <2>1, <3>1, <3>2
      <3> QED BY <2>2, <2>4, <3>1, <3>2, <3>3 DEF leagueVars
    <2>12. ASSUME Wake PROVE Inv'
      <3>1. UNCHANGED <<leagueVars, sched, flattening, requests>>
        BY <2>12 DEF Wake, loopVars
      <3> QED BY <2>1, <2>2, <2>4, <3>1 DEF leagueVars
    <2>13. ASSUME DropRequest PROVE Inv'
      <3>1. UNCHANGED <<leagueVars, sched, flattening>> /\ requests # <<>> /\ requests' = Tail(requests)
        BY <2>13 DEF DropRequest, loopVars, pollVars
      <3>2. Asked(requests', moved)
        BY <1>2, <2>1, <3>1, TailMoved
      <3> QED BY <2>1, <2>2, <2>4, <3>1, <3>2 DEF leagueVars
    <2>14. CASE UNCHANGED vars
      <3>1. UNCHANGED <<leagueVars, sched, flattening, requests>>
        BY <2>14 DEF vars, loopVars, pollVars
      <3> QED BY <2>1, <2>2, <2>4, <3>1 DEF leagueVars
    <2> HIDE DEF Inv
    <2> QED BY <1>2, <2>3, <2>5, <2>6, <2>7, <2>8, <2>9, <2>10, <2>11, <2>12, <2>13, <2>14 DEF Next
  <1> QED BY <1>1, <1>2, PostponeTypeCorrect, PTL DEF Spec

(***************************************************************************)
(* The probe                                                               *)
(***************************************************************************)

\* A status makes a snapshot, with the day of the slug as the day of the game.
LEMMA SnapFields ==
  ASSUME NEW s \in Slugs, NEW status \in Statuses
  PROVE  /\ SnapOf(s, status) = Snap(s, status) /\ Snap(s, status) # None
         /\ Snap(s, status).state = status.state /\ Snap(s, status).officialDate = status.official
         /\ Snap(s, status).gameDate = EventDay[s] /\ Snap(s, status).target = status.target
  BY PostponeAssumption, ProbeAssumption DEF SnapOf, Snap, GameStatus

\* A gap is measured from the day in the slug, whether that day is given or taken from the game's own date.
LEMMA OriginalIsTheDay ==
  ASSUME NEW s \in Slugs, NEW before \in Statuses \cup {None}, NEW cur \in Statuses, NEW given \in {None, EventDay[s]}
  PROVE  Original(SnapOf(s, before), Snap(s, cur), given) = EventDay[s]
  <1>1. EventDay[s] # None
    BY PostponeAssumption
  <1>2. CASE given = None /\ before = None
    BY <1>2, SnapFields DEF Original, SnapOf
  <1>3. CASE given = None /\ before # None
    BY <1>3, SnapFields DEF Original
  <1>4. CASE given = EventDay[s]
    BY <1>1, <1>4 DEF Original
  <1> QED BY <1>2, <1>3, <1>4

\* The trigger of the probe on two snapshots is the decision of the poll on the two statuses they were made of.
LEMMA TriggerDecides ==
  ASSUME NEW s \in Slugs, NEW before \in Statuses \cup {None}, NEW cur \in Statuses, NEW given \in {None, EventDay[s]}
  PROVE  Trigger(SnapOf(s, before), Snap(s, cur), given) = "UNWIND"
           <=> Detects(before, cur) /\ ShouldUnwind(RescheduleInDays(s, cur))
  <1> DEFINE day == EventDay[s]
             snap == Snap(s, cur)
             last == SnapOf(s, before)
  <1>1. /\ Original(last, snap, given) = day /\ day \in Int /\ Window \in Nat /\ None \notin Int
        /\ snap.state = cur.state /\ snap.officialDate = cur.official /\ snap.target = cur.target
        /\ cur.official \in Int \cup {None} /\ cur.target \in Int \cup {None}
    BY OriginalIsTheDay, SnapFields, PostponeAssumption DEF GameStatus
  <1>2. /\ before = None <=> last = None
        /\ before # None => last.officialDate = before.official
    <2>1. CASE before = None
      BY <2>1 DEF SnapOf
    <2>2. CASE before # None
      BY <2>2, SnapFields
    <2> QED BY <2>1, <2>2
  <1>3. None # "UNWIND"
    BY ProbeAssumption
  <1> HIDE DEF day, snap, last
  <1>4. CASE cur.state = "Normal"
    <2>1. CASE Slid(before, cur)
      <3>1. last # None /\ None \notin {last.officialDate, snap.officialDate}
            /\ last.officialDate # snap.officialDate /\ cur.official \in Int
        BY <1>1, <1>2, <2>1 DEF Slid
      <3>2. Trigger(last, snap, given) = IF Far(day, cur.official) THEN "UNWIND" ELSE "WATCH"
        BY <1>1, <1>4, <3>1 DEF Trigger
      <3>3. RescheduleInDays(s, cur) = cur.official - day
        BY <1>4 DEF RescheduleInDays, IsPostpone, day
      <3>4. Far(day, cur.official) <=> ShouldUnwind(cur.official - day)
        BY <1>1, <3>1 DEF Far, ShouldUnwind
      <3> QED BY <2>1, <3>2, <3>3, <3>4 DEF Detects, last, snap
    <2>2. CASE ~ Slid(before, cur)
      <3>1. last = None \/ None \in {last.officialDate, snap.officialDate} \/ last.officialDate = snap.officialDate
        BY <1>1, <1>2, <2>2 DEF Slid
      <3>2. Trigger(last, snap, given) = None
        BY <1>1, <1>4, <3>1 DEF Trigger
      <3> QED BY <1>3, <1>4, <2>2, <3>2 DEF Detects, IsPostpone, last, snap
    <2> QED BY <2>1, <2>2
  <1>5. CASE cur.state # "Normal"
    <2>1. Detects(before, cur) /\ IsPostpone(cur)
      BY <1>5 DEF Detects, IsPostpone
    <2>2. CASE cur.state = "Cancelled" \/ cur.target = None
      <3>1. Trigger(last, snap, given) = "UNWIND"
        BY <1>1, <1>5, <2>2 DEF Trigger
      <3>2. RescheduleInDays(s, cur) = None
        BY <2>1, <2>2 DEF RescheduleInDays
      <3> QED BY <2>1, <3>1, <3>2 DEF ShouldUnwind, last, snap
    <2>3. CASE ~ (cur.state = "Cancelled" \/ cur.target = None)
      <3>1. Trigger(last, snap, given) = IF Far(day, cur.target) THEN "UNWIND" ELSE "WATCH"
        BY <1>1, <1>5, <2>3 DEF Trigger
      <3>2. RescheduleInDays(s, cur) = cur.target - day
        BY <2>1, <2>3 DEF RescheduleInDays, day
      <3>3. Far(day, cur.target) <=> ShouldUnwind(cur.target - day)
        BY <1>1, <2>3 DEF Far, ShouldUnwind
      <3> QED BY <2>1, <3>1, <3>2, <3>3 DEF last, snap
    <2> QED BY <2>2, <2>3
  <1> QED BY <1>4, <1>5

\* A status that puts the game off, or away, is UNWIND to the probe at first sight exactly when it is beyond the window.
LEMMA FirstSight ==
  ASSUME NEW s \in Slugs, NEW status \in Statuses, status.state # "Normal"
  PROVE  Trigger(None, Snap(s, status), EventDay[s]) = "UNWIND" <=> Beyond(s, status)
  <1>1. Trigger(None, Snap(s, status), EventDay[s]) = "UNWIND" <=> ShouldUnwind(RescheduleInDays(s, status))
    BY TriggerDecides DEF Detects, IsPostpone, SnapOf
  <1>2. /\ status.target \in Int \cup {None} /\ EventDay[s] \in Int /\ Window \in Nat /\ None \notin Int
    BY PostponeAssumption DEF GameStatus
  <1>3. ShouldUnwind(RescheduleInDays(s, status)) <=> Beyond(s, status)
    <2>1. CASE status.state = "Cancelled" \/ status.target = None
      BY <2>1 DEF ShouldUnwind, RescheduleInDays, IsPostpone, Beyond
    <2>2. CASE ~ (status.state = "Cancelled" \/ status.target = None)
      BY <1>2, <2>2 DEF ShouldUnwind, RescheduleInDays, IsPostpone, Beyond
    <2> QED BY <2>1, <2>2
  <1> QED BY <1>1, <1>3

\* For any dates and window, the poll of the bot sends a request exactly when the probe's trigger says UNWIND on the
\* same two snapshots, and the probe's scan of a schedule is what the league has announced.
THEOREM ProbeAlwaysAgrees == Spec => ProbeAgrees
  <1>1. PostponeTypeOK => PollIsTheProbe
    <2> SUFFICES ASSUME PostponeTypeOK, NEW s \in Slugs, NEW given \in {None, EventDay[s]}, Decide(s)
                 PROVE  Trigger(SnapOf(s, prev[s]), Snap(s, sched[s]), given) = "UNWIND" <=> requests' # requests
      BY DEF PollIsTheProbe
    <2>1. prev[s] \in Statuses \cup {None} /\ sched[s] \in Statuses /\ requests \in Seq(Slugs)
      BY DEF PostponeTypeOK, Decide
    <2>2. Append(requests, s) # requests
      <3>1. Len(Append(requests, s)) = Len(requests) + 1 /\ Len(requests) \in Nat
        BY <2>1
      <3> QED BY <3>1
    <2>3. requests' # requests <=> Detects(prev[s], sched[s]) /\ ShouldUnwind(RescheduleInDays(s, sched[s]))
      BY <2>2 DEF Decide
    <2> QED BY <2>1, <2>3, TriggerDecides
  <1>2. PostponeTypeOK => ScanIsTheAnnouncement
    <2> SUFFICES ASSUME PostponeTypeOK, NEW s \in Slugs
                 PROVE  Announced(s) <=> s \in Found /\ Scan[s] = "UNWIND"
      BY DEF ScanIsTheAnnouncement
    <2>1. game[s] \in Statuses
      BY DEF PostponeTypeOK
    <2>2. CASE game[s].state = "Normal"
      BY <2>2 DEF Announced, IsPostpone, Found
    <2>3. CASE game[s].state # "Normal"
      <3>1. s \in Found /\ Scan[s] = Trigger(None, Snap(s, game[s]), EventDay[s])
        BY <2>3 DEF Found, Scan
      <3> QED BY <2>1, <2>3, <3>1, FirstSight DEF Announced, IsPostpone
    <2> QED BY <2>2, <2>3
  <1> QED BY <1>1, <1>2, PostponeTypeCorrect, PTL DEF ProbeAgrees
=============================================================================
