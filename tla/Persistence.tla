----------------------------- MODULE Persistence -----------------------------
(***************************************************************************)
(* What the research scripts read out of the log that Episodes writes: the *)
(* edge episodes (analyze_persistence.py), what a fill some time after the *)
(* open would have met (shadow_fill.py, ev_at_latency.py), which side      *)
(* moved (adverse_selection.py), and the flips and adds of a position that *)
(* is held (flip_add_backtest.py).                                         *)
(***************************************************************************)
EXTENDS Episodes, SequencesExt, FiniteSets, TLC

CONSTANTS
  EdgeMin,   \* the least edge of the cohort
  Latencies, \* the latencies swept, in ticks
  TauGain,   \* what a flip or an add has to be better by
  SettleIn   \* settle_t: a position is held this long

ASSUME PersistenceAssumption ==
  /\ EdgeMin \in Nat /\ Latencies \subseteq Nat /\ TauGain \in Nat /\ SettleIn \in Nat
  /\ IsFiniteSet(Markets)
  /\ None \notin [open_t : Nat, open_net : Int, open_c2 : Nat, dir : Dirs, peak : Int]

(***************************************************************************)
(* Episodes                                                                *)
(***************************************************************************)

\* load and the merge of build_episodes: records and markers by time, a marker before a record of its time.
Event(t, order, label, i) == [t |-> t, order |-> order, label |-> label, i |-> i]

Events(m) == {Event(markers[i], 0, "MARK", i) : i \in DOMAIN markers}
             \cup {Event(log[m][i].t, 1, log[m][i].label, i) : i \in DOMAIN log[m]}

Earlier(a, b) ==
  \/ a.t < b.t
  \/ a.t = b.t /\ a.order < b.order
  \/ a.t = b.t /\ a.order = b.order /\ a.i < b.i

\* The sort is stable: an event comes behind all that are earlier.
Timeline(m) ==
  LET events == Events(m)
      places == {<<1 + Cardinality({f \in events : Earlier(f, e)}), e>> : e \in events}
  IN  [n \in 1..Cardinality(events) |-> (CHOOSE p \in places : p[1] = n)[2]]

OpenedBy(rec) ==
  [open_t |-> rec.t, open_net |-> rec.net, open_c2 |-> rec.px.c2, dir |-> rec.dir, peak |-> rec.net]

\* A continuation raises the peak; a flip turns the episode's direction.
Continued(open, rec) ==
  [open_t |-> open.open_t, open_net |-> open.open_net, open_c2 |-> open.open_c2,
   dir |-> IF rec.label = "FLIP" THEN rec.dir ELSE open.dir,
   peak |-> IF rec.net > open.peak THEN rec.net ELSE open.peak]

Closed(m, open, t, why) ==
  [market |-> m, open_t |-> open.open_t, open_net |-> open.open_net, open_c2 |-> open.open_c2, dir |-> open.dir,
   peak |-> open.peak, close_t |-> t, censored |-> why]

\* What is open ends.
Closing(m, acc, t, why) == [open |-> None, done |-> acc.done \cup {Closed(m, acc.open, t, why)}]

\* Mutant of Step: a marker does not end an episode.
BugStep(m, acc, e) ==
  IF e.label = "MARK" THEN acc
  ELSE IF e.label = "OPEN" THEN IF acc.open = None THEN [open |-> OpenedBy(log[m][e.i]), done |-> acc.done] ELSE acc
  ELSE IF acc.open = None THEN acc
  ELSE IF e.label = "CLOSE" THEN Closing(m, acc, e.t, "none")
  ELSE [open |-> Continued(acc.open, log[m][e.i]), done |-> acc.done]

\* One event: a marker ends what is open, an opening of what is open goes on with it, and all else is
\* ignored while nothing is open.
Step(m, acc, e) ==
  IF e.label = "OPEN" THEN IF acc.open = None THEN [open |-> OpenedBy(log[m][e.i]), done |-> acc.done] ELSE acc
  ELSE IF acc.open = None THEN acc
  ELSE IF e.label = "MARK" THEN Closing(m, acc, e.t, "restart")
  ELSE IF e.label = "CLOSE" THEN Closing(m, acc, e.t, "none")
  ELSE [open |-> Continued(acc.open, log[m][e.i]), done |-> acc.done]

\* records[-1]["t"]: the last record of any market.
LastT == LET T == UNION {{log[m][i].t : i \in DOMAIN log[m]} : m \in Markets}
         IN  CHOOSE t \in T : \A u \in T : u <= t

\* build_episodes: the episodes that end, and the one that is open at the end of the data.
EpisodesOf(m) ==
  LET events == Timeline(m)
      after[n \in 0..Len(events)] ==
        IF n = 0 THEN [open |-> None, done |-> {}] ELSE Step(m, after[n - 1], events[n])
      acc == after[Len(events)]
  IN  IF acc.open = None THEN acc.done ELSE Closing(m, acc, LastT, "eod").done

\* capital_sim.capturable, with its default gates: big and deep enough, and not cut off by a restart.
Capturable(eps) ==
  {e \in eps : e.open_net >= EdgeMin /\ e.open_c2 >= 1 /\ e.censored # "restart"}

\* one_per_market: the earliest capturable episode is the position that is entered and held.
Filled(m) == LET cap == Capturable(EpisodesOf(m)) IN {e \in cap : \A f \in cap : e.open_t <= f.open_t}

(***************************************************************************)
(* A fill after some latency                                               *)
(***************************************************************************)

Continuations == {"WIDEN", "NARROW", "FLIP"}

\* build_trajectories: the continuations of an episode, after its opening and up to its close.  _find takes
\* the first episode that contains the record.
OwnedBy(m, eps, e, i) ==
  LET t == log[m][i].t IN
    /\ log[m][i].label \in Continuations /\ e.open_t < t /\ t <= e.close_t
    /\ \A f \in eps : f.open_t <= t /\ t <= f.close_t => e.open_t <= f.open_t

Trajectory(m, eps, e) == {i \in DOMAIN log[m] : OwnedBy(m, eps, e, i)}

FlipTimes(e) == {log[e.market][i].t : i \in {j \in e.traj : log[e.market][j].label = "FLIP"}}

\* edge_at: the net of the latest step of the trajectory.
EdgeAt(e, x) ==
  LET past == {i \in e.traj : log[e.market][i].t <= x}
  IN  IF past = {} THEN e.open_net ELSE log[e.market][CHOOSE i \in past : \A j \in past : j <= i].net

\* outcome, and the loop of shadow_fill: the edge died, or turned, before both legs landed; else it survives
\* with the net then in force.
Outcome(e, L) ==
  IF e.open_t + L >= e.close_t \/ \E f \in FlipTimes(e) : f <= e.open_t + L THEN "one"
  ELSE IF EdgeAt(e, e.open_t + L) > 0 THEN "both" ELSE "neither"

(***************************************************************************)
(* Which side moved                                                        *)
(***************************************************************************)

LatestOpenBefore(m, i) ==
  LET opens == {j \in 1..(i - 1) : log[m][j].label = "OPEN"}
  IN  IF opens = {} THEN 0 ELSE CHOOSE j \in opens : \A k \in opens : k <= j

\* episodes_with_px: a close with the latest opening that no close has taken, unless a marker lies between.
EpisodesWithPx(m) ==
  {<<LatestOpenBefore(m, i), i>> : i \in
     {j \in DOMAIN log[m] : /\ log[m][j].label = "CLOSE" /\ LatestOpenBefore(m, j) # 0
                            /\ \A k \in LatestOpenBefore(m, j)..(j - 1) : log[m][k].label # "CLOSE"
                            /\ \A n \in DOMAIN markers :
                                 ~ (log[m][LatestOpenBefore(m, j)].t < markers[n] /\ markers[n] <= log[m][j].t)}}

\* Mutant of OpenClasses: an outage before the opening is not looked at.
BugOpenClasses(m) == {i \in 2..Len(log[m]) : log[m][i].label = "OPEN"}

\* open_classes: an opening is compared with the record before it, unless a marker lies between.
OpenClasses(m) ==
  {i \in 2..Len(log[m]) : /\ log[m][i].label = "OPEN"
                          /\ \A n \in DOMAIN markers :
                               ~ (log[m][i - 1].t < markers[n] /\ markers[n] <= log[m][i].t)}

\* _legs: the side that is bought and the side that is sold against it.
Cheap(px, d) == IF d = "P" THEN px.p_ya ELSE px.k_ya
Dear(px, d)  == IF d = "P" THEN px.k_yb ELSE px.p_yb

\* open_attrib: which side made the edge.
OpenAttrib(d, prior, px) ==
  LET cheapFall == Cheap(prior, d) - Cheap(px, d)
      dearRise  == Dear(px, d) - Dear(prior, d)
  IN  IF cheapFall <= 0 /\ dearRise <= 0 THEN "mixed"
      ELSE IF cheapFall > dearRise THEN "cheap_made" ELSE "dear_made"

(***************************************************************************)
(* Flips and adds of a held position                                       *)
(***************************************************************************)

\* flip_events: the entry is the latest OPEN record at or before the episode's opening.
EntryRecord(m, e) ==
  LET opens == {i \in DOMAIN log[m] : log[m][i].label = "OPEN" /\ log[m][i].t <= e.open_t}
  IN  log[m][CHOOSE i \in opens : \A j \in opens : j <= i]

Held(e, t, hold) == e.open_t <= t /\ t <= e.open_t + hold

FirstOf(S) == {i \in S : \A j \in S : i <= j}

\* Mutant of FlipEvents: any flip of the edge will do, towards the position held as well.
BugFlipEvents(m, e) ==
  FirstOf({i \in DOMAIN log[m] :
             /\ log[m][i].label = "FLIP" /\ Held(e, log[m][i].t, SettleIn)
             /\ ReverseEdge(log[m][i].px).net - e.open_net >= TauGain})

\* The first logged flip, while the position is held, to a bigger edge against its own direction.
FlipEvents(m, e) ==
  FirstOf({i \in DOMAIN log[m] :
             /\ log[m][i].label = "FLIP" /\ Held(e, log[m][i].t, SettleIn)
             /\ LET reverse == ReverseEdge(log[m][i].px)
                IN  reverse.dir # EntryRecord(m, e).dir /\ reverse.net - e.open_net >= TauGain})

\* add_events: "first OPEN's dir = the entry direction", of the market and not of the episode.
OpenDir(m) == log[m][CHOOSE i \in DOMAIN log[m] :
                       log[m][i].label = "OPEN" /\ \A j \in 1..(i - 1) : log[m][j].label # "OPEN"].dir

\* The first widening in that direction, while the position is held, that is better by TauGain.
AddEvents(m, e, hold) ==
  FirstOf({i \in DOMAIN log[m] :
             /\ log[m][i].label = "WIDEN" /\ Held(e, log[m][i].t, hold)
             /\ log[m][i].dir = OpenDir(m) /\ log[m][i].net - e.open_net >= TauGain})

(***************************************************************************)
(* Properties                                                              *)
(***************************************************************************)

SeenAt(m, t, label) == \E i \in DOMAIN seen[m] : seen[m][i].t = t /\ seen[m][i].label = label

\* A clean episode begins when an edge was seen to open and ends when it was seen to die, and in between the edge was
\* never gone for longer than the window and a sleep of the flusher (build_episodes over the log of run_live).
CleanIsTrue(m, e) ==
  e.censored = "none" =>
    /\ SeenAt(m, e.open_t, "OPEN") /\ SeenAt(m, e.close_t, "CLOSE")
    /\ \A i \in 1..(Len(seen[m]) - 1) :
         /\ e.open_t <= seen[m][i].t /\ seen[m][i + 1].t <= e.close_t
         /\ seen[m][i].label = "CLOSE" /\ seen[m][i + 1].label = "OPEN"
         => seen[m][i + 1].t - seen[m][i].t <= Window + FlushLag

\* An episode that began before the second in which a connection was marked does not outlive the mark.
MarkedIsCensored(e) ==
  e.censored # "restart" => \A i \in DOMAIN markers : ~ (e.open_t < markers[i] /\ markers[i] < e.close_t)

\* An episode read from the log is one the trackers saw: its ends are, and no connection was lost in between.
EpisodesAreTrue == \A m \in Markets : \A e \in EpisodesOf(m) : CleanIsTrue(m, e) /\ MarkedIsCensored(e)

\* What the trackers last saw of a market at a time.
LastSeen(m, t) ==
  LET past == {i \in DOMAIN seen[m] : seen[m][i].t <= t}
  IN  seen[m][CHOOSE i \in past : \A j \in past : j <= i]

\* By some time the edge had opened a second time within the episode: a close came too late to be logged (OpenedTwiceOnlyLate).
OpenedAgain(e, t) ==
  \E i \in DOMAIN log[e.market] :
    log[e.market][i].label = "OPEN" /\ e.open_t < log[e.market][i].t /\ log[e.market][i].t <= t

OpenedTwice(e) == OpenedAgain(e, e.close_t)

\* The pairs of adverse_selection are the clean episodes of build_episodes: two readers of one log agree, but on the
\* beginning of an episode that opened twice, which the one takes from its last opening and the other from its first.
PairsAreCleanEpisodes ==
  \A m \in Markets :
    LET pairs == {<<log[m][p[1]].t, log[m][p[2]].t>> : p \in EpisodesWithPx(m)}
        clean == {e \in EpisodesOf(m) : e.censored = "none"}
    IN  /\ \A e \in clean : \E p \in pairs : p[2] = e.close_t /\ (p[1] = e.open_t \/ (OpenedTwice(e) /\ e.open_t < p[1]))
        /\ \A p \in pairs : \E e \in clean : e.close_t = p[2] /\ e.open_t <= p[1]

\* An opening is classified by what moved since the edge was last seen off, so some side made it (open_classes; "mixed"
\* is left to the price-dependent fees); or that close came too late to be logged, and it is compared with an edge.
OpensMeasureAMove ==
  \A m \in Markets : \A i \in OpenClasses(m) :
    IF log[m][i - 1].label = "CLOSE"
    THEN OpenAttrib(log[m][i].dir, log[m][i - 1].px, log[m][i].px) # "mixed"
    ELSE \E t \in Closes(seen[m]) : log[m][i - 1].t <= t /\ log[m][i].t - t > Window

\* A flip acted on turns against the direction that was entered, although later episodes of the market and
\* flips within them have changed the direction since (flip_events).
FlipsTurnThePosition(filled) ==
  \A e \in filled : \A i \in FlipEvents(e.market, e) :
    \E j \in DOMAIN seen[e.market] :
      /\ seen[e.market][j].t = e.open_t /\ seen[e.market][j].label = "OPEN"
      /\ seen[e.market][j].dir # EdgeState(log[e.market][i].px).dir

\* "find the FIRST (causal) same-direction WIDEN DURING THE HELD POSITION'S LIFETIME" (flip_add_backtest.py
\* 216-217): the direction is the one the filled episode was entered in.
AddsGoTheSameWay ==
  \A m \in Markets : \A e \in Filled(m) : \A i \in AddEvents(m, e, SettleIn) :
    log[m][i].dir = EntryRecord(m, e).dir

\* '"measured" = duration is a real lower bound we trust for persistence (clean + eod)'
\* (analyze_persistence.py 211): an episode still open at the end of the data was on until then.
EodIsLowerBound ==
  \A m \in Markets : \A e \in EpisodesOf(m) : e.censored = "eod" => m \notin settled
=============================================================================
