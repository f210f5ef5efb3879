------------------------------- MODULE Latency -------------------------------
(***************************************************************************)
(* What the episodes are worth to a bot that fills some time after an      *)
(* edge opens (ev_at_latency.py), and to one that is choosy about which it *)
(* fires at: by the side that made the edge, or by the hour                *)
(* (strategy_idea_tests.py, adverse_selection.py); and what turning or     *)
(* adding to what it holds would bring (flip_add_backtest.py).             *)
(***************************************************************************)
EXTENDS Persistence

CONSTANTS
  UnwindCosts, \* UNWINDS: what a naked contract may cost
  Clips,       \* the caps on the contracts of an episode
  Day, Peak,   \* the ticks of a day, and those of the arrival peak
  Holds,       \* the hold windows swept
  AddCap,      \* add_cap_frac, in hundredths
  Void         \* void_haircut

ASSUME LatencyAssumption ==
  /\ UnwindCosts \subseteq Nat /\ Clips \subseteq Nat
  /\ Day \in Nat \ {0} /\ Peak \subseteq 0..(Day - 1)
  /\ Holds \subseteq Nat /\ AddCap \in 0..100 /\ Void \in Nat
  /\ \A b \in Books : b.c1 # None => b.c1 \in Nat /\ b.c1 >= b.c2 /\ b.c0 \in Nat /\ b.c0 >= b.c1

Pair == INSTANCE Ledger

OpensAt(m, t) == {i \in DOMAIN log[m] : log[m][i].label = "OPEN" /\ log[m][i].t = t}

(***************************************************************************)
(* Value at a latency                                                      *)
(***************************************************************************)

\* attach_c1: the depth of the first opening of the market at that time, or what the episode keeps.
OpenC1(e) ==
  LET opens == OpensAt(e.market, e.open_t)
      c1    == IF opens = {} THEN None ELSE log[e.market][Min(opens)].px.c1
  IN  IF c1 = None THEN e.open_c2 ELSE c1

(***************************************************************************)
(* Which side made the edge, and which one ended it                        *)
(***************************************************************************)

\* attribute: the side that moved when the edge closed.
Attribute(d, px, close) ==
  LET cheapRise == Cheap(close, d) - Cheap(px, d)
      dearFall  == Dear(px, d) - Dear(close, d)
  IN  IF cheapRise <= 0 /\ dearFall <= 0 THEN "mixed"
      ELSE IF cheapRise > dearFall THEN "cheap_rose" ELSE "dear_fell"

TagOf(m, pair) == Attribute(log[m][pair[1]].dir, log[m][pair[1]].px, log[m][pair[2]].px)

\* analyze: the closes by what ended them.
Tagged(tag) == UNION {{p \in EpisodesWithPx(m) : TagOf(m, p) = tag} : m \in Markets}

\* close_tag and oc are keyed by market and opening time, and of two rows of a key the later one stays.
CloseTag(e) ==
  LET pairs == {p \in EpisodesWithPx(e.market) : log[e.market][p[1]].t = e.open_t}
  IN  IF pairs = {} THEN None
      ELSE TagOf(e.market, CHOOSE p \in pairs : \A q \in pairs : q[2] <= p[2])

ClassOf(e) ==
  LET rows == OpenClasses(e.market) \cap OpensAt(e.market, e.open_t)
      i    == Max(rows)
  IN  IF rows = {} THEN "unclassified"
      ELSE OpenAttrib(log[e.market][i].dir, log[e.market][i - 1].px, log[e.market][i].px)

(***************************************************************************)
(* The cohort, and what it is worth                                        *)
(***************************************************************************)

\* build_trajectories: an episode with the records that continue it.
Traced(m, eps, e) ==
  [market |-> e.market, open_t |-> e.open_t, open_net |-> e.open_net, open_c2 |-> e.open_c2,
   close_t |-> e.close_t, censored |-> e.censored, traj |-> Trajectory(m, eps, e)]

\* What the studies join to an episode: among this, the latencies at which both legs land and at which one does.
Joined(e) ==
  [market |-> e.market, open_t |-> e.open_t, open_net |-> e.open_net, open_c2 |-> e.open_c2,
   close_t |-> e.close_t, censored |-> e.censored, traj |-> e.traj,
   open_c1 |-> OpenC1(e), cls |-> ClassOf(e), tag |-> CloseTag(e),
   both |-> {L \in Latencies : Outcome(e, L) = "both"}, one |-> {L \in Latencies : Outcome(e, L) = "one"}]

\* The capturable episodes with their trajectories and what is joined to them.
Cohort ==
  UNION {LET eps == EpisodesOf(m) IN {Joined(Traced(m, eps, e)) : e \in Capturable(eps)} : m \in Markets}

Survivors(cohort, L) == {e \in cohort : L \in e.both}

Lost(cohort, L) == {e \in cohort : L \in e.one}

\* outcome: the net at the fill.
NetAt(e, L) == EdgeAt(e, e.open_t + L)

\* ev_rows: what becomes of a cohort, and what its survivors earn per contract.
EvRow(cohort, L) ==
  [n |-> Cardinality(cohort), both |-> Cardinality(Survivors(cohort, L)), one |-> Cardinality(Lost(cohort, L)),
   edge |-> SumFunction([e \in Survivors(cohort, L) |-> NetAt(e, L)])]

\* The EV of a row at an unwind cost, times its n.
Ev(row, u) == row.edge - u * row.one

Size(e, lens, clip) == Min({IF lens = "c1" THEN e.open_c1 ELSE e.open_c2, clip})

\* dollarize: an episode is worth what its contracts are paid.
Dollarize(cohort, L, u, lens, clip) ==
  SumFunction([e \in Survivors(cohort, L) |-> Size(e, lens, clip) * NetAt(e, L)])
  - SumFunction([e \in Lost(cohort, L) |-> Size(e, lens, clip) * u])

Classes == {"cheap_made", "dear_made", "mixed", "unclassified"}

\* gate_report and cohort_stats: a class of a cohort, its closes and its survivors.
ClassStats(cohort, cls, L) ==
  LET es == {e \in cohort : e.cls = cls}
  IN  [n |-> Cardinality(es), attributed |-> Cardinality({e \in es : e.tag # None}),
       toxic |-> Cardinality({e \in es : e.tag = "dear_fell"}), survived |-> Cardinality(Survivors(es, L))]

\* The gate skips the class that was toxic before.
Gated(cohort) == {e \in cohort : e.cls # "cheap_made"}

(***************************************************************************)
(* The hour of arrival                                                     *)
(***************************************************************************)

InWindow(e) == e.open_t % Day \in Peak

\* DEPTH_BOUNDARY_NET, half a cent: the edge of the deepest contract that is counted.
ProfitPer(e) == Max({50, (e.open_net + 50) \div 2})

CostPer(e) == Max({1000, 10000 - e.open_net})

\* cohort_metrics: the edge of a cohort and its cost, weighted by depth, and its survivors.
Metrics(cohort, L) ==
  [n |-> Cardinality(cohort), survived |-> Cardinality(Survivors(cohort, L)),
   edge |-> SumFunction([e \in cohort |-> ProfitPer(e) * e.open_c2]),
   cost |-> SumFunction([e \in cohort |-> CostPer(e) * e.open_c2])]

(***************************************************************************)
(* The flips and adds of the filled episodes (flip_add_backtest.py)        *)
(***************************************************************************)

\* report (1) and (2): the filled episodes that flip, with what the turn is worth when the close has its quotes.
FlipsPriced(filled) ==
  UNION {{[e |-> e, i |-> i,
           close |-> Pair!ClosePnl(EntryRecord(e.market, e).px, log[e.market][i].px, EntryRecord(e.market, e).dir)] :
          i \in FlipEvents(e.market, e)} : e \in filled}

\* int(round(x)): to the nearest whole number, halves to the even one.
Rounded(x) == LET q == x \div 100 IN IF x % 100 > 50 \/ (x % 100 = 50 /\ q % 2 = 1) THEN q + 1 ELSE q

\* _widen_is_flat: one resting level, mirrored down the book.
WidenIsFlat(px) == px.c1 # None /\ px.c2 > 0 /\ px.c2 = px.c1 /\ px.c1 = px.c0

\* The loop of add_events: the add of a filled episode, its size, its gain, and whether the base edge was open.
AddOf(m, e, i, clip) ==
  LET px   == log[m][i].px
      size == Min({px.c2, clip, Rounded(AddCap * Min({e.open_c2, clip}))})
  IN  [e |-> e, i |-> i, t |-> log[m][i].t, size |-> size, flat |-> WidenIsFlat(px),
       inc |-> size * Max({0, Max({50, (log[m][i].net + 50) \div 2}) - Void}),
       true |-> log[m][i].t <= e.close_t]

\* report (3a) and (3b): the adds at a hold window, with or without the phantom lens.
Adds(filled, hold, clip, lens) ==
  {a \in UNION {{AddOf(e.market, e, i, clip) : i \in AddEvents(e.market, e, hold)} : e \in filled} :
     a.size > 0 /\ ~ (lens /\ a.flat)}

\* report (3c).
TrueAdds(adds) == {a \in adds : a.true}

(***************************************************************************)
(* Properties                                                              *)
(***************************************************************************)

\* "(market, open_t) is an exact key" (ev_at_latency.py 91): the opening joined to an episode by its time is
\* the one that began it.
JoinsAreExact ==
  \A m \in Markets : \A e \in EpisodesOf(m) :
    Cardinality(OpensAt(m, e.open_t)) = 1 /\ log[m][Min(OpensAt(m, e.open_t))] = EntryRecord(m, e)

\* The value at depth with one contract an episode is the value per contract: the two views count one cohort.
ViewsAgree(cohort) ==
  \A L \in Latencies : \A row \in {EvRow(cohort, L)} :
    \A u \in UnwindCosts : Dollarize(cohort, L, u, "c2", 1) = Ev(row, u)

\* "c1 >= c2 by construction, so the fallback is conservative" (ev_at_latency.py 91): where no leg is lost,
\* the deeper lens shows at least as much.
C1IsDeeper(cohort) ==
  \A L \in Latencies : Lost(cohort, L) = {} =>
    \A clip \in Clips : Dollarize(cohort, L, 0, "c1", clip) >= Dollarize(cohort, L, 0, "c2", clip)

\* A fill counted as survived met the edge it was fired at, or one that had been gone for no longer than the debounce window
\* and a sleep of the flusher, which the log does not show; or one that had opened a second time, behind a close that was
\* popped unlogged; or its market has been torn down since with the close in hand, and the episode is taken to last until
\* the end of the data (shadow_fill, outcome).
SurvivorWasThere(cohort) ==
  \A L \in Latencies : \A e \in Survivors(cohort, L) :
    LET s == LastSeen(e.market, e.open_t + L) IN
      IF s.label = "CLOSE" THEN e.open_t + L - s.t <= Window + FlushLag \/ (e.censored = "eod" /\ e.market \in settled)
      ELSE s.dir = EntryRecord(e.market, e).dir \/ OpenedAgain(e, e.open_t + L)

\* A fill counted as failed, of an episode whose end was seen, had lost its edge by then; and none is neither
\* ("defensive; never fires on real data").
FailureWasReal(cohort) ==
  /\ \A e \in cohort : e.both \cup e.one = Latencies
  /\ \A L \in Latencies : \A e \in Lost(cohort, L) : e.censored = "none" =>
       \E i \in DOMAIN seen[e.market] : LET s == seen[e.market][i] IN
         /\ e.open_t <= s.t /\ s.t <= e.open_t + L
         /\ s.label = "CLOSE" \/ s.dir # EntryRecord(e.market, e).dir

\* Who survives a latency survives every shorter one (outcome over EV_LATS).
SurvivalFalls(cohort) ==
  \A L \in Latencies, S \in Latencies : S <= L => Survivors(cohort, L) \subseteq Survivors(cohort, S)

\* A survivor is paid the edge the trackers last saw, unless that was a reopening, which the debouncer hides.
SurvivorIsPaid(cohort) ==
  \A L \in Latencies : \A e \in Survivors(cohort, L) :
    LET s == LastSeen(e.market, e.open_t + L) IN s.label \in {"WIDEN", "NARROW"} => NetAt(e, L) = s.net

\* The side that ended an episode did move: a close is put down to a side although the edge may have turned
\* since the opening it is compared with (attribute).
ClosesMeasureAMove == Tagged("mixed") = {}

\* Every clean episode that could be filled is told by its close, unless it opened twice, and one without a class is the
\* market's first or was preceded by an outage (h1_direction_gate, gate_report).
CohortIsTold(cohort) ==
  \A e \in cohort :
    /\ e.tag # None => e.censored = "none"
    /\ e.censored = "none" /\ e.tag = None => OpenedTwice(e)
    /\ e.cls = "unclassified" =>
         LET i == Min(OpensAt(e.market, e.open_t)) IN
           i = 1 \/ \E n \in DOMAIN markers : log[e.market][i - 1].t < markers[n] /\ markers[n] <= e.open_t

\* What a replay leaves out it leaves out by its class or its hour alone: the parts add up to the cohort.
PartsAddUp(cohort) ==
  \A L \in Latencies :
    /\ \A stats \in {[c \in Classes |-> ClassStats(cohort, c, L)]} :
         /\ SumFunction([c \in Classes |-> stats[c].survived]) = Cardinality(Survivors(cohort, L))
         /\ SumFunction([c \in Classes \ {"cheap_made"} |-> stats[c].n]) = Cardinality(Gated(cohort))
    /\ \A inside \in {{e \in cohort : InWindow(e)}} :
         \A a \in {Metrics(inside, L)}, b \in {Metrics(cohort \ inside, L)}, all \in {Metrics(cohort, L)} :
           \A field \in DOMAIN all : a[field] + b[field] = all[field]

\* "you only close into a favourable basis" (flip_add_backtest.py 363): closing what flipped brings the edge it
\* was entered at and the edge it flips into, less what Kalshi rounds up on the two orders.
CloseIsBothEdges(filled) ==
  \A f \in FlipsPriced(filled) : f.close # None =>
    LET net == ReverseEdge(log[f.e.market][f.i].px).net IN
      f.e.open_net + net - 200 < f.close /\ f.close <= f.e.open_net + net

\* "TRUE-ADD is ~INVARIANT to the hold" (flip_add_backtest.py 413): a longer hold keeps every true add and its
\* gain, and gains one only beyond the shorter; the lens takes flat ladders away and puts nothing in their place.
TrueAddsKeep(filled) ==
  \A clip \in Clips : \A adds \in {[h \in Holds |-> Adds(filled, h, clip, FALSE)]} :
    /\ \A h \in Holds, k \in Holds : h <= k =>
         /\ TrueAdds(adds[h]) \subseteq TrueAdds(adds[k])
         /\ \A a \in TrueAdds(adds[k]) \ TrueAdds(adds[h]) : a.t > a.e.open_t + h
    /\ \A h \in Holds : Adds(filled, h, clip, TRUE) = {a \in adds[h] : ~ a.flat}

\* What adverse_selection and the direction gate measure: closed episodes, opened and closed by a move of a
\* side, and joined to the openings and closes that are theirs.
AttributionIsSound ==
  /\ PairsAreCleanEpisodes /\ OpensMeasureAMove /\ ClosesMeasureAMove /\ JoinsAreExact
  /\ \A cohort \in {Cohort} : CohortIsTold(cohort)

\* What the replays of an episode tell is what would have happened to it: the fill at a latency, what it would
\* have been paid, and the flip.
ReplayIsReal ==
  /\ \A filled \in {UNION {Filled(m) : m \in Markets}} :
       FlipsTurnThePosition(filled) /\ CloseIsBothEdges(filled) /\ TrueAddsKeep(filled)
  /\ \A cohort \in {Cohort} :
       /\ SurvivorWasThere(cohort) /\ FailureWasReal(cohort) /\ SurvivorIsPaid(cohort) /\ SurvivalFalls(cohort)
       /\ ViewsAgree(cohort) /\ C1IsDeeper(cohort) /\ PartsAddUp(cohort)
=============================================================================
