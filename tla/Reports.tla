------------------------------- MODULE Reports -------------------------------
(***************************************************************************)
(* The walks that take the candidates in an order of their own             *)
(* (alloc_policy_experiment run_policy, ev_at_latency h1_replay,           *)
(* strategy_idea_tests h2_edge_rate_alloc) and the peak of capital_sim, as *)
(* functions of the candidates seen, beside the step-by-step walks of      *)
(* Capital.  Then what the reports compute from the walks: the account     *)
(* statement (account_sim report), the stages and variants of the bot's    *)
(* strategy (backtest_current_strategy build_report), the velocity gates   *)
(* (velocity_gate_experiment run_config, build_report), what adds bring    *)
(* (bankroll_add_backtest build_report), the policies side by side         *)
(* (alloc_policy_experiment report) and the frontier (capital_sim report). *)
(***************************************************************************)
EXTENDS Capital

CONSTANTS
  Second,      \* the bucket of batch1s
  LockPassive  \* LOCKUP_PASSIVE, per category

Opened == {seen[i] : i \in DOMAIN seen}

\* _order_candidates: the candidates in the order a policy considers them.
Density(x, y) == ProfitPer(x.e) * CostPer(y.e) - ProfitPer(y.e) * CostPer(x.e)

Before(policy, x, y) ==
  CASE policy \in {"fifo", "reservation"} -> x.t < y.t
    [] policy = "batch1s" -> \/ x.t \div Second < y.t \div Second
                             \/ x.t \div Second = y.t \div Second /\ Better(x, y)
    [] policy = "offline_knapsack" -> \/ Density(x, y) > 0
                                      \/ Density(x, y) = 0 /\ Rank[x.e.market] < Rank[y.e.market]

Ordered(policy) == SetToSortSeq(Opened, LAMBDA x, y : Before(policy, x, y))

\* run_policy: the bankroll in that order, above a floor.
RunPolicy(policy, tau) ==
  LET take(w, c) == LET s == Settled(w, c.t)
                    IN  IF ProfitPer(c.e) < tau THEN s ELSE Bought(s, c.e, c.t)
  IN  FoldLeft(take, FreshWalk, Ordered(policy))

\* h1_replay: the reservation walk with a cap per category, as money, or without.
H1Replay(caps, tau) ==
  LET take(w, c) ==
        LET s    == Settled(w, c.t)
            want == IF caps = None THEN Smaller(c.e.c2, Clip)
                    ELSE Smaller(Smaller(c.e.c2, caps[c.e.cat] \div CostPer(c.e)), Clip)
            size == Smaller(want, s.cash \div CostPer(c.e))
        IN  IF ProfitPer(c.e) < tau THEN s
            ELSE IF size < 1 THEN [s EXCEPT !.skipped = @ + 1]
            ELSE [s EXCEPT !.cash = @ - size * CostPer(c.e), !.held = @ \cup {Position(c.e, c.t, size)}]
  IN  FoldLeft(take, FreshWalk, Ordered("fifo"))

\* h2_edge_rate_alloc: in order of arrival, of edge, or of edge per day of the lock-up that is assumed.
Rated(x) == LockPassive[x.e.cat]

H2Before(rule, x, y) ==
  CASE rule = "fifo" -> x.t < y.t
    [] rule = "level" -> Better(x, y)
    [] rule = "rate" -> \/ ProfitPer(x.e) * Rated(y) > ProfitPer(y.e) * Rated(x)
                        \/ ProfitPer(x.e) * Rated(y) = ProfitPer(y.e) * Rated(x) /\ Rank[x.e.market] < Rank[y.e.market]

H2Walk(rule) ==
  LET take(w, c) ==
        LET due  == {p \in w.held : p.settle_t <= c.t}
            free == w.cash + CapitalOf(due) + Earned(due)
            size == Smaller(Smaller(c.e.c2, Clip), free \div CostPer(c.e))
        IN  IF size < 1 THEN [w EXCEPT !.cash = free, !.held = @ \ due]
            ELSE [w EXCEPT !.cash = free - size * CostPer(c.e), !.held = (@ \ due) \cup {Position(c.e, c.t, size)},
                           !.entered = @ \cup {Position(c.e, c.t, size)}]
  IN  FoldLeft(take, [cash |-> Capital0, held |-> {}, entered |-> {}],
               SetToSortSeq(Opened, LAMBDA x, y : H2Before(rule, x, y)))

\* simulate: what is locked if nothing is refused, and the most of it at a time, locks before frees at a tie.
Intervals == {[start |-> c.t, end |-> SettleT(c.e.market, c.t), amount |-> Smaller(c.e.c2, Clip) * CostPer(c.e),
               market |-> c.e.market] : c \in Opened}

PeakCapital == Max({0} \cup {MapThenSumSet(LAMBDA j : j.amount, {j \in Intervals : j.start <= i.start /\ i.start <= j.end}) :
                               i \in Intervals})

Quiet == next = None /\ (ended => ArmTimes = {})

\* Five programs that say they are the same walk are: account_sim, run_arm without its rules, run_policy in order
\* of arrival, h1_replay without caps or floor (or with caps that do not bind), and the fifo walk of h2 (each docstring, and the self-tests).
WalksAgree ==
  Quiet =>
    LET view(w) == <<w.cash, w.held, w.realized>>
    IN  /\ view(arms["base"]) = view(acct)
        /\ ~ ended => /\ view(RunPolicy("fifo", 0)) = view(acct)
                      /\ view(H1Replay(None, 0)) = view(acct)
                      /\ H2Walk("fifo").cash = acct.cash /\ H2Walk("fifo").held = acct.held
                      /\ view(H1Replay(None, Tau)) = view(RunPolicy("reservation", Tau))
                      /\ (\A c \in Opened : Smaller(c.e.c2, Clip) * CostPer(c.e) <= CategoryCap[c.e.cat])
                           => view(H1Replay(CategoryCap, Tau)) = view(H1Replay(None, Tau))

\* The capital that capital_sim says the cohort needs is enough for account_sim: with that much it refuses nothing
\* and takes everything whole.
PeakSuffices == Quiet /\ PeakCapital <= Capital0 => acct.skipped = 0 /\ acct.partial = 0

(***************************************************************************)
(* The numbers of the reports                                              *)
(***************************************************************************)

Booked(ps) == Earned(ps)
StillLocked(ps) == CapitalOf({p \in ps : p.settle_t > WindowEnd})

(* --------------------------- the account statement ---------------------- *)
\* report: the ending equity as it is printed.
ReportedEquity(w) == w.cash + CapitalOf(w.held) + w.realized + Earned(w.held)

(* ----------------------------- the bot's caps --------------------------- *)
\* cap_constrained_entries as a function of its cohort.
CapWalk(cohort) ==
  LET take(w, c) ==
        LET due   == Matured(w, c.t)
            kept  == w.held \ due
            free  == w.cash + CapitalOf(due)
            used(P(_)) == CapitalOf({p \in kept : P(p.market)})
            fits  == {n \in 1..MaxContracts :
                        /\ n <= c.e.c2 /\ n * CostPer(c.e) <= free
                        /\ n * CostPer(c.e) + used(LAMBDA m : m = c.e.market) <= MaxPerPair
                        /\ n * CostPer(c.e) + used(LAMBDA m : ClusterOf[m] = ClusterOf[c.e.market]) <= MaxPerCluster
                        /\ n * CostPer(c.e) + CapitalOf(kept) <= MaxTotal}
            pos   == Position(c.e, c.t, Halved(c.e, Max(fits)))
        IN  IF Cardinality(kept) >= MaxConcurrent \/ fits = {} THEN [w EXCEPT !.cash = free, !.held = kept]
            ELSE [cash |-> free - pos.capital, held |-> kept \cup {pos}, entered |-> w.entered \cup {pos}]
  IN  FoldLeft(take, [cash |-> Smaller(Capital0, MaxTotal), held |-> {}, entered |-> {}], cohort).entered

\* The stages of run_funnel that the report tells apart, and the cohort that reaches the caps.
Settleable(verified) == SelectSeq(seen, LAMBDA c : c.e.cat = "weather" \/ c.e.cat \in verified)
Cohort(verified)     == SelectSeq(Settleable(verified), LAMBDA c : Funnel(c.e))

\* A column of the table: the current strategy with the categories that are verified.
Column(verified) ==
  LET entered == CapWalk(Cohort(verified))
  IN  [entered |-> entered, locked |-> StillLocked(entered),
       realized |-> Booked({p \in entered : p.settle_t <= WindowEnd}),
       unrealized |-> Booked({p \in entered : p.settle_t > WindowEnd})]

\* The strategy as it is, and with the other categories verified.
Current    == Column({})
IfVerified == Column(Verified)

(* --------------------------- the velocity gates ------------------------- *)
\* run_config
RunConfig(near, fast) ==
  LET elig == SelectSeq(Cohort(Verified), LAMBDA c : (near => Near(c.e, c.t)) /\ (fast => Fast(c.e, c.t)))
  IN  [eligible |-> {elig[i] : i \in DOMAIN elig}, entered |-> CapWalk(elig)]

\* peak_concurrent: a settlement comes before an opening at a tie.
PeakConcurrent(ps) == Max({0} \cup {Cardinality({q \in ps : q.open_t <= p.open_t /\ p.open_t < q.settle_t}) : p \in ps})

\* build_report: whether capital binds without the gates.
Binds(r) == Cardinality(r.entered) < Cardinality(r.eligible) \/ 2 * StillLocked(r.entered) > MaxTotal

(* ------------------------------ what adds bring ------------------------- *)
\* _scenario: the total of a walk, realized or not.
Total(w) == Booked(w.entered) + Booked(w.added)

\* add_events' own estimate: every add is paid for.
Offered(a) == LET i == CHOOSE j \in DOMAIN seen : seen[j].e.market = a.market
              IN  Smaller(Smaller(a.c2, Clip), AddCap(Size0(seen[i].e))) * ProfitPer(a)

Unconstrained == MapThenSumSet(Offered, {a \in Adds : a.market \in padd.tried})

(* ------------------------------- the policies --------------------------- *)
PnL(w) == w.realized + Earned(w.held)

\* best_reservation: the floors that are tried are nothing and the edges seen.
BestReservation == Max({PnL(RunPolicy("reservation", tau)) : tau \in {0} \cup {ProfitPer(c.e) : c \in Opened}})

(* ------------------------------- the frontier --------------------------- *)
\* simulate, with a clip, and until the settlement or for a given time.
Simulated(clip, hold) ==
  LET ivs == {[start |-> c.t, end |-> IF hold = None THEN SettleT(c.e.market, c.t) ELSE c.t + hold,
               amount |-> Smaller(c.e.c2, clip) * CostPer(c.e), market |-> c.e.market] : c \in Opened}
  IN  [peak |-> Max({0} \cup {MapThenSumSet(LAMBDA j : j.amount, {j \in ivs : j.start <= i.start /\ i.start <= j.end}) : i \in ivs}),
       profit |-> MapThenSumSet(LAMBDA c : Smaller(c.e.c2, clip) * ProfitPer(c.e), Opened)]

(***************************************************************************)
(* Properties                                                              *)
(***************************************************************************)
\* The positions of cap_constrained_entries run over the finished cohort are those the replay took step by step, also
\* when candidates that a gate refused came between and settled nothing.  (backtest_current_strategy 207-269, 5a)
CapWalkIsReplay ==
  \A all \in {IfVerified}, weather \in {Current} :
    LET entered == {[market |-> p.market, open_t |-> p.open_t, settle_t |-> p.settle_t, size |-> p.size,
                     capital |-> p.capital] : p \in all.entered}
    IN  /\ held \subseteq entered /\ {p \in entered : p.settle_t > now} \subseteq held
        /\ all.realized + all.unrealized = Booked(all.entered) /\ all.locked <= MaxTotal
        /\ \A p \in weather.entered : \E i \in DOMAIN seen : seen[i].e.market = p.market /\ seen[i].e.cat = "weather"

\* "Gates can only REMOVE arbs -> PnL can only drop" when capital does not bind (velocity_gate_experiment build_report),
\* and with or without gates no more positions are open at a time than the cap allows, as peak_concurrent counts them.
GatesOnlyRemove ==
  \A run \in {[near, fast \in BOOLEAN |-> RunConfig(near, fast)]} : \A near, fast \in BOOLEAN :
    /\ run[near, fast].eligible \subseteq run[FALSE, FALSE].eligible
    /\ ~ Binds(run[FALSE, FALSE]) => Booked(run[near, fast].entered) <= Booked(run[FALSE, FALSE].entered)
    /\ PeakConcurrent(run[near, fast].entered) <= MaxConcurrent

\* What adds bring to the two pools, with the base entries they crowd out, is no more than the estimate without a
\* bankroll ("UNCONSTRAINED upper bound", bankroll_add_backtest build_report).
AddsWithinBound == Total(padd) - Total(pools) <= Unconstrained

\* More clip never needs less capital nor earns less, a longer hold never needs less (the two curves of capital_sim's
\* report), and the floor that best_reservation finds earns at least what fifo does.
CurvesRise ==
  /\ \A a \in 1..2 : LET x == Simulated(a, None)
                         y == Simulated(a + 1, None)
                     IN  x.peak <= y.peak /\ x.profit <= y.profit
  /\ \A h \in 1..3 : Simulated(Clip, h).peak <= Simulated(Clip, h + 1).peak
  /\ Simulated(Clip, None).peak = PeakCapital
  /\ PnL(RunPolicy("fifo", 0)) <= BestReservation

\* Not kept by the code: "ending equity (mark-to-edge)" is the bankroll and what was booked (account_sim.py 137); the
\* cash has the realized profit in it already.
EquityIsMarkToEdge == ended => ReportedEquity(acct) = Capital0 + acct.realized + Earned(acct.held)
=============================================================================
