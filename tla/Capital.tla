------------------------------ MODULE Capital ------------------------------
(***************************************************************************)
(* The replays of the research scripts over the candidates of the log: the *)
(* bankroll (account_sim), the same with a recycling rule and a cap per    *)
(* cluster (recycle_arm_experiment), one pool of money per venue, with and *)
(* without adds to what is held (venue_split_backtest,                     *)
(* bankroll_add_backtest), and the bot's caps (Caps).  They are run here   *)
(* in lock-step over one sequence of candidates.                           *)
(***************************************************************************)
EXTENDS Caps, Sequences, SequencesExt

CONSTANTS
  Adds,          \* what may be added to a position: market, net edge and depth of the widening, and its books
  Clip,          \* max_clip
  Boundary,      \* DEPTH_BOUNDARY_NET
  Void,          \* the expected cost of a void per category: none for weather
  Rank,          \* the order of the markets' names
  Tau, ClusterRoom,   \* of the recycling arm
  CategoryCap,        \* H1_CAPS, as money
  K0, P0, TauGain,    \* the two pools, and how much wider an edge is for an add
  MidCap, EconMidCap, EdgeFloor, SkipDearLed, Verified,
  Day, SettleOffset, ProxDays, MinRate, LockWeather, LockSports, LockEcon,
  LastArrival, MaxArrivals   \* bounds: when the last candidate may open, and how many there are

\* A game has other touches than a bucket.
SportsPx(px) == "pm_a" \in DOMAIN px

Priced(px) == px = None \/ (IF SportsPx(px) THEN {px.pm_b, px.pm_a, px.ka, px.kb}
                            ELSE {px.p_yb, px.p_ya, px.k_yb, px.k_ya}) \subseteq 0..100 \cup {None}

ASSUME CapitalAssumption ==
  /\ Clip \in Nat /\ Boundary \in Int /\ K0 \in Nat /\ P0 \in Nat
  /\ ClusterRoom \in Nat /\ None \notin Nat
  /\ \A m, n \in Markets : Rank[m] \in Int /\ (Rank[m] = Rank[n] => m = n)
  /\ \A e \in Candidates : e.life \in Nat
  /\ \A e \in Candidates \cup Adds : e.net \in Nat /\ e.c2 \in Nat /\ Void[e.cat] \in Int /\ Priced(e.px)

VARIABLES
  seen,   \* the candidates so far, each with when it opened
  acct,   \* run_account
  arms,   \* run_arm as account_sim, and with recycling
  pools,  \* two_pool_walk
  padd,   \* two_pool_walk_with_adds
  ended   \* the last settlement of the window was made

walks == <<seen, acct, arms, pools, padd, ended>>
vars == <<capsVars, walks>>

Smaller(a, b) == IF a <= b THEN a ELSE b
Larger(a, b)  == IF a >= b THEN a ELSE b

-----------------------------------------------------------------------------
(* Prices.                                                                 *)

\* The book-average edge down to the boundary, less the expected cost of a void.
ProfitPer(e) == Larger(0, Larger(Boundary, (e.net + Boundary) \div 2) - Void[e.cat])

CheapPmus(d) == d \in {"P", "PK"}

Known(a, b) == a # None /\ b # None

\* What the two legs cost at Kalshi and at pmus, or halves when a touch is missing.
Legs(d, px) ==
  LET flip(x) == IF x = None THEN None ELSE 100 - x
      k == IF px = None THEN None
           ELSE IF SportsPx(px) THEN (IF CheapPmus(d) THEN px.kb ELSE px.ka)
           ELSE IF CheapPmus(d) THEN flip(px.k_yb) ELSE px.k_ya
      p == IF px = None THEN None
           ELSE IF SportsPx(px) THEN (IF CheapPmus(d) THEN px.pm_a ELSE flip(px.pm_b))
           ELSE IF CheapPmus(d) THEN px.p_ya ELSE flip(px.p_yb)
  IN  IF Known(k, p) /\ k + p > 0 THEN [k |-> k, p |-> p] ELSE [k |-> 1, p |-> 1]

\* A mid in half cents, from the touches there are.
Mid2(bid, ask) == IF Known(bid, ask) THEN bid + ask
                  ELSE IF bid # None THEN 2 * bid
                  ELSE IF ask # None THEN 2 * ask ELSE None

VenueMids(px) ==
  IF SportsPx(px)
  THEN [k |-> Mid2(IF px.kb = None THEN None ELSE 100 - px.kb, px.ka), p |-> Mid2(px.pm_b, px.pm_a)]
  ELSE [k |-> Mid2(px.k_yb, px.k_ya), p |-> Mid2(px.p_yb, px.p_ya)]

\* In half cents; no divergence without both mids.
Divergence(e) ==
  LET mids == VenueMids(e.px)
  IN  IF e.px = None THEN None
      ELSE IF ~ Known(mids.k, mids.p) THEN None
      ELSE Larger(mids.k - mids.p, mids.p - mids.k)

-----------------------------------------------------------------------------
(* The gates before a candidate reaches a walk.                            *)

\* run_funnel up to its directional stage: a category that settles alike, close mids, the floor, who led.
Funnel(e) ==
  /\ e.cat = "weather" \/ e.cat \in Verified
  /\ Divergence(e) = None \/ Divergence(e) <= 2 * (IF e.cat = "econ" THEN EconMidCap ELSE MidCap)
  /\ e.net >= EdgeFloor
  /\ ~ (SkipDearLed /\ e.cat = "weather" /\ e.cls = "dear_made")

Dated(m) == EventEnd[m] # 0

UntilEvent(e, t) == EventEnd[e.market] - SettleOffset - t

\* How long money is locked: for a game until its day begins, and never less than the floor.
LockLive(e, t) ==
  CASE e.cat = "weather" -> LockWeather
    [] e.cat = "sports"  -> IF Dated(e.market) THEN Larger(UntilEvent(e, t), LockSports) ELSE LockSports
    [] OTHER             -> LockEcon

\* passes_proximity; a market without a date passes.
Near(e, t) == Dated(e.market) => UntilEvent(e, t) <= ProxDays * Day

\* passes_edge_rate: the edge per dollar and day.
Fast(e, t) == e.net * Day >= MinRate * LockLive(e, t)

\* _live_cohort.
Live(e, t) == Funnel(e) /\ ~ e.flat /\ Near(e, t) /\ Fast(e, t)

-----------------------------------------------------------------------------
(* One bankroll.                                                           *)

Earned(ps)    == SumFunction([p \in ps |-> p.profit])
Matured(w, t) == {p \in w.held : p.settle_t <= t}

Position(e, opened, size) ==
  [market |-> e.market, open_t |-> opened, settle_t |-> SettleT(e.market, opened), size |-> size,
   capital |-> size * CostPer(e), profit |-> size * ProfitPer(e)]

FreshWalk == [cash |-> Capital0, held |-> {}, realized |-> 0, skipped |-> 0, partial |-> 0]

\* Mutant of Settled: the profit is counted and not paid.
BugSettled(w, t) ==
  LET ps == Matured(w, t)
  IN  [w EXCEPT !.cash = @ + CapitalOf(ps), !.held = @ \ ps, !.realized = @ + Earned(ps)]

\* settle_due of run_account.
Settled(w, t) ==
  LET ps == Matured(w, t)
  IN  [cash |-> w.cash + CapitalOf(ps) + Earned(ps), held |-> w.held \ ps, realized |-> w.realized + Earned(ps),
       skipped |-> w.skipped, partial |-> w.partial]

\* What run_account does with a candidate: as much of it as the depth, the clip and the cash allow.
Bought(w, e, t) ==
  LET want == Smaller(e.c2, Clip)
      size == Smaller(want, w.cash \div CostPer(e))
  IN  IF size < 1
      THEN [cash |-> w.cash, held |-> w.held, realized |-> w.realized, skipped |-> w.skipped + 1, partial |-> w.partial]
      ELSE [cash |-> w.cash - size * CostPer(e), held |-> w.held \cup {Position(e, t, size)}, realized |-> w.realized,
            skipped |-> w.skipped, partial |-> w.partial + (IF size < want THEN 1 ELSE 0)]

-----------------------------------------------------------------------------
(* run_arm.  A rule is a floor, caps per category or None, a cap per       *)
(* cluster or None, and whether what could not be paid for is tried again  *)
(* when money comes back.                                                  *)

Rules == [base |-> [tau |-> 0, caps |-> None, room |-> None, recycle |-> FALSE],
          arm  |-> [tau |-> Tau, caps |-> None, room |-> ClusterRoom, recycle |-> TRUE]]

FreshArm == [cash |-> Capital0, held |-> {}, realized |-> 0, locked |-> [c \in Clusters |-> 0], pending |-> {}]

\* try_fund: why it is refused, or the arm with the position.
TryFund(rule, a, e, t) ==
  LET c    == ClusterOf[e.market]
      room == rule.room - a.locked[c]
      want == IF rule.caps = None THEN Smaller(e.c2, Clip)
              ELSE Smaller(Smaller(e.c2, Clip), rule.caps[e.cat] \div CostPer(e))
      fit  == IF rule.room = None THEN want
              ELSE Smaller(want, IF room > 0 THEN room \div CostPer(e) ELSE 0)
      size == Smaller(fit, a.cash \div CostPer(e))
  IN  IF ProfitPer(e) < rule.tau THEN [why |-> "tau", arm |-> a]
      ELSE IF want < 1 THEN [why |-> "cap0", arm |-> a]
      ELSE IF fit < 1 THEN [why |-> "cluster0", arm |-> a]
      ELSE IF size < 1 THEN [why |-> "capital", arm |-> a]
      ELSE [why |-> "funded",
            arm |-> [cash |-> a.cash - size * CostPer(e), held |-> a.held \cup {Position(e, t, size)},
                     realized |-> a.realized, locked |-> [a.locked EXCEPT ![c] = @ + size * CostPer(e)],
                     pending |-> a.pending]]

\* The best booked edge first, and the name at a tie.
Better(x, y) == \/ ProfitPer(x.e) > ProfitPer(y.e)
                \/ ProfitPer(x.e) = ProfitPer(y.e) /\ Rank[x.e.market] < Rank[y.e.market]

\* An arm with others that wait.
Waiting(a, ps) == [cash |-> a.cash, held |-> a.held, realized |-> a.realized, locked |-> a.locked, pending |-> ps]

\* The last to be tried of what waits.
Worst(ps) == CHOOSE pe \in ps : \A q \in ps \ {pe} : Better(q, pe)

\* One that waits is tried: it goes on waiting if money or room is short, and leaves otherwise.
Retried(rule, a, pe, s) ==
  LET r == TryFund(rule, a, pe.e, s)
  IN  IF r.why \in {"capital", "cluster0"} THEN a ELSE Waiting(r.arm, a.pending \ {pe})

\* Mutant of Recycled: only the best is tried.
BugRecycled(rule, a, s) ==
  IF a.pending = {} THEN a
  ELSE Retried(rule, a, CHOOSE pe \in a.pending : \A q \in a.pending \ {pe} : Better(pe, q), s)

\* At a settlement, one after the other.
Recycled(rule, a, s) ==
  LET after[ps \in SUBSET a.pending] ==
        IF ps = {} THEN a ELSE Retried(rule, after[ps \ {Worst(ps)}], Worst(ps), s)
  IN  after[a.pending]

\* What settles is paid out, and the closed episodes leave what waits.
PaidOut(a, s) ==
  LET ps == Matured(a, s)
  IN  [cash |-> a.cash + CapitalOf(ps) + Earned(ps), held |-> a.held \ ps, realized |-> a.realized + Earned(ps),
       locked |-> [c \in Clusters |-> a.locked[c] - CapitalOf(InCluster(ps, c))],
       pending |-> {pe \in a.pending : pe.t + pe.e.life > s}]

\* A settlement: all that settles then, and the rest tried again.
SettlementEvent(rule, a, s) ==
  IF Matured(a, s) = {} THEN a
  ELSE IF rule.recycle THEN Recycled(rule, PaidOut(a, s), s) ELSE PaidOut(a, s)

\* An arrival: what the money or the cluster refuses waits, what the floor refuses does not.
Arrived(rule, a, e, t) ==
  LET r == TryFund(rule, a, e, t)
  IN  IF r.why \in {"capital", "cluster0"} THEN Waiting(a, a.pending \cup {[e |-> e, t |-> t]}) ELSE r.arm

-----------------------------------------------------------------------------
(* Two pools.                                                              *)

FreshPools == [k |-> K0, p |-> P0, held |-> {}, entered |-> {}, added |-> {}, tried |-> {}]

\* What a contract takes from each pool.
Units(d, net, px) ==
  LET legs == Legs(d, px)
      k    == (CostPer([net |-> net]) * legs.k) \div (legs.k + legs.p)
  IN  [k |-> k, p |-> CostPer([net |-> net]) - k]

KCost(ps) == SumFunction([p \in ps |-> p.kcost])
PCost(ps) == SumFunction([p \in ps |-> p.pcost])

KLocked(w) == KCost(w.held)
PLocked(w) == PCost(w.held)

\* settle_due of the pools: each gets its own leg back.
Returned(w, t) ==
  LET ps == Matured(w, t)
  IN  [k |-> w.k + KCost(ps), p |-> w.p + PCost(ps), held |-> w.held \ ps,
       entered |-> w.entered, added |-> w.added, tried |-> w.tried]

\* The most of a size that both pools can pay.
Payable(w, u, size) ==
  LET atK == IF u.k > 0 THEN Smaller(size, w.k \div u.k) ELSE size
  IN  IF u.p > 0 THEN Smaller(atK, w.p \div u.p) ELSE atK

PoolPosition(kind, e, t, u, size) ==
  [market |-> e.market, kind |-> kind, open_t |-> t, settle_t |-> SettleT(e.market, t), size |-> size,
   kcost |-> size * u.k, pcost |-> size * u.p, profit |-> size * ProfitPer(e)]

\* A position is paid from both pools.
Held(w, pos) ==
  [k |-> w.k - pos.kcost, p |-> w.p - pos.pcost, held |-> w.held \cup {pos},
   entered |-> IF pos.kind = "base" THEN w.entered \cup {pos} ELSE w.entered,
   added |-> IF pos.kind = "add" THEN w.added \cup {pos} ELSE w.added, tried |-> w.tried]

\* two_pool_walk with a candidate; a fat edge is halved after the pools have sized it.
Drawn(w, e, t) ==
  LET u    == Units(e.dir, e.net, e.px)
      size == Payable(w, u, e.c2)
      pos  == PoolPosition("base", e, t, u, Halved(e, size))
  IN  IF size < 1 THEN w ELSE Held(w, pos)

\* The base entry of two_pool_walk_with_adds.
DrawnBase(w, e, t) ==
  LET u    == Units(e.dir, e.net, e.px)
      size == Payable(w, u, e.c2)
      cut  == IF e.net >= FatKnee THEN Larger(1, size \div FatDivisor) ELSE size
      pos  == PoolPosition("base", e, t, u, cut)
  IN  IF size < 1 THEN w ELSE Held(w, pos)

\* What an add is measured by is what was offered at the base entry, whatever was taken of it.
Size0(e) == Smaller(e.c2, Clip)

\* A fifth of the base size, rounded.
AddCap(size0) == (2 * size0 + 5) \div 10

\* An add: what both pools have left for it.
DrawnAdd(w, a, size0, t) ==
  LET u    == Units(a.dir, a.net, a.px)
      size == Payable(w, u, Smaller(Smaller(a.c2, Clip), AddCap(size0)))
      pos  == PoolPosition("add", a, t, u, size)
      done == [k |-> w.k, p |-> w.p, held |-> w.held, entered |-> w.entered, added |-> w.added,
               tried |-> w.tried \cup {a.market}]
  IN  IF size < 1 THEN done ELSE Held(done, pos)

-----------------------------------------------------------------------------
(* The lock-step.                                                          *)

Init ==
  /\ CapsInit
  /\ seen = <<>> /\ ended = FALSE
  /\ acct = FreshWalk /\ arms = [r \in DOMAIN Rules |-> FreshArm]
  /\ pools = FreshPools /\ padd = FreshPools

Met(m) == \E i \in DOMAIN seen : seen[i].e.market = m

\* A market opens for the first time: every walk settles what is due, and has it in hand.
Come(e, t) ==
  /\ ~ ended /\ ~ Met(e.market) /\ Len(seen) < MaxArrivals
  /\ t <= LastArrival
  /\ Consider(e, t)
  /\ seen' = Append(seen, [e |-> e, t |-> t])
  /\ acct' = Settled(acct, t)
  /\ pools' = Returned(pools, t) /\ padd' = Returned(padd, t)
  /\ UNCHANGED <<arms, ended>>

SettleCap(p) == SettleOne(p) /\ UNCHANGED walks

\* The next settlement of an arm is before the candidate, or at it, or in the rest of the window.
WindowEnd == Max({now} \cup {seen[i].t + seen[i].e.life : i \in DOMAIN seen})

\* Mutant of ArmTimes: a settlement at the moment of an arrival comes after it.
BugArmTimes == {t \in UNION {{p.settle_t : p \in arms[r].held} : r \in DOMAIN Rules} :
                  IF next # None THEN t < next.t ELSE t <= WindowEnd}

ArmTimes == {t \in UNION {{p.settle_t : p \in arms[r].held} : r \in DOMAIN Rules} :
               t <= (IF next # None THEN next.t ELSE WindowEnd)}

ArmSettles ==
  /\ next # None \/ ended
  /\ ArmTimes # {}
  /\ arms' = [r \in DOMAIN Rules |-> SettlementEvent(Rules[r], arms[r], Min(ArmTimes))]
  /\ UNCHANGED <<capsVars, seen, acct, pools, padd, ended>>

\* Every walk decides on the candidate.
Decide ==
  /\ next # None /\ ArmTimes = {}
  /\ IF Funnel(next.e) THEN Fund \/ PassOver
     ELSE Skip
  /\ acct' = Bought(acct, next.e, next.t)
  /\ arms' = [r \in DOMAIN Rules |-> Arrived(Rules[r], arms[r], next.e, next.t)]
  /\ pools' = (IF Live(next.e, next.t) THEN Drawn(pools, next.e, next.t) ELSE pools)
  /\ padd' = (IF Live(next.e, next.t) THEN DrawnBase(padd, next.e, next.t) ELSE padd)
  /\ UNCHANGED <<seen, ended>>

\* The edge of a market of the live cohort widens in its direction, for the first time by so much, until the
\* position settles (add_events), and two_pool_walk_with_adds tries to add to it.
Widen(i, a, t) ==
  /\ ~ ended /\ t <= LastArrival /\ Elapse(t)
  /\ seen[i].e.market = a.market /\ a.market \notin padd.tried
  /\ Live(seen[i].e, seen[i].t) /\ t <= SettleT(a.market, seen[i].t)
  /\ a.dir = seen[i].e.dir /\ a.net - seen[i].e.net >= TauGain
  /\ AddCap(Size0(seen[i].e)) > 0
  /\ padd' = DrawnAdd(Returned(padd, t), a, Size0(seen[i].e), t)
  /\ UNCHANGED <<seen, acct, arms, pools, ended>>

\* The end of the window: what has settled by then is realized.
End ==
  /\ ~ ended /\ next = None /\ seen # <<>>
  /\ ended' = TRUE
  /\ acct' = Settled(acct, WindowEnd)
  /\ UNCHANGED <<capsVars, seen, arms, pools, padd>>

Next ==
  \/ \E e \in Candidates, t \in 1..LastArrival : Come(e, t)
  \/ \E p \in held : SettleCap(p)
  \/ ArmSettles
  \/ Decide
  \/ \E i \in DOMAIN seen, a \in Adds, t \in 1..LastArrival : Widen(i, a, t)
  \/ End

Spec == Init /\ [][Next]_vars

-----------------------------------------------------------------------------
CapitalTypeOK ==
  /\ CapsTypeOK
  /\ acct.cash \in Nat /\ acct.realized \in Nat /\ acct.skipped \in Nat /\ acct.partial \in Nat
  /\ \A r \in DOMAIN Rules : arms[r].cash \in Nat /\ arms[r].locked \in [Clusters -> Nat]
  /\ \A w \in {pools, padd} : w.k \in Nat /\ w.p \in Nat /\ w.tried \subseteq Markets
  /\ ended \in BOOLEAN

\* The bankroll, the recycling arm and each pool are banks: they neither lend what they do not have nor make money
\* other than the booked edge of what settled (run_account, run_arm, two_pool_walk_with_adds).
AcctBank == INSTANCE Bank WITH Total <- Capital0, free <- acct.cash, locked <- CapitalOf(acct.held),
                               earned <- acct.realized
ArmBank  == INSTANCE Bank WITH Total <- Capital0, free <- arms["arm"].cash,
                               locked <- CapitalOf(arms["arm"].held), earned <- arms["arm"].realized
KBank    == INSTANCE Bank WITH Total <- K0, free <- padd.k, locked <- KLocked(padd), earned <- 0
PBank    == INSTANCE Bank WITH Total <- P0, free <- padd.p, locked <- PLocked(padd), earned <- 0

AcctIsBank  == AcctBank!Spec
ArmIsBank   == ArmBank!Spec
PoolsAreBanks == KBank!Spec /\ PBank!Spec
WalksAreBanks == CapsIsBank /\ AcctIsBank /\ ArmIsBank /\ PoolsAreBanks

\* The bot's money is the replay's: its floor is above nothing, the bankroll is not below the total cap (BotConfig), and
\* a candidate has a contract of depth (capital_sim.py 79).
BotMoney ==
  /\ EdgeFloor \in Nat \ {0} /\ MaxContracts > 0 /\ MaxTotal <= Capital0
  /\ \A e \in Candidates : e.c2 >= 1

Gate == INSTANCE RiskGate WITH Dollar <- 10000, FatNum <- 1, FatDen <- FatDivisor

Approved(e) == Gate!ApprovedSize(e.net, e.c2, perPair[e.market], perCluster[ClusterOf[e.market]], total, openPositions)

\* A ceiling has room for a whole number of contracts to the hundredth of a cent.  There a quotient of floats may fall below the
\* number, and the two programs do not divide alike: 20.0 // 0.8 is 24, and the floor of 20.0 / 0.8 is 25.
OnTheEdge(e) ==
  \E room \in {MaxPerPair - perPair[e.market], MaxPerCluster - perCluster[ClusterOf[e.market]], MaxTotal - total} :
    room > 0 /\ room % CostPer(e) = 0

\* The replay of the caps approves the size that the bot's gate approves for the candidate, given the exposure:
\* backtest_current_strategy.py says it sizes exactly as risk.rs does, which is so but where floats decide.
SizedAsTheBot ==
  [][next # None /\ next' = None /\ Funnel(next.e) /\ ~ OnTheEdge(next.e) =>
       IF Approved(next.e) = 0 THEN held' = held
       ELSE \E p \in held' \ held : p.size = Approved(next.e)]_vars

\* Recycling leaves no money idle: a candidate that waits cannot be funded with what is free (run_arm).
NothingIdle == \A pe \in arms["arm"].pending : TryFund(Rules["arm"], arms["arm"], pe.e, now).why # "funded"

\* What the recycling arm holds it took while the episode was open, once per market, and within the room of the
\* cluster, whose counter is what it holds there.
RecyclesLiveOnly ==
  LET a == arms["arm"]
  IN  /\ \A p, q \in a.held : p.market = q.market => p = q
      /\ \A p \in a.held : \E i \in DOMAIN seen :
            /\ seen[i].e.market = p.market /\ seen[i].t <= p.open_t
            /\ p.open_t = seen[i].t \/ p.open_t < seen[i].t + seen[i].e.life
      /\ \A c \in Clusters : /\ a.locked[c] = CapitalOf(InCluster(a.held, c))
                             /\ a.locked[c] <= ClusterRoom

\* Recycling takes what it can, and only what is there to take.
RecyclingIsSound == CapitalTypeOK /\ NothingIdle /\ RecyclesLiveOnly

\* The base entries of the walk with adds are those of the walk without, until an add takes money
\* (bankroll_add_backtest.py: "venue_split's exact sizing").
BaseIsVenueSplit == padd.added = {} => padd.entered = pools.entered

\* What bankroll_add_backtest.py says of an add: "a position is never added-to before it opens".
AddsScaleIn == \A p \in padd.added : \E b \in padd.entered : b.market = p.market
=============================================================================
