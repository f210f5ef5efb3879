------------------------------- MODULE Sweeps -------------------------------
(***************************************************************************)
(* The scripts that run the walks again with other parameters: the         *)
(* sections of recycle_arm_experiment, the clip and the floor of           *)
(* clip_threshold_test, and the policies side by side of                   *)
(* alloc_policy_experiment.                                                *)
(***************************************************************************)
EXTENDS Reports

CONSTANTS
  Floors, Clips, Haircuts,   \* the grids of clip_threshold_test
  RoomSweep                  \* the caps per cluster that are tried, as money

(* ------------------------- the arms with any rule ----------------------- *)
\* run_arm as a function of the candidates: at each moment the settlement comes before the arrival.  The most money
\* that a cluster had, and the settlements with what was waiting then, are kept beside.
ArmWalk(rule) ==
  LET tick(w, t) ==
        LET paid == SettlementEvent(rule, w.arm, t)
            then == FoldLeft(LAMBDA a, c : Arrived(rule, a, c.e, t), paid, SelectSeq(seen, LAMBDA c : c.t = t))
        IN  [arm |-> then,
             peak |-> [c \in Clusters |-> Max({w.peak[c], paid.locked[c], then.locked[c]})],
             moments |-> w.moments \cup (IF Matured(w.arm, t) = {} THEN {} ELSE {[t |-> t, live |-> paid.pending]})]
  IN  FoldLeft(tick, [arm |-> FreshArm, peak |-> [c \in Clusters |-> 0], moments |-> {}], [t \in 1..WindowEnd |-> t])

Fifo == [tau |-> 0, caps |-> None, room |-> None, recycle |-> FALSE]
H1   == [tau |-> Tau, caps |-> CategoryCap, room |-> None, recycle |-> FALSE]

Capped(room)     == [H1 EXCEPT !.room = room]
SecondTime(rule) == [rule EXCEPT !.recycle = TRUE]

\* The arms that the sections compare, each run once.
Walked ==
  LET once == {Fifo, H1} \cup {Capped(room) : room \in RoomSweep}
  IN  [rule \in once \cup {SecondTime(r) : r \in once} |-> ArmWalk(rule)]

\* recycle_section: a rule with and without the second look, and the settlements with someone waiting.
SecondLook(runs, rule) == [base |-> runs[rule].arm, arm |-> runs[SecondTime(rule)].arm]
LiveMoments(w)         == {m \in w.moments : m.live # {}}

\* _max_cluster_share, cluster_section: how much of the bankroll a cluster had at most.
MaxClusterShare(w)  == Max({w.peak[c] : c \in Clusters})
Concentration(runs) == MaxClusterShare(runs[H1])

\* cluster_cap_sweep
CapSweep(runs) == [room \in RoomSweep |-> runs[Capped(room)]]

(* ------------------------- the clip and the floor ----------------------- *)
\* P: the reservation policy with a clip, a floor and a haircut, from a fresh bankroll.
Reserve(cands, clip, tau, haircut) ==
  LET per(e) == Larger(0, ProfitPer(e) - haircut)
      take(w, c) ==
        LET s    == Settled(w, c.t)
            want == Smaller(c.e.c2, clip)
            size == Smaller(want, s.cash \div CostPer(c.e))
        IN  IF per(c.e) < tau THEN s
            ELSE IF size < 1 THEN [s EXCEPT !.skipped = @ + 1]
            ELSE [s EXCEPT !.cash = @ - size * CostPer(c.e), !.partial = @ + (IF size < want THEN 1 ELSE 0),
                           !.held = @ \cup {[Position(c.e, c.t, size) EXCEPT !.profit = size * per(c.e)]}]
  IN  FoldLeft(take, FreshWalk, cands)

\* Section 5b of build_report: the cohort without the caps, on the same bankroll.
Unlimited(verified) == Reserve(Cohort(verified), Clip, 0, 0)

\* split_by_open_t: the first half of the arrivals, and the rest.
Cut   == seen[Smaller(Len(seen), Len(seen) \div 2 + 1)].t
Early == SelectSeq(seen, LAMBDA c : c.t < Cut)
Late  == SelectSeq(seen, LAMBDA c : c.t >= Cut)

ClipRule == Larger(1, (Capital0 + 98000) \div 196000)

\* What the tests ask of P on the whole window and on its halves.
Reserved == [part \in {seen, Early, Late}, clip \in Clips \cup {Clip, ClipRule}, tau \in Floors \cup {Tau} |->
               Reserve(part, clip, tau, 0)]

\* test_A_surface, best_tau_clip: what a clip and a floor earn, and what earns most.
Surface(res, part) == {[clip |-> c, tau |-> f, pnl |-> PnL(res[part, c, f])] : c \in Clips, f \in Floors}

Fitted(res, part) == LET s == Surface(res, part) IN {x \in s : \A y \in s : x.pnl >= y.pnl}

\* test_B_oos: what was fitted to the early half, and the two rules that were not, on the late half.
OutOfSample(res) ==
  [fifo |-> res[Late, Clip, 0], fitted |-> {res[Late, x.clip, x.tau] : x \in Fitted(res, Early)},
   capped |-> res[Late, ClipRule, 0], fixed |-> res[Late, ClipRule, Tau]]

\* test_C_friction
Friction(haircut) == [design \in {<<Clip, 0>>, <<ClipRule, Tau>>} |-> PnL(Reserve(seen, design[1], design[2], haircut))]

(* ------------------------ the policies side by side --------------------- *)
\* run_all, and what report says of a policy against fifo.
RunAll == [policy \in {"fifo", "batch1s", "offline_knapsack"} |-> PnL(RunPolicy(policy, 0))]

Headline(pnl) == [gap |-> pnl["offline_knapsack"] - pnl["fifo"], buys |-> pnl["batch1s"] - pnl["fifo"],
                  best |-> BestReservation - pnl["fifo"]]

(***************************************************************************)
(* Properties                                                              *)
(***************************************************************************)
\* The arms that Capital runs step by step are run_arm of the whole window, and without rules it is account_sim
\* ("reproduces alloc_policy_experiment.run_policy('fifo') exactly", recycle_arm_experiment 30-33).
ArmsAreWalks ==
  LET view(a) == <<a.cash, a.held, a.realized>>
  IN  \A r \in DOMAIN Rules : \A w \in {ArmWalk(Rules[r]).arm} :
        /\ view(w) = view(arms[r]) /\ w.pending = arms[r].pending
        /\ Rules[r] = Fifo => view(w) = view(acct)

\* Under every cap that is swept no cluster is ever above it, recycling too, and a cap above what a cluster ever had
\* is none.  The second look changes nothing before there is a settlement with someone waiting.
SweepHolds ==
  \A runs \in {Walked} :
    /\ \A room \in RoomSweep :
         /\ MaxClusterShare(CapSweep(runs)[room]) <= room
         /\ MaxClusterShare(runs[SecondTime(Capped(room))]) <= room
         /\ Concentration(runs) <= room => CapSweep(runs)[room].arm = runs[H1].arm
    /\ \A rule \in {Fifo, H1} :
         LiveMoments(runs[rule]) = {} => SecondLook(runs, rule).arm = SecondLook(runs, rule).base

\* The two halves are the candidates, one before the other; a floor of nothing and the widest clip are account_sim's
\* walk; what was fitted to a half earns there at least what fifo does; and when the whole window fits into the
\* bankroll no order of it matters and no haircut helps.
DesignIsSound ==
  \A res \in {Reserved}, pnl \in {RunAll} :
    /\ Len(Early) + Len(Late) = Len(seen)
    /\ \A i \in DOMAIN Early, j \in DOMAIN Late : Early[i].t < Late[j].t
    /\ Settled(res[seen, Clip, 0], WindowEnd) = acct
    /\ \A x \in Fitted(res, Early) : x.pnl >= PnL(res[Early, Clip, 0])
    /\ MapThenSumSet(LAMBDA i : i.amount, Intervals) <= Capital0 =>
         /\ \A d \in {"gap", "buys", "best"} : Headline(pnl)[d] = 0
         /\ \A free \in {Friction(0)}, h \in Haircuts : \A cut \in {Friction(h)} :
              \A d \in DOMAIN free : cut[d] <= free[d]
         /\ \A o \in {OutOfSample(res)} :
              /\ PnL(o.fifo) + PnL(res[Early, Clip, 0]) = pnl["fifo"]
              /\ \A w \in o.fitted \cup {o.capped, o.fixed} : PnL(w) <= PnL(o.fifo)

\* Without the caps a cohort that the bankroll can pay in full earns no less than under them.
CapsCostProfit ==
  \A v \in {{}, Verified} :
    LET w == Unlimited(v) IN w.skipped = 0 /\ w.partial = 0 => Booked(Column(v).entered) <= PnL(w)

\* The replays of one history agree with each other, with the capital that was computed for it, and with what the
\* reports and the sweeps say of them.
ReplaysAgree ==
  /\ WalksAgree /\ BaseIsVenueSplit /\ PeakSuffices
  /\ Quiet => CapWalkIsReplay /\ GatesOnlyRemove /\ AddsWithinBound /\ CurvesRise
  /\ Quiet /\ ended => ArmsAreWalks /\ SweepHolds /\ DesignIsSound /\ CapsCostProfit

\* Not kept by the code: "The load-bearing inequality offline_pnl >= fifo_pnl ALWAYS holds"
\* (alloc_policy_experiment.py 273).
KnapsackIsCeiling == Quiet => Headline(RunAll).gap >= 0
=============================================================================
