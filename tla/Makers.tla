------------------------------- MODULE Makers -------------------------------
(***************************************************************************)
(* What the two logs of Trades are read for: would a resting order on one  *)
(* leg of an edge have filled, and what would the other leg then cost      *)
(* (src/scripts/maker_feasibility.py on the touches, p_hedge_measure.py on *)
(* the ladders and the prints).  The age gate on a resting book is left    *)
(* out: it only drops anchors.                                             *)
(***************************************************************************)
EXTENDS Trades

CONSTANTS
  PostCensor, \* HYGIENE_POST_CENSOR_S
  MaxMidDiv,  \* HYGIENE_MAX_MID_DIV_C
  MaxGap,     \* MAX_GAP_S
  FloorC,     \* floor_c, hundredths of a cent
  Clip        \* contracts, and a print is one

ASSUME MakersAssumption ==
  /\ \A lad \in Ladders : /\ {lad.px.p_yb, lad.px.p_ya, lad.px.k_yb, lad.px.k_ya} \subseteq Int \cup {None}
                         /\ lad.ka_qty \in Nat /\ lad.kb_qty \in Nat
  /\ Clip \in Nat /\ None \notin {"touch", "def"}

Modes == {"join", "improve"}
Other(v) == IF v = "P" THEN "K" ELSE "P"

(***************************************************************************)
(* Fees, touches, levels                                                   *)
(***************************************************************************)

\* kalshi_fee_c and pmus_fee_c: a weather maker pays Kalshi nothing and gets a rebate from Polymarket.
LegFee(v, p, maker) ==
  IF v = "K" THEN IF maker THEN 0 ELSE KFee(p)
  ELSE IF ~ maker THEN PFee(p) ELSE IF Priced(p) THEN - ((125 * p * (100 - p)) \div 10000) ELSE 0

Bid(px, v) == IF v = "P" THEN px.p_yb ELSE px.k_yb
Ask(px, v) == IF v = "P" THEN px.p_ya ELSE px.k_ya
Touch(px, v, side) == IF side = "bid" THEN Bid(px, v) ELSE Ask(px, v)

Proper(px, v) == Bid(px, v) # None /\ Ask(px, v) # None /\ Bid(px, v) < Ask(px, v)

\* fill_check: the other side of the book is through the level, or at it.
FillCheck(side, level, px, v) ==
  LET t == IF side = "bid" THEN Ask(px, v) ELSE Bid(px, v) IN
    IF t = None THEN None
    ELSE IF t = level THEN "touch"
    ELSE IF (side = "bid") = (t < level) THEN "def" ELSE None

\* Mutant of ImproveLevel: a tick outside the touch.
BugImproveLevel(side, px, v) == IF side = "bid" THEN Bid(px, v) - 1 ELSE Ask(px, v) + 1

\* improve_level: a tick inside the touch, and the touch itself when there is no room.
ImproveLevel(side, px, v) ==
  IF side = "bid" THEN Min({Bid(px, v) + 1, Ask(px, v) - 1}) ELSE Max({Ask(px, v) - 1, Bid(px, v) + 1})

Level(mode, side, px, v) == IF mode = "join" THEN Touch(px, v, side) ELSE ImproveLevel(side, px, v)

\* Mutant of LegSpecs: the sides are swapped.
BugLegSpecs(d) == {[v |-> d, side |-> "ask"], [v |-> Other(d), side |-> "bid"]}

\* leg_specs: buy YES where it is cheap, sell it where it is dear.
LegSpecs(d) == {[v |-> d, side |-> "bid"], [v |-> Other(d), side |-> "ask"]}

\* hedge_eval: a filled bid is hedged by selling into the other venue's bid, an ask by buying its ask.
Gross(leg, level, px) ==
  IF leg.side = "bid" THEN Touch(px, Other(leg.v), "bid") - level
                      ELSE level - Touch(px, Other(leg.v), "ask")

HedgeFee(leg, px) ==
  LET h == Touch(px, Other(leg.v), leg.side)
  IN  LegFee(Other(leg.v), IF leg.side = "bid" THEN 100 - h ELSE h, FALSE)

HedgeEval(leg, level, px) ==
  IF Touch(px, Other(leg.v), leg.side) = None THEN None
  ELSE [gross |-> Gross(leg, level, px),
        net |-> 100 * Gross(leg, level, px) - HedgeFee(leg, px) - LegFee(leg.v, level, TRUE)]

(***************************************************************************)
(* maker_feasibility: the touches at the transitions                       *)
(***************************************************************************)

\* load_weather: where a market's observations are in the log.
Obs(k) == {n \in DOMAIN ladders : ladders[n].tk = k /\ ladders[n].k = "tr"}

\* i and j are one after the other among some rows of the log.
Adjacent(rows, i, j) == {i, j} \subseteq rows /\ i < j /\ \A n \in rows : n <= i \/ j <= n

CensoredBetween(v, t0, t1) == \E c \in censors : c.v = v /\ t0 < c.t /\ c.t <= t1

\* pegged_crossings: an order at the touch of one observation that the next finds crossed.
PeggedCrossings(k, v, side) ==
  {i \in Obs(k) : \E j \in Obs(k) :
     /\ Adjacent(Obs(k), i, j)
     /\ Proper(ladders[i].lad.px, v)
     /\ ~ CensoredBetween(v, ladders[i].t, ladders[j].t)
     /\ FillCheck(side, Touch(ladders[i].lad.px, v, side), ladders[j].lad.px, v) = "def"}

\* maker_sim: the openings where an order would be placed, outside the shadow of a rebuilt book.
Anchors(k) ==
  {i \in Obs(k) :
     LET px == ladders[i].lad.px IN
       /\ ladders[i].open
       /\ \A c \in censors : c.t < ladders[i].t => ladders[i].t - c.t > PostCensor
       /\ \A v \in Dirs : Bid(px, v) # None /\ Ask(px, v) # None
       /\ LET d == (px.p_yb + px.p_ya) - (px.k_yb + px.k_ya)
          IN  d <= 2 * MaxMidDiv /\ d >= - 2 * MaxMidDiv}

DirAt(i) == EdgeState(ladders[i].lad.px).dir

RestingLegs(i) == {leg \in LegSpecs(DirAt(i)) : Proper(ladders[i].lad.px, leg.v)}

\* The observations that definitely cross an order placed at the anchor, and the first of them.
Crossings(k, i, leg, mode) ==
  LET level == Level(mode, leg.side, ladders[i].lad.px, leg.v)
  IN  {j \in Obs(k) : i < j /\ FillCheck(leg.side, level, ladders[j].lad.px, leg.v) = "def"}

FilledAt(k, i, leg, mode) == LET hits == Crossings(k, i, leg, mode) IN IF hits = {} THEN None ELSE Min(hits)

\* Whether no censor of its venue came before it.
FillStrict(k, i, leg, mode) ==
  LET j == FilledAt(k, i, leg, mode)
  IN  j # None /\ \A c \in censors : c.v = leg.v /\ c.t > ladders[i].t => ladders[j].t <= c.t

\* Both join legs filled: what is locked, and for how long one leg was alone.
MakerMaker(k, i) ==
  LET px == ladders[i].lad.px
      q  == CHOOSE leg \in RestingLegs(i) : leg.side = "bid"
      r  == CHOOSE leg \in RestingLegs(i) : leg.side = "ask"
      dt(leg) == ladders[FilledAt(k, i, leg, "join")].t
  IN  [net |-> 100 * (Ask(px, r.v) - Bid(px, q.v))
               - LegFee(q.v, Bid(px, q.v), TRUE) - LegFee(r.v, Ask(px, r.v), TRUE),
       unhedged |-> Max({dt(q), dt(r)}) - Min({dt(q), dt(r)})]

BothFilled(k, i) ==
  RestingLegs(i) = LegSpecs(DirAt(i)) /\ \A leg \in RestingLegs(i) : FilledAt(k, i, leg, "join") # None

(***************************************************************************)
(* p_hedge_measure: the ladders and the prints                             *)
(***************************************************************************)

LadderObs(k) == {n \in DOMAIN ladders : ladders[n].tk = k}

\* load_trades: by the time the monitor received them, then by their own; the sort is stable.
TradeObs(k) == {n \in DOMAIN log : prints[log[n].id].tk = k}

Sooner(m, n) ==
  LET a == log[m]
      b == log[n]
  IN  \/ a.t < b.t
      \/ a.t = b.t /\ (prints[a.id].ts < prints[b.id].ts \/ (prints[a.id].ts = prints[b.id].ts /\ m < n))

NoLater(m, n) == m = n \/ Sooner(m, n)

MakerLeg(d) == [v |-> "K", side |-> IF d = "P" THEN "ask" ELSE "bid"]

PlacementNet(d, px) ==
  LET leg == MakerLeg(d) IN
    IF Touch(px, "K", leg.side) = None \/ px.p_yb = None \/ px.p_ya = None THEN None
    ELSE LET h == HedgeEval(leg, Touch(px, "K", leg.side), px) IN IF h = None THEN None ELSE h.net

Live(d, px) == PlacementNet(d, px) # None /\ PlacementNet(d, px) > FloorC

\* placements: the first ladder at which the order is worth placing, per direction.
Placements(k) ==
  {a \in [i : LadderObs(k), d : Dirs] :
     /\ Live(a.d, ladders[a.i].lad.px)
     /\ \A j \in LadderObs(k) : Adjacent(LadderObs(k), j, a.i) => ~ Live(a.d, ladders[j].lad.px)}

LevelOf(a) == Touch(ladders[a.i].lad.px, "K", MakerLeg(a.d).side)
QueueAhead(a) == IF a.d = "P" THEN ladders[a.i].lad.ka_qty ELSE ladders[a.i].lad.kb_qty

Want(d) == IF d = "P" THEN "yes" ELSE "no"

Through(d, px, level) == IF d = "P" THEN px > level ELSE px < level

\* detect_fill: the first print received after the placement that trades through the level, or that
\* completes the queue ahead and the order at the level.
Takes(k, a) == {n \in TradeObs(k) : log[n].t > ladders[a.i].t /\ prints[log[n].id].taker = Want(a.d)}

AtLevel(k, a, n) == {j \in Takes(k, a) : NoLater(j, n) /\ prints[log[j].id].px = LevelOf(a)}

Fills(k, a, mode) ==
  LET need == Clip + (IF mode = "join" THEN QueueAhead(a) ELSE 0)
  IN  {n \in Takes(k, a) :
         \/ Through(a.d, prints[log[n].id].px, LevelOf(a))
         \/ prints[log[n].id].px = LevelOf(a) /\ Cardinality(AtLevel(k, a, n)) >= need}

DetectFill(k, a, mode) ==
  LET hits == Fills(k, a, mode) IN IF hits = {} THEN None ELSE CHOOSE n \in hits : \A j \in hits : NoLater(n, j)

\* ladder_at: the nearest ladder, the last before the print of two as near, and else the first.
LadderAt(k, t) ==
  LET D(n)   == IF ladders[n].t > t THEN ladders[n].t - t ELSE t - ladders[n].t
      best   == {n \in LadderObs(k) : \A j \in LadderObs(k) : D(n) <= D(j)}
      before == {n \in best : ladders[n].t < t}
      near   == IF before # {} THEN Max(before) ELSE Min(best)
  IN  IF best = {} \/ D(near) > MaxGap THEN None ELSE near

\* evaluate_fill: hedged if Polymarket still pays at the fill, else the leg is bought or sold back.
EvaluateFill(a, n) ==
  LET px    == ladders[n].lad.px
      h     == HedgeEval(MakerLeg(a.d), LevelOf(a), px)
      back  == Touch(px, "K", MakerLeg(a.d).side)
      level == LevelOf(a)
  IN  [what |-> "filled",
       hedged |-> h # None /\ h.net > FloorC /\ ladders[n].lad.p_qty >= Clip,
       recovery |-> IF back = None THEN None
                    ELSE IF a.d = "P" THEN - (100 * (back - level) + KFee(back))
                    ELSE - (100 * (level - back) + KFee(back))]

\* measure: every placement is filled and hedged or not, unfilled, or filled with no ladder near.
Measure(k, mode) ==
  [a \in Placements(k) |->
     LET n == DetectFill(k, a, mode) IN
       IF n = None THEN [what |-> "unfilled"]
       ELSE LET l == LadderAt(k, log[n].t)
            IN  IF l = None THEN [what |-> "no_ladder"] ELSE EvaluateFill(a, l)]

(***************************************************************************)
(* What the measurements promise                                           *)
(***************************************************************************)

\* Resting a leg never promises less than taking both: at the opening, the net of either leg in either
\* mode, and of both legs filled, is at least the net of the signal.
MakerKeepsTheEdge ==
  \A k \in Tickers : \A i \in Anchors(k) :
    LET px == ladders[i].lad.px
        d  == DirAt(i) IN
      /\ \A leg \in RestingLegs(i), mode \in Modes :
           HedgeEval(leg, Level(mode, leg.side, px, leg.v), px).net >= NetOf(px, d)
      /\ BothFilled(k, i) => MakerMaker(k, i).net >= NetOf(px, d)

\* The models of a fill agree: a better price fills no later, on the touches and on the prints, and a join
\* filled by the next observation, with no rebuilt book between, is one of the pegged crossings.
FillModelsAgree ==
  \A k \in Tickers :
    /\ \A i \in Anchors(k) : \A leg \in RestingLegs(i) :
         LET j == FilledAt(k, i, leg, "join") IN
           j # None =>
             /\ FilledAt(k, i, leg, "improve") # None /\ FilledAt(k, i, leg, "improve") <= j
             /\ FillStrict(k, i, leg, "join") => FillStrict(k, i, leg, "improve")
             /\ Adjacent(Obs(k), i, j) /\ ~ CensoredBetween(leg.v, ladders[i].t, ladders[j].t)
                  => i \in PeggedCrossings(k, leg.v, leg.side)
    /\ \A a \in Placements(k) :
         LET n == DetectFill(k, a, "join") IN
           n # None => DetectFill(k, a, "improve") # None /\ NoLater(DetectFill(k, a, "improve"), n)

\* The market traded through a resting order: whatever failed, crashed or came late in between, once the
\* print has been polled the order counts as filled in both modes, no later than that print was received.
ThroughIsCounted ==
  \A i \in DOMAIN prints :
    LET p == prints[i] IN
      (up /\ tstate[p.tk] # None /\ from[p.tk] <= p.ts /\ p.vis < upto[p.tk] /\ i \notin cut) =>
        \A a \in Placements(p.tk) :
          (p.taker = Want(a.d) /\ p.ts > ladders[a.i].t /\ Through(a.d, p.px, LevelOf(a))) =>
            \A mode \in Modes :
              /\ Measure(p.tk, mode)[a].what # "unfilled"
              /\ \E m \in DOMAIN log : log[m].id = i /\ log[m].t >= log[DetectFill(p.tk, a, mode)].t

\* Order by order the models of a fill agree with each other and with the tape.
FillsAgree == FillModelsAgree /\ ThroughIsCounted
=============================================================================
