------------------------------- MODULE Ledger -------------------------------
(***************************************************************************)
(* The position ledger of one market (src/bot/ledger.py class Ledger):     *)
(* pairs bought on the two venues, marked, unwound, redeemed and settled.  *)
(* Prices are in cents, money in hundredths of a cent.                     *)
(***************************************************************************)
EXTENDS Quotes

Venues == {"P", "K"}
Other(v) == IF v = "P" THEN "K" ELSE "P"

\* The fee of one order: Kalshi's is rounded up to the cent, polymarket's is linear.
OrderFee(v, p, n) == IF v = "K" THEN KOrderFee(p, n)
                     ELSE IF Priced(p) THEN (5 * n * p * (100 - p)) \div 100 ELSE 0

Flat == [yes |-> [v \in Venues |-> 0], no |-> [v \in Venues |-> 0], cash |-> 0, edges |-> 0]

\* The direction names the venue that sells the YES leg; the other sells the NO leg.
PairCost(px, d, n) ==
  100 * n * (YesAsk(px, d) + NoAsk(px, d)) + OrderFee(d, YesAsk(px, d), n) + OrderFee(Other(d), NoAsk(px, d), n)

\* enter: refused on a crossed or edgeless book, on a direction without its quotes, and without an edge after the fees.
CanEnter(px, d, n) ==
  /\ EdgeState(px).arb /\ Quoted(px, d)
  /\ 10000 * n > PairCost(px, d, n)

Entered(l, px, d, n) ==
  [l EXCEPT !.yes[d] = @ + n, !.no[Other(d)] = @ + n,
            !.cash = @ - PairCost(px, d, n), !.edges = @ + 10000 * n - PairCost(px, d, n)]

YesBid(px, v) == IF v = "P" THEN px.p_yb ELSE px.k_yb
\* Mutant of NoBid: the NO leg is sold at its own ask.
BugNoBid(px, v) == IF YesBid(px, v) = None THEN None ELSE 100 - YesBid(px, v)

NoBid(px, v)  == LET ask == IF v = "P" THEN px.p_ya ELSE px.k_ya IN IF ask = None THEN None ELSE 100 - ask

\* A leg sold at its bid, or for nothing when there is none.
Sale(v, bid, n) == IF n = 0 \/ bid = None THEN 0 ELSE 100 * n * bid - OrderFee(v, bid, n)

Proceeds(l, px) == Sale("P", YesBid(px, "P"), l.yes["P"]) + Sale("P", NoBid(px, "P"), l.no["P"])
                 + Sale("K", YesBid(px, "K"), l.yes["K"]) + Sale("K", NoBid(px, "K"), l.no["K"])

\* mtm, unwind_all and redeem_poly_sets.
Mark(l, px)    == l.cash + Proceeds(l, px)
Unwound(l, px) == [Flat EXCEPT !.cash = l.cash + Proceeds(l, px), !.edges = l.edges]
Redeemed(l) ==
  LET m == IF l.yes["P"] < l.no["P"] THEN l.yes["P"] ELSE l.no["P"]
  IN  [l EXCEPT !.yes["P"] = @ - m, !.no["P"] = @ - m, !.cash = @ + 10000 * m]

\* settlement_pnl, and the same when each venue grades for itself.
SettlementPnl(l, yes) == l.cash + 10000 * (IF yes THEN l.yes["P"] + l.yes["K"] ELSE l.no["P"] + l.no["K"])
GradedPnl(l, won) ==
  l.cash + 10000 * ((IF won["P"] THEN l.yes["P"] ELSE l.no["P"]) + (IF won["K"] THEN l.yes["K"] ELSE l.no["K"]))

(* ---- a pair that is turned at a flip (src/scripts/flip_add_backtest.py) ---- *)
\* close_pnl_weather: a pair bought at the entry and sold at the flip, when both can be priced.
ClosePnl(entry, flip, d) ==
  IF CanEnter(entry, d, 1) /\ Quoted(flip, Other(d)) THEN Unwound(Entered(Flat, entry, d, 1), flip).cash ELSE None

\* report: what an arb that flipped is said to bring when it is held, and when it is closed and reversed.
HoldSays(entry, haircut) == EdgeState(entry).net - haircut
FlipSays(close, flip, haircut) ==
  close + (IF ReverseEdge(flip).net > haircut THEN ReverseEdge(flip).net - haircut ELSE 0)
=============================================================================
