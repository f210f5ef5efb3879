------------------------------- MODULE Quotes -------------------------------
(***************************************************************************)
(* What two books are worth together (src/bot/ledger.py signal and fees,   *)
(* src/bot/monitor.py make_px, edge_state and classify).  A price is in    *)
(* cents, an edge or a fee in hundredths of a cent.                        *)
(***************************************************************************)
EXTENDS Integers

CONSTANTS
  None,  \* no quote, no book to price, no state yet, nothing pending
  Eps    \* classify's eps

ASSUME QuotesAssumption == None \notin Int /\ Eps \in Nat

Dirs == {"P", "K"}

Priced(p) == 0 < p /\ p < 100

\* kfee and pfee: the fee of a taker at scale, and of one order (Kalshi's is rounded up to the cent).
KFee(p) == IF Priced(p) THEN (7 * p * (100 - p)) \div 100 ELSE 0
PFee(p) == IF Priced(p) THEN (5 * p * (100 - p)) \div 100 ELSE 0
KOrderFee(p, n) == IF Priced(p) THEN 100 * ((7 * n * p * (100 - p) + 9999) \div 10000) ELSE 0

Crossed(bid, ask) == bid # None /\ ask # None /\ bid > ask

Stale(px) == Crossed(px.p_yb, px.p_ya) \/ Crossed(px.k_yb, px.k_ya)

\* A direction is priced on the two quotes it needs.
Quoted(px, d) == IF d = "P" THEN px.p_ya # None /\ px.k_yb # None
                            ELSE px.k_ya # None /\ px.p_yb # None

YesAsk(px, d) == IF d = "P" THEN px.p_ya ELSE px.k_ya
NoAsk(px, d)  == 100 - (IF d = "P" THEN px.k_yb ELSE px.p_yb)

NetOf(px, d) ==
  100 * (100 - YesAsk(px, d) - NoAsk(px, d))
  - (IF d = "P" THEN PFee(YesAsk(px, d)) + KFee(NoAsk(px, d))
                ELSE KFee(YesAsk(px, d)) + PFee(NoAsk(px, d)))

\* signal: the better of the directions that can be priced, P on a tie; edge_state: what of it is kept.
EdgeState(px) ==
  LET opts == {d \in Dirs : Quoted(px, d) /\ ~ Stale(px)}
      best == IF "P" \in opts /\ \A d \in opts : NetOf(px, "P") >= NetOf(px, d) THEN "P" ELSE "K"
  IN  IF opts = {} THEN [arb |-> FALSE, dir |-> "P", net |-> 0]
      ELSE [arb |-> NetOf(px, best) > 0, dir |-> best, net |-> NetOf(px, best)]

\* reverse_net_edge (flip_add_backtest.py): the edge of a flip is recomputed from its quotes.
ReverseEdge(px) == [dir |-> EdgeState(px).dir, net |-> EdgeState(px).net]

\* make_px: nothing to price unless a direction has both its quotes.
Evaluated(px) == \E d \in Dirs : Quoted(px, d)

Classify(prev, new) ==
  IF prev = None \/ ~ prev.arb THEN IF new.arb THEN "OPEN" ELSE None
  ELSE IF ~ new.arb THEN "CLOSE"
  ELSE IF new.dir # prev.dir THEN "FLIP"
  ELSE IF new.net - prev.net > Eps THEN "WIDEN"
  ELSE IF prev.net - new.net > Eps THEN "NARROW"
  ELSE None
=============================================================================
