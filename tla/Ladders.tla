------------------------------- MODULE Ladders -------------------------------
(***************************************************************************)
(* Whole books (src/bot/kalshi_book.py KalshiBook, src/bot/monitor.py      *)
(* depth_curve and game_edge): a ladder is a sequence of levels, the best  *)
(* first; a side of a Kalshi book is what rests at each price.             *)
(***************************************************************************)
EXTENDS Quotes, Sequences, FiniteSets

CONSTANT Short  \* the two asks whose edge, a float, falls below the threshold that it makes exactly in cents

GameDirs == {"PK", "KP"}

Level(p, q) == [px |-> p, qty |-> q]

(* ------------------------------ a Kalshi book --------------------------- *)
\* Both sides are bids: the best has none above it, the next one has one.
Ranked(side) ==
  LET held == {p \in DOMAIN side : side[p] > 0}
      nth(i) == CHOOSE p \in held : Cardinality({x \in held : x > p}) = i - 1
  IN  [i \in 1..Cardinality(held) |-> Level(nth(i), side[nth(i)])]

\* _no_ask_pairs: who bids for one side offers the other.
Mirrored(bids) == [i \in DOMAIN bids |-> Level(100 - bids[i].px, bids[i].qty)]

\* yes_bid_ladder, offer_pairs and yes_offer_ladder, best_px and best.
BidLadder(book)  == Ranked(book.yes)
OfferPairs(book) == Mirrored(Ranked(book.no))
BestPx(ladder)   == IF ladder = <<>> THEN None ELSE ladder[1].px

\* apply_delta: a level that is used up goes.
ApplyDelta(book, side, p, n) == [book EXCEPT ![side][p] = IF @ + n > 0 THEN @ + n ELSE 0]

(* --------------------------------- depth -------------------------------- *)
Thresholds == 0..2

\* Asks come best first.
Ascends(ladder) == \A i, j \in DOMAIN ladder : i < j => ladder[i].px <= ladder[j].px

\* The size of a level, 0 beyond the last.
SizeAt(ladder, i) == IF i <= Len(ladder) THEN ladder[i].qty ELSE 0

\* The float 1.0 - a - b reaches a threshold: beyond it always, at it as the rounding has it (0.56 and 0.42 leave 0.0199...).
Pays(a, b, t) == LET edge == 100 - a - b IN edge > t \/ (edge = t /\ <<a, b>> \notin Short)

\* One turn of the walk over two ask ladders: the levels reached, what is left of them, and the pairs found.
Walked(a, b, w) ==
  LET pays(t) == Pays(a[w.i].px, b[w.j].px, t)
      step == IF w.ra < w.rb THEN w.ra ELSE w.rb
  IN  IF w.i > Len(a) \/ w.j > Len(b) THEN w
      ELSE IF ~ pays(0) \/ step = 0 THEN w
      ELSE [i  |-> IF w.ra = step THEN w.i + 1 ELSE w.i,
            j  |-> IF w.rb = step THEN w.j + 1 ELSE w.j,
            ra |-> IF w.ra = step THEN SizeAt(a, w.i + 1) ELSE w.ra - step,
            rb |-> IF w.rb = step THEN SizeAt(b, w.j + 1) ELSE w.rb - step,
            out |-> [t \in Thresholds |-> IF pays(t) THEN w.out[t] + step ELSE w.out[t]]]

\* depth_curve: each turn uses up a level of one ladder, or is the last.
DepthCurve(a, b) ==
  LET walk[n \in 0..(Len(a) + Len(b))] ==
        IF n = 0 THEN [i |-> 1, j |-> 1, ra |-> SizeAt(a, 1), rb |-> SizeAt(b, 1), out |-> [t \in Thresholds |-> 0]]
        ELSE Walked(a, b, walk[n - 1])
  IN  walk[Len(a) + Len(b)].out

\* MarketTracker._depth: YES at one venue's offers, NO at the other's bids.
BinaryDepth(p, k, d) ==
  LET yes == IF d = "P" THEN p.offers ELSE k.offers
      no  == IF d = "P" THEN k.bids ELSE p.bids
  IN  IF yes = <<>> \/ no = <<>> THEN None ELSE DepthCurve(yes, Mirrored(no))

(* --------------------------------- games -------------------------------- *)
Gap(x, y) == IF x > y THEN x - y ELSE y - x

\* C3: pmus's YES and Kalshi's team A price the same team.  (Floats: 0.81 and 0.41 are more than 0.40 apart.)
Misoriented(pmBid, pmAsk, ka) ==
  LET pm == IF pmAsk # None THEN pmAsk ELSE pmBid IN pm # None /\ ka # None /\ (Gap(pm, ka) > 40 \/ {pm, ka} = {41, 81})

GameNet(d, pmBid, pmAsk, ka, kb) ==
  IF d = "PK" THEN 100 * (100 - pmAsk - kb) - PFee(pmAsk) - KFee(kb)
              ELSE 100 * (pmBid - ka) - KFee(ka) - PFee(100 - pmBid)

\* Mutant of GameEdge: back B costs pmus's bid.
BugGameEdge(pmBid, pmAsk, ka, kb) ==
  LET opts == {d \in GameDirs : IF d = "PK" THEN pmAsk # None /\ kb # None ELSE ka # None /\ pmBid # None}
      net(d) == IF d = "PK" THEN GameNet(d, pmBid, pmAsk, ka, kb) ELSE GameNet(d, 100 - pmBid, pmAsk, ka, kb)
      best == IF "PK" \in opts /\ \A d \in opts : net("PK") >= net(d) THEN "PK" ELSE "KP"
  IN  IF Crossed(pmBid, pmAsk) \/ Misoriented(pmBid, pmAsk, ka) \/ opts = {} THEN None
      ELSE [arb |-> net(best) > 0, dir |-> best, net |-> net(best)]

\* game_edge: A at one venue and B at the other, the better way.
GameEdge(pmBid, pmAsk, ka, kb) ==
  LET opts == {d \in GameDirs : IF d = "PK" THEN pmAsk # None /\ kb # None ELSE ka # None /\ pmBid # None}
      net(d) == GameNet(d, pmBid, pmAsk, ka, kb)
      best == IF "PK" \in opts /\ \A d \in opts : net("PK") >= net(d) THEN "PK" ELSE "KP"
  IN  IF Crossed(pmBid, pmAsk) \/ Misoriented(pmBid, pmAsk, ka) \/ opts = {} THEN None
      ELSE [arb |-> net(best) > 0, dir |-> best, net |-> net(best)]

\* GameTracker._depth
GameDepth(pm, ka, kb, d) ==
  IF pm = None \/ ka = None \/ kb = None THEN None
  ELSE DepthCurve(IF d = "PK" THEN pm.offers ELSE OfferPairs(ka), IF d = "PK" THEN OfferPairs(kb) ELSE Mirrored(pm.bids))
=============================================================================
