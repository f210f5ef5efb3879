------------------------------ MODULE GameBooks ------------------------------
(***************************************************************************)
(* The books of one game in the collector: the Kalshi stream of its two    *)
(* tickers (src/bot/kalshi_book.py KalshiBook and SeqTracker, run_live's   *)
(* kalshi_stream), pmus's frames, and the GameTracker that prices them     *)
(* (src/bot/monitor.py).                                                   *)
(***************************************************************************)
EXTENDS Ladders

CONSTANTS
  PmBooks,    \* what pmus may show: [bids, offers]
  Rests,      \* the prices at which Kalshi orders rest
  Opening,    \* what rests on each ticker at first
  Deltas,     \* the changes of a level
  Scenarios   \* the bounds: changes of the books, pmus frames, lost frames and connections, and fires

Teams == {"A", "B"}
Sides == {"yes", "no"}
Book  == [Sides -> [Rests -> Nat]]

\* Prices are cents, and the ladders of pmus come best first ("already sorted best-first", best_px).
ASSUME GameBooksAssumption ==
  /\ Rests \subseteq Int /\ IsFiniteSet(Rests)
  /\ \A b \in PmBooks : /\ {b.bids, b.offers} \subseteq Seq([px : Int, qty : Nat])
                         /\ Ascends(b.offers) /\ Ascends(Mirrored(b.bids))
  /\ Opening \in [Teams -> Book] /\ Deltas \subseteq Int
  /\ None \notin Book /\ None \notin [arb : BOOLEAN, dir : GameDirs, net : Int]

VARIABLES
  left,     \* what is left of the bounds
  venue,    \* Kalshi's books
  wire,     \* the frames under way
  sent,     \* the number of the next frame
  link,     \* the connection is up
  expected, \* SeqTracker.expected
  books,    \* the collector's, or None
  tracker,  \* the GameTracker
  shown     \* Kalshi's books when it sent the last frame taken

bookVars == <<left, venue, wire, sent, link, expected, books, tracker, shown>>

Blank == [pm |-> None, pmBid |-> None, pmAsk |-> None, k |-> [t \in Teams |-> None],
          book |-> [t \in Teams |-> None], state |-> None]

BooksInit ==
  /\ left \in Scenarios /\ venue = Opening
  /\ wire = <<>> /\ sent = 1 /\ link = FALSE /\ expected = None
  /\ books = [t \in Teams |-> None] /\ tracker = Blank /\ shown = Opening

Spend(what) == left[what] > 0 /\ left' = [left EXCEPT ![what] = @ - 1]

(* --------------------------------- Kalshi ------------------------------- *)
GameFrame(n, t, type, body) == [seq |-> n, ticker |-> t, type |-> type, body |-> body, after |-> venue']

\* Orders are placed and taken.
Rest(t, s, p, n) ==
  /\ Spend("changes")
  /\ venue[t][s][p] + n >= 0
  /\ venue' = [venue EXCEPT ![t][s][p] = @ + n]
  /\ IF link THEN /\ wire' = Append(wire, GameFrame(sent, t, "delta", [side |-> s, px |-> p, by |-> n]))
                  /\ sent' = sent + 1
     ELSE UNCHANGED <<wire, sent>>
  /\ UNCHANGED <<link, expected, books, tracker, shown>>

Lose ==
  /\ Spend("losses") /\ wire # <<>>
  /\ wire' = Tail(wire)
  /\ UNCHANGED <<venue, sent, link, expected, books, tracker, shown>>

Drop ==
  /\ Spend("losses") /\ link
  /\ link' = FALSE /\ wire' = <<>>
  /\ UNCHANGED <<venue, sent, expected, books, tracker, shown>>

\* A fresh connection: no books, no expectation, and a snapshot of each ticker.
Connect ==
  /\ ~ link /\ link' = TRUE
  /\ expected' = None /\ books' = [t \in Teams |-> None]
  /\ UNCHANGED venue
  /\ \E first \in Teams :
       LET other == CHOOSE t \in Teams : t # first
       IN  wire' = <<GameFrame(1, first, "snapshot", venue[first]), GameFrame(2, other, "snapshot", venue[other])>>
  /\ sent' = 3
  /\ UNCHANGED <<left, tracker, shown>>

(* ------------------------------- the tracker ---------------------------- *)
\* GameTracker.evaluate: what cannot be priced leaves the state.
Evaluated2(g) ==
  LET new == GameEdge(g.pmBid, g.pmAsk, g.k["A"], g.k["B"])
  IN  [g EXCEPT !.state = IF new = None THEN @ ELSE new]

\* set_kalshi and feed_kalshi
FedKalshi(t, book) ==
  Evaluated2([pm |-> tracker.pm, pmBid |-> tracker.pmBid, pmAsk |-> tracker.pmAsk, state |-> tracker.state,
              k |-> [tracker.k EXCEPT ![t] = BestPx(OfferPairs(book))], book |-> [tracker.book EXCEPT ![t] = book]])

\* set_pm and feed_pm
PmFrame(b) ==
  /\ Spend("frames")
  /\ tracker' = Evaluated2([pm |-> b, pmBid |-> BestPx(b.bids), pmAsk |-> BestPx(b.offers), state |-> tracker.state,
                             k |-> tracker.k, book |-> tracker.book])
  /\ UNCHANGED <<venue, wire, sent, link, expected, books, shown>>

\* Mutant of InSequence: a gap is not noticed.
BugInSequence(f) == TRUE

\* SeqTracker.check: any number is right at first.
InSequence(f) == expected = None \/ f.seq = expected

\* A frame was missed: the connection is closed.
SeqGap ==
  /\ link /\ wire # <<>> /\ ~ InSequence(Head(wire))
  /\ link' = FALSE /\ wire' = <<>>
  /\ UNCHANGED <<left, venue, sent, expected, books, tracker, shown>>

\* The book a frame makes; a delta of a ticker without one makes none.
Applied(f) ==
  IF f.type = "snapshot" THEN f.body
  ELSE IF books[f.ticker] = None THEN None
  ELSE ApplyDelta(books[f.ticker], f.body.side, f.body.px, f.body.by)

KalshiFrame ==
  /\ link /\ wire # <<>>
  /\ LET f == Head(wire) IN
       /\ InSequence(f)
       /\ wire' = Tail(wire) /\ expected' = f.seq + 1 /\ shown' = f.after
       /\ books' = [books EXCEPT ![f.ticker] = Applied(f)]
       /\ tracker' = IF Applied(f) = None THEN tracker ELSE FedKalshi(f.ticker, Applied(f))
  /\ UNCHANGED <<left, venue, sent, link>>

BooksNext ==
  \/ \E t \in Teams, s \in Sides, p \in Rests, n \in Deltas : Rest(t, s, p, n)
  \/ Lose \/ Drop \/ Connect \/ SeqGap \/ KalshiFrame
  \/ \E b \in PmBooks : PmFrame(b)

(***************************************************************************)
(* Properties                                                              *)
(***************************************************************************)
BooksTypeOK ==
  /\ venue \in [Teams -> Book] /\ shown \in [Teams -> Book] /\ books \in [Teams -> Book \cup {None}]
  /\ expected = None \/ expected \in Nat
  /\ \A i \in 1..Len(wire) - 1 : wire[i].seq < wire[i + 1].seq

\* A book the collector holds is the venue's as of the last frame taken: neither a lost frame, nor one lost before the
\* first, nor a reconnect leaves a book that was never there.  (SeqTracker, the cycle on a gap, books.clear().)
BookIsVenues == link => \A t \in Teams : books[t] # None => books[t] = shown[t]

\* What the tracker prices is the touch of the ladder it measures depth on, and an edge it holds is of its last
\* quotes unless they could not be priced.
TrackerOfOneBook ==
  /\ \A t \in Teams : tracker.k[t] = IF tracker.book[t] = None THEN None ELSE BestPx(OfferPairs(tracker.book[t]))
  /\ LET e == GameEdge(tracker.pmBid, tracker.pmAsk, tracker.k["A"], tracker.k["B"])
     IN  e # None => tracker.state = e

\* The stream's books and the tracker's view of them.
BooksInv == BooksTypeOK /\ BookIsVenues /\ TrackerOfOneBook

\* How many units the first levels of a ladder offer, and what the n-th unit costs.
Units(ladder) ==
  LET sum[i \in 0..Len(ladder)] == IF i = 0 THEN 0 ELSE sum[i - 1] + ladder[i].qty IN sum
UnitPrice(ladder, n) ==
  ladder[CHOOSE i \in 1..Len(ladder) : Units(ladder)[i - 1] < n /\ n <= Units(ladder)[i]].px

\* The units that both ladders have, and the first ones that pay a threshold, one by one.
Both(a, b) == {n \in 1..Units(a)[Len(a)] : n <= Units(b)[Len(b)]}
Pairs(a, b, t) == Cardinality({n \in Both(a, b) : \A m \in 1..n : Pays(UnitPrice(a, m), UnitPrice(b, m), t)})

\* The pairs that bring at least this many cents.
Bringing(a, b, c) == Cardinality({n \in Both(a, b) : 100 - UnitPrice(a, n) - UnitPrice(b, n) >= c})

Whole(ladder) == \A i \in DOMAIN ladder : ladder[i].qty > 0

\* The depth logged with an edge is what can be filled: as many pairs as pay the threshold when the ladders are bought
\* unit by unit, and never more when a venue shows an empty level.  In cents: none that brings less than the threshold,
\* and all that bring more; those at the threshold itself count as their floats fall.  (depth_curve, the two _depth.)
DepthIsThere ==
  \A d \in GameDirs :
    LET pm == tracker.pm
        depth == GameDepth(pm, tracker.book["A"], tracker.book["B"], d)
        a == IF d = "PK" THEN pm.offers ELSE OfferPairs(tracker.book["A"])
        b == IF d = "PK" THEN OfferPairs(tracker.book["B"]) ELSE Mirrored(pm.bids)
    IN  depth # None => \A t \in Thresholds :
          /\ depth[t] <= Pairs(a, b, t)
          /\ Whole(a) /\ Whole(b) => depth[t] = Pairs(a, b, t)
          /\ depth[t] <= Bringing(a, b, t)
          /\ Whole(a) /\ Whole(b) => depth[t] >= Bringing(a, b, t + 1)
          /\ t > 0 => depth[t] <= depth[t - 1]

\* A game is priced as the market of its team A would be, B's asks read as A's bids: the two trackers agree on whether
\* there is an edge, its direction, its size and its depth, unless Kalshi's own two asks cross or the guard holds.
\* (game_edge against signal, GameTracker._depth against MarketTracker._depth.)
GamesAreSignals ==
  LET g == tracker
      px == [p_yb |-> g.pmBid, p_ya |-> g.pmAsk, k_ya |-> g.k["A"],
             k_yb |-> IF g.k["B"] = None THEN None ELSE 100 - g.k["B"]]
      game == GameEdge(g.pmBid, g.pmAsk, g.k["A"], g.k["B"])
      one  == EdgeState(px)
      binary == BinaryDepth(g.pm, [bids |-> Mirrored(OfferPairs(g.book["B"])), offers |-> OfferPairs(g.book["A"])], one.dir)
  IN  ~ Stale(px) /\ ~ Misoriented(g.pmBid, g.pmAsk, g.k["A"]) =>
        IF game = None THEN ~ Evaluated(px)
        ELSE /\ [arb |-> game.arb, dir |-> game.dir = "PK", net |-> game.net]
                = [arb |-> one.arb, dir |-> one.dir = "P", net |-> one.net]
             /\ g.book["A"] # None /\ g.book["B"] # None /\ g.pm # None /\ binary # None
                  => binary = GameDepth(g.pm, g.book["A"], g.book["B"], game.dir)

\* What is logged of a game is there to be bought: its edge, its direction and its depth.
GamesArePriced == DepthIsThere /\ GamesAreSignals
=============================================================================
