----------------------------- MODULE Settlement -----------------------------
(***************************************************************************)
(* What the analyses read from settled markets: the daily maximum out of   *)
(* the climate reports (src/scripts/cli_revisions.py, settle_recon.py),    *)
(* the three-way comparison of a day, of games and of a release            *)
(* (settle_recon.py), and what a late correction does to a held pair       *)
(* (early_exit_ev.py).                                                     *)
(***************************************************************************)
EXTENDS Identity

CONSTANTS
  Retained,    \* issuances that the weather service still serves
  MaxVersions  \* nws_cli_walk's max_versions

Larger(x, y)  == IF x > y THEN x ELSE y
Smaller(x, y) == IF x < y THEN x ELSE y

(* ------------------------------ daily maximum --------------------------- *)
MaxesOf(rows, d) == [i \in DOMAIN SelectSeq(rows, LAMBDA r : r.date = d) |->
                      SelectSeq(rows, LAMBDA r : r.date = d)[i].max]

LastOf(s) == IF s = <<>> THEN NA ELSE Last(s)

\* cli_finals: the last maximum logged for a date, the ones that were logged, and whether they differ.
CliFinals(rows, d) ==
  LET m == MaxesOf(rows, d) IN [final |-> LastOf(m), values |-> Range(m), revised |-> Cardinality(Range(m)) > 1]

\* What the weather service still serves as version v, newest first: past the retained ones it repeats the oldest.
Version(tape, v) == Larger(1, Len(tape) + 1 - Smaller(v, Retained))

\* Mutant of WalkEnds: the walk ends at the first date it was not asked for.
BugWalkEnds(found, need, date) == date \notin need

\* nws_cli_walk has enough: every date is found, or it has passed the oldest one.
WalkEnds(found, need, date) == need \subseteq found \/ date < Min(need)

\* nws_cli_walk: the first issuance met for a date is its last one.  The walk also ends when a version repeats.
NwsWalk(tape, need) ==
  LET ask(w, v) ==
        LET i     == Version(tape, v)
            r     == tape[i]
            found == w.found \cup ({r.date} \cap need)
        IN  IF w.done THEN w
            ELSE IF i = w.last THEN [w EXCEPT !.done = TRUE]
            ELSE [last  |-> i, found |-> found,
                  out   |-> [d \in need |-> IF d = r.date /\ d \notin w.found THEN r.max ELSE w.out[d]],
                  done  |-> WalkEnds(found, need, r.date)]
      start == [last |-> NA, found |-> {}, out |-> [d \in need |-> NA], done |-> tape = <<>>]
  IN  FoldLeft(ask, start, [v \in 1..MaxVersions |-> v]).out

\* The independent maximum of a day: what was logged for it, else what the walk finds.
Truth(rows, tape, d) == IF MaxesOf(rows, d) # <<>> THEN CliFinals(rows, d).final ELSE NwsWalk(tape, {d})[d]

\* chains: equal neighbours are one value; cli_prints takes the first.
Chain(rows, d) ==
  FoldLeft(LAMBDA acc, m : IF acc # <<>> /\ Last(acc) = m THEN acc ELSE Append(acc, m), <<>>, MaxesOf(rows, d))

\* stat_group: the revisions of a chain, the largest fall below the highest value so far among them.
MaxDrop(chain) ==
  FoldLeft(LAMBDA acc, m : [hi |-> Larger(m, acc.hi), drop |-> Larger(acc.hi - m, acc.drop)],
           [hi |-> chain[1], drop |-> 0], chain).drop

StatGroup(chain) ==
  [obs |-> Len(chain), revised |-> Cardinality(Range(chain)) > 1, drop |-> MaxDrop(chain), down |-> MaxDrop(chain) > 0,
   first |-> chain[1], net |-> Last(chain) - chain[1]]

\* analyze: the dates with a revision and with a downward one.
Groups(rows)    == [d \in {r.date : r \in Range(rows)} |-> StatGroup(Chain(rows, d))]
Revised(rows)   == {d \in DOMAIN Groups(rows) : Groups(rows)[d].revised}
Downward(rows)  == {d \in DOMAIN Groups(rows) : Groups(rows)[d].down}

\* report: the rates, and the revised dates in detail.
RevisionReport(rows) ==
  [days |-> Cardinality(DOMAIN Groups(rows)), revised |-> Cardinality(Revised(rows)), downward |-> Cardinality(Downward(rows)),
   drops |-> [d \in Downward(rows) |-> Groups(rows)[d].drop], shown |-> [d \in Revised(rows) |-> Chain(rows, d)]]

(* ------------------------------- weather day ---------------------------- *)
\* Mutant of SlugFor: the open lower bucket is named by its last degree.
BugSlugFor(b) == IF Open(b) THEN NA ELSE [gte |-> b.lo, lt |-> b.hi]

\* pm_slug_for, the inverse of pm_bounds.
SlugFor(b) == IF Open(b) THEN NA
              ELSE IF b.lo = NA THEN [gte |-> NA, lt |-> b.hi + 1]
              ELSE [gte |-> b.lo, lt |-> b.hi]

BucketHit(b, mx) == (b.lo = NA \/ mx >= b.lo) /\ (b.hi = NA \/ mx <= b.hi)

\* One venue's grade against the report.
Leg(known, graded, hit) == IF ~ known THEN NA ELSE IF graded = hit THEN "match" ELSE "MISMATCH"

\* classify_day: rows of [slug, pm, kal], each grade TRUE, FALSE or NA, against the maximum.
ClassifyDay(buckets, truth) ==
  LET multi == Cardinality({b \in buckets : b.pm = TRUE}) > 1
      hit(b) == BucketHit(PmBounds(b.slug), truth)
      known  == truth # NA
      status(b) == IF b.pm = NA THEN "pm_unresolved"
                   ELSE IF b.kal = NA THEN "kal_unsettled"
                   ELSE IF multi THEN "pm_inconsistent"
                   ELSE IF b.pm = b.kal THEN "agree" ELSE "DIVERGE"
  IN  {[slug |-> b.slug, status |-> status(b),
        kalCli |-> Leg(known /\ b.kal # NA, b.kal, known /\ hit(b)),
        pmCli  |-> Leg(known /\ b.pm # NA /\ ~ multi, b.pm, known /\ hit(b))] : b \in buckets}

\* day_state
DayState(rows) ==
  LET st == {r.status : r \in rows}
  IN  IF "DIVERGE" \in st THEN "DIVERGE"
      ELSE IF "pm_inconsistent" \in st THEN "pm_inconsistent"
      ELSE IF st = {"agree"} THEN "clean"
      ELSE IF "agree" \in st THEN "partial" ELSE "pending"

\* kal_recorded_value: what Kalshi recorded for the day, if its buckets have one value.
RecordedValue(values) == IF Cardinality(values) = 1 THEN CHOOSE v \in values : TRUE ELSE NA

(* ------------------------- a correction and a held pair ----------------- *)
\* classify_pair: the exposure of a pair to a fall of the maximum m, how far it must fall, and the venue of its winning leg.
ClassifyPair(b, d, m) ==
  LET other == IF d = "P" THEN "K" ELSE "P"
  IN  IF BucketHit(b, m)
      THEN IF b.lo = NA THEN [status |-> "safe", req |-> NA, win |-> d]
           ELSE [status |-> IF d = "K" THEN "exposed" ELSE "favorable", req |-> m - b.lo + 1, win |-> d]
      ELSE IF b.hi # NA /\ b.hi < m
      THEN [status |-> IF d = "P" THEN "exposed" ELSE "favorable", req |-> m - b.hi, win |-> other]
      ELSE [status |-> "safe", req |-> NA, win |-> other]

(* ------------------------------ games and releases ---------------------- *)
\* recon_sports: the event of the slug's teams and date, and its winning key beside pmus's.
SportsRow(g, evs, pmWinner, kalKey) ==
  LET hit == PickGame(evs, g.a, g.b, g.slugDate, TRUE, {})
      kal == IF hit = NA THEN NA ELSE kalKey[hit.event]
  IN  IF pmWinner = NA \/ kal = NA THEN "unsettled_or_unjoined"
      ELSE IF pmWinner = kal THEN "agree" ELSE "DISAGREE"

\* kal_implied_print: the lowest floor that was not passed.
ImpliedPrint(ks, graded) ==
  LET no == {k.floor : k \in {x \in Range(ks) : x.floor # NA /\ graded[x] = FALSE}} IN IF no = {} THEN NA ELSE Min(no)

\* econ_reconcile: a row for what pmus says was decided, beside what Kalshi says; a row for every threshold, one for the
\* exact values.  A label without a sub-title and a twin without a result are unlike any.
KalWinner(ks, kal) == LET won == At(ks, SelectInSeq(ks, LAMBDA k : kal[k] = TRUE)) IN IF won = NA THEN NA ELSE won.label

CatRow(x, ks, kal) ==
  LET win == KalWinner(ks, kal)
  IN  IF win = NA THEN "pm_pending" ELSE IF FedLbl(x.label) = win THEN "agree" ELSE "DIVERGE"

EconRow(x, ks, pm, kal) ==
  LET twin == EconBind(x, ks)
  IN  IF twin = NA THEN "no_twin" ELSE IF pm = NA THEN "pm_pending"
      ELSE IF pm = kal[twin] THEN "agree" ELSE "DIVERGE"

PrintRow(xs, ks, pm, kal) ==
  LET imp == ImpliedPrint(ks, kal)
      won == At(xs, SelectInSeq(xs, LAMBDA x : x.ineq = "==" /\ pm[x] = TRUE))
  IN  IF imp = NA \/ won = NA THEN "pm_pending" ELSE IF imp = won.thr THEN "agree" ELSE "DIVERGE"
=============================================================================
