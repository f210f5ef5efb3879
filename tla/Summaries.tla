------------------------------ MODULE Summaries ------------------------------
(***************************************************************************)
(* The numbers that are read from a reconciled pass: the tallies and the   *)
(* evidence of settle_recon.py, the revision rates of cli_revisions.py,    *)
(* the audit of settlement_identity.py and the verdict summary of          *)
(* colisted_map.py; and what a pair is worth that is sold before it        *)
(* settles (early_exit_ev.py).                                             *)
(***************************************************************************)
EXTENDS Recon

Days == {Day, Day + 1}

(* -------------------------------- the tallies --------------------------- *)
Of(day, status) == {r \in day : r.status = status}

\* summarize_weather: the rows of a day by status, the legs against the report, and the value Kalshi recorded.
Summary(day, truth, recorded) ==
  [agree |-> Cardinality(Of(day, "agree")), diverge |-> Cardinality(Of(day, "DIVERGE")),
   compared |-> Cardinality(Of(day, "agree") \cup Of(day, "DIVERGE")),
   pending |-> Cardinality(Of(day, "pm_unresolved") \cup Of(day, "kal_unsettled")),
   inconsistent |-> Cardinality(Of(day, "pm_inconsistent")),
   mismatches |-> {<<"K", r.slug>> : r \in {x \in day : x.kalCli = "MISMATCH"}}
                  \cup {<<"P", r.slug>> : r \in {x \in day : x.pmCli = "MISMATCH"}},
   value |-> IF NA \in {truth, recorded} THEN NA ELSE IF recorded = truth THEN "match" ELSE "MISMATCH"]

\* report: the verdict on weather, none when nothing could be compared.
WeatherHeadline(s) ==
  IF s.compared = 0 THEN NA
  ELSE [identical |-> <<s.agree, s.compared>>, divergences |-> s.diverge, mismatches |-> Cardinality(s.mismatches)]

\* main: the raw answers of the venues are kept wherever something needs proving.
Evidence(day) ==
  {r \in day : r.status # "agree" \/ r.kalCli = "MISMATCH" \/ r.pmCli = "MISMATCH"}

Recorded == RecordedValue({read["K"]} \ {NA})

(* --------------------------------- the audit ---------------------------- *)
\* The text of a market that the second fetch of the catalog did not return: its slug is all there is.
Silenced(t) == [f \in DOMAIN t |-> IF f = "window" THEN NA ELSE {}]

\* _audit: the gate again over what discovery joined.
AuditVerdict(p, listed) == Verdict(p.pm, p.k, IF p.pm \in listed THEN sc.pr ELSE Silenced(sc.pr))

Statuses == {"IDENTICAL", "TAIL", "DIVERGENT", "NEEDS_MANUAL"}

Audit(listed) ==
  LET said == {[slug |-> p.pm, is |-> AuditVerdict(p, listed)] : p \in pairs}
  IN  [counts |-> [s \in Statuses |-> Cardinality({x \in said : x.is.status = s})],
       tails  |-> {<<x.slug, x.is.cost>> : x \in {y \in said : y.is.status = "TAIL"}}]

\* settle_verdict_line and settle_divergent_pairs, from the stamps of the pass.
VerdictLine    == [s \in Statuses |-> Cardinality({p \in pairs : p.verdict.status = s})]
DivergentPairs == {p \in pairs : p.verdict.status = "DIVERGENT"}

(***************************************************************************)
(*                               Properties                                *)
(***************************************************************************)
\* The walk over the retained issuances gives each date that was asked for the last of its retained ones, whatever else
\* was asked for; and where the log has every report, none lost, it is the value of the log.
WalkReadsTheFinal ==
  \A need \in (SUBSET Days) \ {{}} :
    LET kept == SubSeq(tape, Larger(1, Len(tape) - Retained + 1), Len(tape))
        out  == NwsWalk(tape, need)
    IN  \A d \in need : /\ out[d] = LastOf(MaxesOf(kept, d))
                        /\ InTime /\ dropped = {} /\ out[d] # NA => CliFinals(log, d).final = out[d]

\* The revision rates read from the log are those of what was issued, crashes or not, and was not lost to a failed write;
\* the reconciliation calls the same dates revised; and when nothing was lost a fall between the grades of the venues is
\* one of the downward days, which the report calls an upper bound on the losses.
RevisionsAreTheTape ==
  InTime =>
    /\ RevisionReport(log) = RevisionReport(Kept)
    /\ Downward(log) \subseteq Revised(log)
    /\ \A d \in Days : CliFinals(log, d).revised <=> d \in Revised(log)
    /\ dropped = {} /\ sc.topic = "weather" /\ NA \notin {read["P"], read["K"]} /\ read["K"] < read["P"] => Day \in Downward(log)

\* The collector's log is what was issued and could be written, and the maxima and the revisions are read from it, and from the service, as
\* they were issued.
ReportsAreRead == ReportsAreKept /\ WalkReadsTheFinal /\ RevisionsAreTheTape

\* An audit of the catalog it was stamped from counts what the verdict line counts and prices every tail; without the
\* text of a game or a bucket it never says anything but that it is unknown, or differs by what Kalshi and the slug say.
AuditIsCautious ==
  LET audit == Audit({p.pm : p \in pairs})
  IN  /\ audit.counts = VerdictLine
      /\ \A t \in audit.tails : t[2] > 0
      /\ sc.topic # "econ" => \A p \in pairs : \/ AuditVerdict(p, {}).status = "NEEDS_MANUAL"
                                               \/ AuditVerdict(p, {}).status = "DIVERGENT" /\ p \in DivergentPairs

\* The gate is right, for the pairs it stamps and for those it audits.
VerdictsHold == VerdictIsSound /\ AuditIsCautious

\* A summary of a graded day counts as divergences the joined buckets the venues graded differently, and compares all
\* the others; each divergence is against the report for one of the two; its evidence is kept; the recorded value
\* contradicts the report just when the report in hand is not the one Kalshi graded.  An interim day compares nothing.
DayIsCounted ==
  LET truth == Truth(log, tape, Day)
      s     == Summary(rows', truth, Recorded)
      split == {p.pm : p \in {x \in pairs : PmPays(x.pm, read["P"]) # PmPays(x.pm, read["K"])}}
  IN  /\ interim => s.compared = 0 /\ WeatherHeadline(s) = NA
      /\ Final => /\ s.compared = Cardinality(pairs) /\ s.pending + s.compared = Cardinality(rows')
                  /\ s.diverge = Cardinality(split)
                  /\ split \subseteq {r.slug : r \in Evidence(rows')}
                  /\ truth # NA => /\ \A x \in split : (<<"K", x>> \in s.mismatches) # (<<"P", x>> \in s.mismatches)
                                   /\ s.value = "MISMATCH" <=> truth # read["K"]

\* What a comparison of a weather day tells, its rows and its numbers.
DayIsToldAndCounted ==
  [][sc.topic = "weather" /\ (\E tracked \in BOOLEAN : Reconcile(tracked)) => DayIsTold /\ DayIsCounted]_vars

(***************************************************************************)
(* Selling a pair in the evening instead of holding it to settlement       *)
(* (src/scripts/early_exit_ev.py), beside the ledger and the grades.       *)
(* Money is in hundredths of a cent, a probability in ten-thousandths.     *)
(***************************************************************************)
Dollar == 10000
PmTop  == 99

(* ------------------------------- the population ------------------------- *)
\* cli_prints: the maximum of a date as it was first logged.
CliPrint(d) == LET c == Chain(log, d) IN IF c = <<>> THEN NA ELSE c[1]

\* weather_tilings: the buckets of the day among the slugs of the archive.
Tiling == {PmBounds(p.pm) : p \in {x \in pairs : ~ Open(PmBounds(x.pm))}}

\* boundary_day_rate: the print is the lowest degree of its bucket; NA when it fell into none.
BoundaryDay(m) ==
  LET win == {b \in Tiling : BucketHit(b, m)} IN IF win = {} THEN NA ELSE \E b \in win : b.lo = m

\* held_weather_pairs, classify_population: what could be held, against the print.
Population(m) == {[pm |-> p.pm, k |-> p.k, dir |-> d, is |-> ClassifyPair(PmBounds(p.pm), d, m)] : p \in pairs, d \in Dirs}

(* --------------------------------- the exit ----------------------------- *)
\* p_eff: a fall of two is frac2 percent of the falls, a larger one none.
PEff(p1, req, frac2) == IF req = NA THEN 0 ELSE IF req <= 1 THEN p1 ELSE IF req = 2 THEN (p1 * frac2) \div 100 ELSE 0

\* exit_fee
ExitFee(v, p) == IF v = "K" THEN KFee(p) ELSE PFee(p)

\* exit_proceeds: the winning leg at its bid, or as a maker at the ask, up to the cap.  A Kalshi maker pays nothing,
\* one on pmus is paid.
MakerPrice(win, bid, ask) == Smaller(IF win = "K" THEN ask ELSE bid, PmTop)
MakerRebate(win, p)       == IF win = "K" THEN 0 ELSE (5 * p * (100 - p)) \div 400

TakerProceeds(win, bid)      == 100 * bid - ExitFee(win, bid)
MakerProceeds(win, bid, ask) == LET p == MakerPrice(win, bid, ask) IN 100 * p + MakerRebate(win, p)
LosingLeg(win, bid)          == IF bid > 0 THEN 100 * bid - ExitFee(Other(win), bid) ELSE 0

\* Mutant of DeltaExit: a favorable pair that sells both legs keeps its lottery.
BugDeltaExit(status, pe, ctv, proceeds, both) ==
  CASE status = "exposed"   -> proceeds + ctv - (Dollar - pe)
    [] status = "favorable" -> proceeds + ctv + pe - (Dollar + pe)
    [] OTHER -> proceeds + ctv - Dollar

\* delta_exit_minus_hold: an exposed pair sheds the fall, a favorable one keeps its lottery unless both legs are sold.
DeltaExit(status, pe, ctv, proceeds, both) ==
  CASE status = "exposed"   -> proceeds + ctv - (Dollar - pe)
    [] status = "favorable" -> proceeds + ctv + (IF both THEN 0 ELSE pe) - (Dollar + pe)
    [] OTHER -> proceeds + ctv - Dollar

\* breakeven_p
Breakeven(proceeds, ctv) == Dollar - proceeds - ctv

\* policy_ev: all of the population exits, or the exposed pairs a degree from the boundary.
PolicyEV(pop, which, delta) ==
  MapThenSumSet(LAMBDA c : delta[c], {c \in pop : which = "all" \/ (c.is.status = "exposed" /\ c.is.req = 1)})

(* -------------------------- properties of an exit ------------------------ *)
One(d) == [Flat EXCEPT !.yes[d] = 1, !.no[Other(d)] = 1]

\* The winning leg is the YES leg when the print is in the bucket, and what it is bid and asked on a book.
YesWins(c, m) == PmPays(c.pm, m)
LegBid(c, m, px) == IF YesWins(c, m) THEN YesBid(px, c.is.win) ELSE NoBid(px, c.is.win)
LegAsk(c, m, px) == LET v == c.is.win
                    IN  IF YesWins(c, m) THEN IF v = "P" THEN px.p_ya ELSE px.k_ya
                        ELSE IF YesBid(px, v) = None THEN None ELSE 100 - YesBid(px, v)
OtherBid(c, m, px) == LET v == Other(c.is.win) IN IF YesWins(c, m) THEN NoBid(px, v) ELSE YesBid(px, v)

\* The pair after its winning leg was sold.
Rest(c, m) == IF YesWins(c, m) THEN [One(c.dir) EXCEPT !.yes[c.dir] = 0] ELSE [One(c.dir) EXCEPT !.no[Other(c.dir)] = 0]

\* On the evening the day's first report is logged, whatever could have been bought: whatever the fall before Kalshi
\* grades, up to the two degrees that p_eff knows, the difference that is computed for an exit is what the ledger makes
\* of it, for one leg and for both, and over the whole population; the fee stays within a cent of the order's; an
\* exposed pair should go just above the breakeven; and a boundary day is one on which a degree is enough for a pair
\* bought on Kalshi.
ExitIsPriced(m) ==
  /\ \A px \in Books, fall \in 0..2 :
       LET pop      == Population(m)
           bids     == {c \in pop : None \notin {LegBid(c, m, px), OtherBid(c, m, px), LegAsk(c, m, px)}}
           won(c)   == [v \in Venues |-> IF v = "P" THEN PmPays(c.pm, m) ELSE KalPays(c.k, m - fall)]
           pe(c)    == PEff(IF fall = 0 THEN 0 ELSE Dollar, c.is.req, IF fall = 2 THEN 100 ELSE 0)
           sold(c)  == TakerProceeds(c.is.win, LegBid(c, m, px))
           both(c)  == sold(c) + LosingLeg(c.is.win, OtherBid(c, m, px))
           hold(c)  == GradedPnl(One(c.dir), won(c))
           delta(c) == DeltaExit(c.is.status, pe(c), 0, sold(c), FALSE)
           gains    == [c \in bids |-> delta(c)]
           real(c)  == sold(c) + GradedPnl(Rest(c, m), won(c)) - hold(c)
       IN  /\ \A c \in bids :
                /\ delta(c) = real(c)
                /\ DeltaExit(c.is.status, pe(c), 0, both(c), TRUE) = both(c) - hold(c)
                /\ both(c) - Proceeds(One(c.dir), px) \in 0..99
                /\ LegAsk(c, m, px) >= LegBid(c, m, px)
                     => MakerProceeds(c.is.win, LegBid(c, m, px), LegAsk(c, m, px)) >= sold(c)
                /\ c.is.status = "exposed" /\ c.is.req <= fall => (delta(c) > 0 <=> Dollar > Breakeven(sold(c), 0))
           /\ PolicyEV(bids, "all", gains) = MapThenSumSet(real, bids)
           /\ fall = 1 => PolicyEV(bids, "boundary", gains)
                          = MapThenSumSet(sold, {c \in bids : c.is.status = "exposed" /\ won(c)["K"] # YesWins(c, m)})
  /\ BoundaryDay(m) # NA => (BoundaryDay(m) <=> \E c \in Population(m) : YesWins(c, m) /\ c.dir = "K" /\ c.is.req = 1)

ExitsArePriced == [][LET m == CliPrint(Day)' IN trades = 0 /\ read["P"] = NA /\ CliPrint(Day) = NA /\ m # NA => ExitIsPriced(m)]_vars

\* What a held pair is worth is what was promised of it, held through a correction or sold before it.
PositionsHold == []PositionsPay /\ ExitsArePriced
=============================================================================
