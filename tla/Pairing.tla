------------------------------ MODULE Pairing ------------------------------
(***************************************************************************)
(* How discovery joins the two catalogs (src/bot/colisted_map.py): weather *)
(* buckets by their bounds, games by teams and date, the three outcomes of *)
(* a soccer game by country, economic thresholds by the twin on the print  *)
(* grid.  A market is a record of what the joins read from it; what each   *)
(* venue pays on it stands beside the join, as the listing says.           *)
(***************************************************************************)
EXTENDS Integers, Sequences, FiniteSets, SequencesExt

CONSTANTS
  NA,    \* an absent field
  Step   \* the grid of an economic print

(* --------------------------------- weather ------------------------------ *)
\* pm_bounds and kbounds: the inclusive degrees of a bucket, NA where it is open.
PmBounds(p) == [lo |-> p.gte, hi |-> IF p.gte = NA /\ p.lt # NA THEN p.lt - 1 ELSE p.lt]

KBounds(k) ==
  IF k.floor = NA /\ k.cap # NA THEN [lo |-> NA, hi |-> k.cap - 1]
  ELSE IF k.cap = NA /\ k.floor # NA THEN [lo |-> k.floor + 1, hi |-> NA]
  ELSE [lo |-> k.floor, hi |-> k.cap]

Open(b) == b.lo = NA /\ b.hi = NA

\* The listings: a middle bucket holds both its ends on either venue, a tail is strict except pmus's "at least".
PmPays(p, t) ==
  /\ p.gte # NA => t >= p.gte
  /\ p.lt # NA  => IF p.gte = NA THEN t < p.lt ELSE t <= p.lt

KalPays(k, t) ==
  /\ k.floor # NA => IF k.cap = NA THEN t > k.floor ELSE t >= k.floor
  /\ k.cap # NA   => IF k.floor = NA THEN t < k.cap ELSE t <= k.cap

At(s, i) == IF i = 0 THEN NA ELSE s[i]

\* pair_weather_date: the first Kalshi bucket with the same bounds.
WeatherTwin(p, ks) ==
  IF Open(PmBounds(p)) THEN NA
  ELSE At(ks, SelectInSeq(ks, LAMBDA k : KBounds(k) = PmBounds(p)))

(* ---------------------------------- games ------------------------------- *)
\* smatch: a surname and its form with one letter more or less.
SMatch(a, b) ==
  \/ a = b
  \/ /\ Len(a) >= 4 /\ Len(b) >= 4
     /\ IsPrefix(a, b) \/ IsPrefix(b, a)
     /\ Len(a) - Len(b) \in -1..1

\* _match_game: the tickers of the two teams in one event, the first key that matches each.
MatchGame(e, a, b) ==
  LET key(x) == At(e.keys, SelectInSeq(e.keys, LAMBDA k : SMatch(k, x)))
  IN  IF key(a) = NA \/ key(b) = NA \/ key(a) = key(b) THEN NA
      ELSE [event |-> e, a |-> key(a), b |-> key(b)]

\* pick_game: the first free event of the date; a game without one takes the only event within a day of it.
PickGame(evs, a, b, date, dated, used) ==
  LET fits(e) == e.id \notin used /\ MatchGame(e, a, b) # NA
      exact == SelectInSeq(evs, LAMBDA e : e.date = date /\ fits(e))
      near  == {e \in Range(evs) : e.date - date \in -1..1 /\ fits(e)}
  IN  IF exact # 0 THEN MatchGame(evs[exact], a, b)
      ELSE IF ~ dated /\ Cardinality(near) = 1 THEN MatchGame(CHOOSE e \in near : TRUE, a, b)
      ELSE NA

\* The slug's date is the day of play; without one the UTC date of the start stands in.
GameBind(g, evs, used) ==
  PickGame(evs, g.a, g.b, IF g.slugDate # NA THEN g.slugDate ELSE g.utcDate, g.slugDate # NA, used)

\* _wc_resolve_codes: the code itself when any event of the date lists it, else the suffix under the team's name.
Resolved(code, name, evs, date) ==
  LET listed == {e \in Range(evs) : e.date = date}
      named  == {k \in UNION {Range(e.keys) : e \in listed} : \E e \in listed : k \in Range(e.keys) /\ e.names[k] = name}
  IN  IF \E e \in listed : code \in Range(e.keys) THEN code
      ELSE IF named # {} THEN CHOOSE k \in named : TRUE
      ELSE code

\* soccer3_emit: a game with its three markets, bound to an event that lists a tie.
SoccerBind(g, evs, used) ==
  LET hit == PickGame(evs, Resolved(g.a, g.nameA, evs, g.slugDate), Resolved(g.b, g.nameB, evs, g.slugDate),
                      g.slugDate, TRUE, used)
  IN  IF g.outs # {"a", "b", "draw"} \/ hit = NA THEN NA
      ELSE IF ~ hit.event.tie THEN NA
      ELSE hit

(* ---------------------------------- macro ------------------------------- *)
\* Mutant of EconPeriod: the year of the release is the year of the data.
BugEconPeriod(x) == [year |-> x.year, month |-> x.dataMonth]

\* econ_parse: the month of the data; data of a later month than its release is of the year before.
EconPeriod(x) == [year |-> x.year - (IF x.dataMonth > x.month THEN 1 ELSE 0), month |-> x.dataMonth]

\* econ_twin: at least T is above T - step on the grid.
EconTwin(thr) == thr - Step

\* _FEDLBL: the sub-title under which Kalshi lists a decision that pmus names by its suffix.
FedLabels == ("maintains" :> "fed maintains rate") @@ ("hike25bps" :> "hike 25bps") @@ ("hikegt25bps" :> "hike >25bps")
             @@ ("cut25bps" :> "cut 25bps") @@ ("cutgt25bps" :> "cut >25bps")
FedLbl(suffix) == IF suffix \in DOMAIN FedLabels THEN FedLabels[suffix] ELSE NA

\* econ_colisted: the last listed market under the period and the floor, or the label.
EconBind(x, ks) ==
  LET of(Is(_)) == At(ks, SelectLastInSeq(ks, LAMBDA k : k.period = EconPeriod(x) /\ Is(k)))
  IN  CASE x.ineq = "cat" -> of(LAMBDA k : k.label # NA /\ k.label = FedLbl(x.label))
        [] x.ineq = ">="  -> of(LAMBDA k : k.floor = EconTwin(x.thr))
        [] OTHER -> NA

\* What a print (or a decision) pays: pmus counts the threshold in, Kalshi's strike_type says which.
PmPrintPays(x, v) == CASE x.ineq = "cat" -> v = x.on
                       [] x.ineq = ">="  -> v >= x.thr
                       [] x.ineq = "<="  -> v <= x.thr
                       [] OTHER -> v = x.thr
KalPrintPays(k, v) == IF k.label # NA THEN v = k.on
                      ELSE IF k.strike = "greater" THEN v > k.floor ELSE v >= k.floor
=============================================================================
