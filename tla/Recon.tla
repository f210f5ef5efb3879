-------------------------------- MODULE Recon --------------------------------
(***************************************************************************)
(* A joined pair from its discovery to its reconciliation: the pass that   *)
(* joins the catalogs and asks the gate, the paper ledger, the climate     *)
(* reports as the collector logs them, the grades of the two venues, and   *)
(* the comparison that settle_recon.py makes of them.                      *)
(***************************************************************************)
EXTENDS Settlement, Ledger

CONSTANTS
  Scenarios,  \* what the venues list, with their rules, what can come of it, and the bounds: entries of the ledger, reports
              \* and the maxima they give, reports that could not be written or logs that could not be read to the end
  Books,      \* the quotes at which the ledger trades
  Lots,       \* the sizes it trades
  Maxima,     \* the daily maxima there are
  MaxCrashes  \* crashes of the collector

Day == 1

VARIABLES
  sc, at, pairs, used,      \* the listing, the next market to join, the joined pairs, the bound events
  desk, held, trades,       \* the ledger, the pair it trades, its entries
  tape, log, last, up, gap, \* the reports issued and logged, the last one seen, whether the collector runs and has missed one
  crashes, faults,          \* crashes, and failed writes and reads of the log
  dropped,                  \* reports that were taken for logged and are not (history)
  read, interim,            \* what each venue graded on, whether pmus shows more winners than one
  rows                      \* the last comparison

catalog == <<sc, at, pairs, used>>
ledger  == <<desk, held, trades>>
reports == <<tape, log, last, up, gap, crashes, faults, dropped>>
grades  == <<read, interim>>
vars    == <<catalog, ledger, reports, grades, rows>>

Init ==
  /\ sc \in Scenarios /\ at = 1 /\ pairs = {} /\ used = {}
  /\ desk = Flat /\ held = NA /\ trades = 0
  /\ tape = <<>> /\ log = <<>> /\ last = NA /\ up = TRUE /\ gap = FALSE /\ crashes = 0
  /\ faults = 0 /\ dropped = {}
  /\ read = [v \in Venues |-> NA] /\ interim = FALSE /\ rows = {}

(* -------------------------------- discovery ----------------------------- *)
Joined(x) == CASE sc.topic = "weather" -> WeatherTwin(x, sc.k)
               [] sc.topic = "sports"  -> GameBind(x, sc.k, used)
               [] sc.topic = "soccer"  -> SoccerBind(x, sc.k, used)
               [] sc.topic = "econ"    -> EconBind(x, sc.k)

Games == sc.topic \in {"sports", "soccer"}

\* settlement_identity, on a text of pmus and the one of Kalshi.
Verdict(x, k, pr) == CASE sc.topic = "weather" -> WeatherVerdict(x, k, pr, sc.kr)
                       [] sc.topic = "econ"    -> EconVerdict(x, k, sc.want, pr, sc.kr)
                       [] OTHER -> SportsVerdict(sc.league, x.slugDate, {k.event.date}, pr, sc.kr)

\* One market of the pass: joined and stamped, or reported.
Join ==
  /\ at <= Len(sc.pm)
  /\ at' = at + 1
  /\ LET x == sc.pm[at]
         k == Joined(x)
     IN  /\ pairs' = IF k = NA THEN pairs ELSE pairs \cup {[pm |-> x, k |-> k, verdict |-> Verdict(x, k, sc.pr)]}
         /\ used'  = IF k # NA /\ Games THEN used \cup {k.event.id} ELSE used
  /\ UNCHANGED <<sc, ledger, reports, grades, rows>>

Passed  == at > Len(sc.pm)
Weather == Passed /\ sc.topic = "weather"

(* --------------------------------- ledger ------------------------------- *)
Enter(p, px, d, n) ==
  /\ Weather /\ tape = <<>> /\ trades < sc.entries
  /\ held \in {NA, p} /\ CanEnter(px, d, n)
  /\ desk' = Entered(desk, px, d, n) /\ held' = p /\ trades' = trades + 1
  /\ UNCHANGED <<catalog, reports, grades, rows>>

Unwind(px) ==
  /\ tape = <<>> /\ Weather /\ trades < sc.entries
  /\ \E v \in Venues : desk.yes[v] + desk.no[v] > 0
  /\ desk' = Unwound(desk, px) /\ trades' = sc.entries
  /\ UNCHANGED <<held, catalog, reports, grades, rows>>

Redeem ==
  /\ desk.yes["P"] > 0 /\ desk.no["P"] > 0 /\ tape = <<>>
  /\ desk' = Redeemed(desk)
  /\ UNCHANGED <<held, trades, catalog, reports, grades, rows>>

(* -------------------------------- reports ------------------------------- *)
\* A report equal to the one remembered is taken for logged, whatever the log ends with.
Dropped == IF tape' # <<>> /\ last' = Last(tape') /\ LastOf(log') # last' THEN dropped \cup {Len(tape')} ELSE dropped \ {Len(tape')}

Issue(d, m) ==
  /\ Weather /\ Len(tape) < sc.issues /\ m \in sc.maxima
  /\ tape # <<>> => d >= Last(tape).date
  /\ tape' = Append(tape, [date |-> d, max |-> m])
  /\ gap' = (gap \/ (tape # <<>> /\ last # Last(tape)))
  /\ UNCHANGED <<log, last>> /\ dropped' = Dropped
  /\ UNCHANGED <<up, crashes, faults, catalog, ledger, grades, rows>>

\* cli_stream: a report is logged when its date or maximum is not the last one's.
Fresh(r) == r # last

Poll ==
  /\ up /\ tape # <<>>
  /\ Fresh(Last(tape))
  /\ last' = Last(tape) /\ log' = Append(log, Last(tape))
  /\ UNCHANGED tape /\ dropped' = Dropped
  /\ UNCHANGED <<up, gap, crashes, faults, catalog, ledger, grades, rows>>

\* The report is remembered before it is written, and the write may fail.
PollFails ==
  /\ up /\ tape # <<>> /\ faults < sc.faults
  /\ Fresh(Last(tape))
  /\ last' = Last(tape) /\ faults' = faults + 1
  /\ UNCHANGED <<tape, log>> /\ dropped' = Dropped
  /\ UNCHANGED <<up, gap, crashes, catalog, ledger, grades, rows>>

Crash ==
  /\ up /\ tape # <<>> /\ crashes < MaxCrashes
  /\ up' = FALSE /\ last' = NA /\ crashes' = crashes + 1
  /\ UNCHANGED <<tape, log>> /\ dropped' = Dropped
  /\ UNCHANGED <<gap, faults, catalog, ledger, grades, rows>>

\* The last report is read back from the log, from as much of it as can be read.
Seeded(rs) == LastOf(rs)

Restart ==
  /\ ~ up /\ up' = TRUE
  /\ \E n \in 0..Len(log) :
       /\ last' = Seeded(SubSeq(log, 1, n))
       /\ faults' = IF n = Len(log) THEN faults ELSE faults + 1
       /\ n < Len(log) => faults < sc.faults
  /\ UNCHANGED <<tape, log>> /\ dropped' = Dropped
  /\ UNCHANGED <<gap, crashes, catalog, ledger, grades, rows>>

(* --------------------------------- grades ------------------------------- *)
\* What a venue grades on: the report of the day as it reads it, one result, one print.
Outcomes == IF sc.topic = "weather" THEN {LastOf(MaxesOf(tape, Day))} \ {NA}
            ELSE IF \E v \in Venues : read[v] # NA THEN {read[v] : v \in Venues} \ {NA}
            ELSE sc.results

\* pmus locks a day on what it reads first, Kalshi waits.
Grade(v) ==
  /\ Passed /\ read[v] = NA
  /\ v = "K" /\ sc.topic = "weather" => read["P"] # NA
  /\ \E o \in Outcomes : read' = [read EXCEPT ![v] = o]
  /\ interim' = (interim /\ v = "K")
  /\ UNCHANGED <<catalog, ledger, reports, rows>>

\* Before its grade pmus may show several buckets of a day as winners.
ShowInterim ==
  /\ Weather /\ Len(sc.pm) > 1 /\ tape # <<>> /\ read["P"] = NA /\ ~ interim
  /\ interim' = TRUE
  /\ UNCHANGED <<read, catalog, ledger, reports, rows>>

\* pm_winner and kal_result.
PmGrade(x) == IF sc.topic = "weather"
              THEN IF interim THEN TRUE ELSE IF read["P"] = NA THEN NA ELSE PmPays(x, read["P"])
              ELSE IF read["P"] = NA THEN NA ELSE PmPrintPays(x, read["P"][x.real])
KalGrade(k) == IF read["K"] = NA \/ (sc.topic = "econ" /\ k.void) THEN NA
               ELSE IF sc.topic = "weather" THEN KalPays(k, read["K"]) ELSE KalPrintPays(k, read["K"][k.period])

PmWinner(g) == IF read["P"] = NA THEN NA ELSE IF read["P"][g.real] = g.teamA THEN g.a ELSE g.b
\* Mutant of KalKey: the winner is read by its place.
BugKalKey(e) == IF read["K"] = NA THEN NA ELSE IF read["K"][e.real] = "x" THEN e.keys[1] ELSE e.keys[2]

KalKey(e)   == IF read["K"] = NA THEN NA
               ELSE e.keys[SelectInSeq(e.teams, LAMBDA t : t = read["K"][e.real])]

(* ------------------------------ reconciliation -------------------------- *)
\* The settled Kalshi bucket with these bounds: the last one listed.
Settled(b) == IF read["K"] = NA THEN NA ELSE At(sc.k, SelectLastInSeq(sc.k, LAMBDA k : KBounds(k) = b))

\* The slugs of a day: the twins of what Kalshi has settled, and what the archive tracked.
DaySlugs(tracked) ==
  ({SlugFor(KBounds(k)) : k \in {x \in Range(sc.k) : Settled(KBounds(x)) # NA}}
     \cup IF tracked THEN {p.pm : p \in pairs} ELSE {}) \cap Range(sc.pm)

DayRows(tracked) ==
  ClassifyDay({[slug |-> x, pm |-> PmGrade(x),
                kal |-> LET k == Settled(PmBounds(x)) IN IF k = NA THEN NA ELSE KalGrade(k)] : x \in DaySlugs(tracked)},
              Truth(log, tape, Day))

Row(x, status) == [slug |-> x, status |-> status]

\* Only what Kalshi has settled is pulled.
SettledMarkets == IF read["K"] = NA THEN <<>> ELSE sc.k

Ladder(per) == SelectSeq(SettledMarkets, LAMBDA k : k.period = per)

EconRows ==
  LET pm  == [x \in Range(sc.pm) |-> PmGrade(x)]
      kal == [k \in Range(sc.k) |-> KalGrade(k)]
  IN  {Row(x, CatRow(x, Ladder(EconPeriod(x)), kal)) : x \in {y \in Range(sc.pm) : y.ineq = "cat" /\ pm[y] = TRUE}}
      \cup {Row(x, EconRow(x, Ladder(EconPeriod(x)), pm[x], kal)) : x \in {y \in Range(sc.pm) : y.ineq = ">="}}
      \cup {Row(NA, PrintRow(SelectSeq(sc.pm, LAMBDA x : x.ineq = "==" /\ EconPeriod(x) = per), Ladder(per), pm, kal)) :
            per \in {EconPeriod(y) : y \in {x \in Range(sc.pm) : x.ineq = "=="}}}

\* recon_weather, recon_sports and recon_econ; the archive may hold the pair's slug or not.
Reconcile(tracked) ==
  /\ Passed /\ sc.topic # "soccer"
  /\ interim \/ \E v \in Venues : read[v] # NA
  /\ UNCHANGED <<catalog, ledger, reports, grades>>
  /\ rows' = CASE sc.topic = "weather" -> DayRows(tracked)
               [] sc.topic = "econ"    -> EconRows
               [] OTHER -> {Row(g, SportsRow(g, sc.k, PmWinner(g), [e \in Range(sc.k) |-> KalKey(e)])) :
                            g \in {x \in Range(sc.pm) : x.slugDate # NA}}

Next ==
  \/ Join
  \/ \E p \in pairs, px \in Books, d \in Dirs, n \in Lots : Enter(p, px, d, n)
  \/ \E px \in Books : Unwind(px)
  \/ Redeem
  \/ \E d \in {Day, Day + 1}, m \in Maxima : Issue(d, m)
  \/ Poll \/ PollFails \/ Crash \/ Restart
  \/ \E v \in Venues : Grade(v)
  \/ ShowInterim
  \/ \E tracked \in BOOLEAN : Reconcile(tracked)

Spec == Init /\ [][Next]_vars

(***************************************************************************)
(*                               Properties                                *)
(***************************************************************************)
\* One type: at most one pair for each market of the pass, and a log no longer than what was issued and re-read after a crash.
ReconTypeOK ==
  /\ at \in 1..Len(sc.pm) + 1
  /\ {p.pm : p \in pairs} \subseteq Range(SubSeq(sc.pm, 1, at - 1)) /\ Cardinality(pairs) <= at - 1
  /\ \A p \in pairs : p.verdict.status \in {"IDENTICAL", "TAIL", "DIVERGENT", "NEEDS_MANUAL"}
  /\ \A v \in Venues : desk.yes[v] \in Nat /\ desk.no[v] \in Nat
  /\ desk.cash \in Int /\ desk.edges \in Nat
  /\ Len(log) <= Len(tape) + faults /\ faults \in 0..sc.faults
  /\ up /\ faults = 0 => last = LastOf(log)

(* ---- the joins ---- *)
\* Games of two teams that meet once around the date; the pass sees teams and dates only.
Meetings(g, days) == {e \in Range(sc.k) : {g.teamA, g.teamB} \subseteq Range(e.teams)
                                          /\ e.date - (IF g.slugDate # NA THEN g.slugDate ELSE g.utcDate) \in days}
MeetOnce(g) == Cardinality(Meetings(g, IF g.slugDate # NA THEN {0} ELSE -1..1)) = 1

PaysAlike(p) ==
  CASE sc.topic = "weather" -> \A t \in Maxima : PmPays(p.pm, t) = KalPays(p.k, t)
    [] sc.topic = "econ" -> \A r \in sc.results : PmPrintPays(p.pm, r[p.pm.real]) = KalPrintPays(p.k, r[p.k.period])
    [] OTHER -> /\ p.k.event.real = p.pm.real
                /\ p.k.event.teams[SelectInSeq(p.k.event.keys, LAMBDA x : x = p.k.a)] = p.pm.teamA
                /\ p.k.event.teams[SelectInSeq(p.k.event.keys, LAMBDA x : x = p.k.b)] = p.pm.teamB

\* A joined pair is one contract: it pays the same on both venues for every maximum, every print, every result of the
\* game.  (pm_bounds against kbounds, econ_twin and the year of the data, pick_game and the suffixes of the teams.  A
\* game is judged when its teams meet once; a second game of the day is told apart by its place in the list alone.)
PairsPayAlike ==
  \A p \in pairs :
    (/\ Games => MeetOnce(p.pm)
     /\ sc.topic = "econ" => p.pm.ineq = "cat" \/ p.k.strike = "greater")
      => PaysAlike(p)

\* No Kalshi event stands for two games of a pass, and no game goes without while an event of its day and teams is free
\* (the used set of pick_game on the day of a doubleheader; two names a letter apart are refused).
OneEventOneGame ==
  Games => /\ \A p, q \in pairs : p.k.event.id = q.k.event.id => p = q
           /\ \A i \in 1..at - 1 :
                LET g == sc.pm[i]
                IN  sc.topic = "sports" /\ g.slugDate # NA
                      => \/ \E p \in pairs : p.pm = g
                         \/ \A e \in Meetings(g, {0}) : e.id \in used \/ \E x, y \in Range(e.keys) : x # y /\ SMatch(x, y)

\* What discovery joins is one contract, and each event is joined once.
PairsAreContracts == PairsPayAlike /\ OneEventOneGame

(* ---- the gate ---- *)
\* What can come of a game: the delay of its replay, the result at regulation and in the end.
Results == {[delay |-> d, reg |-> r[1], fin |-> r[2]] :
              d \in {0, 7, 20}, r \in {<<"A", "A">>, <<"B", "B">>, <<"draw", "draw">>, <<"draw", "A">>}}

\* What a text may pay on a result: the winner, or one of the prices it names for a game not played in its window.
TextPays(t, o) == IF t.window = NA \/ o.delay > t.window THEN t.fallback
                  ELSE IF CanDraw(sc.league, sc.pr) /\ Basis(t) = "regulation" THEN {o.reg} ELSE {o.fin}

Certain(a, b) == a = b /\ Cardinality(a) = 1

\* The texts of a pair settle alike: on one thermometer, by one rule for every result, on one agency's print.
TextsAlike(p, outcomes) ==
  CASE sc.topic = "weather" -> Certain(sc.pr.stations, sc.kr.stations) /\ Certain(sc.pr.sources, sc.kr.sources)
    [] sc.topic = "econ" -> sc.kr.agencies = {sc.want} /\ sc.pr.agencies \subseteq {sc.want} /\ PaysAlike(p)
    [] OTHER -> /\ p.pm.slugDate = p.k.event.date /\ PmThreeWay(sc.pr) = KalThreeWay(sc.kr)
                /\ \A o \in outcomes : Certain(TextPays(sc.pr, o), TextPays(sc.kr, o))

\* A text that names one thing of a kind, and a strict strike.
PlainText(t) == \A f \in {"stations", "sources", "fallback", "agencies"} \cap DOMAIN t : Cardinality(t[f]) <= 1
Plain(p) == PlainText(sc.pr) /\ PlainText(sc.kr) /\ (sc.topic = "econ" /\ p.pm.ineq = ">=" => p.k.strike = "greater")

\* The gate is right about plain texts: a pair called IDENTICAL settles alike whatever happens, one called DIVERGENT
\* does not, and a TAIL has its price and settles alike when the game is played on time or the raw observations agree
\* with the report.  (settlement_identity and _combine.)
VerdictIsSound ==
  \A p \in pairs : Plain(p) =>
    LET s == p.verdict.status
    IN  /\ s = "IDENTICAL" => TextsAlike(p, Results)
        /\ s = "DIVERGENT" => ~ TextsAlike(p, Results)
        /\ s = "TAIL" => /\ p.verdict.cost > 0
                         /\ Games => TextsAlike(p, {o \in Results : o.delay = 0})
                         /\ sc.topic = "weather" => Certain(sc.pr.stations, sc.kr.stations)

\* What the gate's docstring says: "IDENTICAL requires EVERY outcome-determining dimension to PROVABLY match with no
\* tail (L1)" (settlement_identity.py:559).  The code is content when the fallbacks or the stations of the two texts
\* meet, when both name the report among others, and with a strike_type of greater_or_equal.
IdenticalPaysAlike == \A p \in pairs : p.verdict.status = "IDENTICAL" => TextsAlike(p, Results)

(* ---- the reports ---- *)
\* The collector has seen every report that was issued, before the next one was.
InTime == ~ gap /\ tape # <<>> /\ last = Last(tape)

\* What was issued without the reports that were remembered and never written.
Kept == FoldLeftDomain(LAMBDA acc, i : IF i \in dropped THEN acc ELSE Append(acc, tape[i]), <<>>, tape)

\* Every report the collector saw in time is in the log once, in order, across crashes, but for those whose write
\* failed: the chain of a date is the issued one without those and without repetitions; a report is lost to a fault
\* alone, and a row repeats the one before it only after one.  (cli_stream, its seed, and chains.)
LogIsTheTape ==
  /\ Cardinality({i \in 1..Len(log) - 1 : log[i] = log[i + 1]}) <= faults
  /\ dropped # {} => faults > 0
  /\ InTime => \A d \in {Day, Day + 1} : Chain(log, d) = Chain(Kept, d)

\* A correction that split the venues shows in the revision statistics when no report was missed or lost (stat_group).
CorrectionsCounted ==
  sc.topic = "weather" /\ InTime /\ dropped = {} /\ NA \notin {read["P"], read["K"]}
    => MaxDrop(Chain(log, Day)) >= read["P"] - read["K"]

\* The collector's log is what was issued, whatever crashed, but for what it failed to write, and the revisions are
\* counted from it.
ReportsAreKept == ReconTypeOK /\ LogIsTheTape /\ CorrectionsCounted

(* ---- the comparison ---- *)
Final == ~ interim /\ NA \notin {read["P"], read["K"]}

\* The market of a row was graded differently by the venues.
Split(r) == CASE sc.topic = "weather" -> PmPays(r.slug, read["P"]) # PmPays(r.slug, read["K"])
              [] sc.topic = "econ" -> \E p \in pairs : p.pm = r.slug /\ KalGrade(p.k) # NA /\ PmGrade(p.pm) # KalGrade(p.k)
              [] OTHER -> read["P"] # read["K"]

\* The print is in sight of the ladder: one floor at it, one a step below.
InSight == \A x \in Range(sc.pm) : LET v == read["P"][x.real] IN {v, v - Step} \subseteq {k.floor : k \in {y \in Range(Ladder(x.real)) : ~ y.void}}

\* A reported disagreement is real: the venues did grade the market differently, and for good; an interim day of pmus
\* never counts.  (classify_day and its multi-YES guard, recon_sports, econ_reconcile.)  Games are judged when their
\* teams meet once that day and both venues spell them alike, an exact print when it is in sight of the ladder, a decision
\* when discovery joined it, and a threshold when its twin has a result: econ_reconcile calls the others divergent too.
DisagreementIsReal ==
  \A r \in rows :
    r.status \in {"DIVERGE", "DISAGREE"} =>
      /\ Final
      /\ \/ sc.topic = "sports" /\ ~ (MeetOnce(r.slug) /\ \A e \in Meetings(r.slug, {0}) : {r.slug.a, r.slug.b} = Range(e.keys))
         \/ r.slug = NA /\ ~ InSight
         \/ sc.topic = "econ" /\ r.slug # NA /\ ~ \E p \in pairs : p.pm = r.slug /\ KalGrade(p.k) # NA
         \/ Split(r)

\* A comparison of a graded weather day has a row for every joined bucket, tracked by the archive or not; a day it calls
\* clean was graded alike throughout; and a divergence names pmus when the report in the log is the one Kalshi graded on.
\* (pm_slug_for, day_state, the *_vs_cli legs.)
DayIsTold ==
  Final =>
    /\ \A p \in pairs : \E r \in rows' : r.slug = p.pm
    /\ DayState(rows') = "clean" => \A r \in rows' : ~ Split(r)
    /\ Truth(log, tape, Day) = read["K"]
         => \A r \in rows' : r.status = "DIVERGE" => r.pmCli = "MISMATCH" /\ r.kalCli = "match"

(* ---- the held pair ---- *)
Won == [v \in Venues |-> PmPays(held.pm, read[v])]

\* A locked pair is worth the sum of its edges whichever way the market settles, through re-entries in both directions
\* and redeemed sets; after a correction between the two grades it is worth less only if classify_pair called one of its
\* directions exposed to a fall that small, and a direction called safe is never worth less.
LockPaysItsEdge ==
  /\ trades < sc.entries \/ \E v \in Venues : desk.yes[v] + desk.no[v] > 0
       => SettlementPnl(desk, TRUE) = desk.edges /\ SettlementPnl(desk, FALSE) = desk.edges
  /\ held # NA /\ Final /\ read["K"] <= read["P"] /\ GradedPnl(desk, Won) < SettlementPnl(desk, TRUE)
       => \E d \in Dirs : /\ desk.yes[d] > 0
                          /\ LET c == ClassifyPair(PmBounds(held.pm), d, read["P"])
                             IN  c.status = "exposed" /\ c.req <= read["P"] - read["K"]

\* classify_pair for every joined bucket and direction, the maximum read first and every fall of it: safe pays one leg,
\* exposed loses both from the first fall that does, favorable wins both, and the winning leg is at the venue it names.
ExposureIsRight ==
  \A p \in pairs, d \in Dirs, m \in Maxima : sc.topic = "weather" =>
    LET c == ClassifyPair(PmBounds(p.pm), d, m)
        pm(t)  == PmPays(p.pm, t) = (d = "P")        \* the pmus leg of the pair pays
        kal(t) == KalPays(p.k, t) = (d = "K")
        split  == {t \in Maxima : t <= m /\ pm(m) = kal(t)}
    IN  /\ (c.win = "P") = pm(m)
        /\ c.status = "safe" => split = {}
        /\ c.status = "exposed" => \A t \in split : ~ pm(m)
        /\ c.status = "favorable" => \A t \in split : pm(m)
        /\ split # {} => c.req = m - (CHOOSE t \in split : \A u \in split : t >= u)

\* What a held pair is worth is what was promised of it, to the correction that is survived.
PositionsPay == LockPaysItsEdge /\ ExposureIsRight

\* Selling a pair early brings more than holding it only when the books have turned: what it sells for beats the dollar
\* it settles at because the other direction has become an arbitrage.  (The ledger's third invariant.)
SaleNeedsAFlip(px) ==
  desk'.cash > SettlementPnl(desk, TRUE)
    => \E d \in Dirs : desk.yes[d] + desk.no[Other(d)] > 0 /\ Quoted(px, Other(d))
                       /\ YesAsk(px, Other(d)) + NoAsk(px, Other(d)) < 100

\* What a book of pairs of one direction, complete and sellable, is sold for is its edges and the edge that signal sees
\* in the other direction, but for the fee that Kalshi rounds up for the whole order.
SaleTakesTheOtherEdge(px) ==
  \A d \in Dirs : LET n == desk.yes[d] IN
    n > 0 /\ desk.no[Other(d)] = n /\ desk.yes[Other(d)] = 0 /\ desk.no[d] = 0 /\ Quoted(px, Other(d))
      => LET lost == desk.edges + n * NetOf(px, Other(d)) - desk'.cash IN - n <= lost /\ lost <= 100 + n

\* The flip study: closing a pair at a flip brings the edge it was bought at and the edge of the flip, to the fees that
\* are rounded; so a flip is never reported to be worse than holding by more than those, and what it reports is what
\* the ledger has after the turn, to one rounded fee.
TurnIsTwoEdges ==
  \A entry, flip \in Books, d \in Dirs, haircut \in {0, CliTail} :
    LET close == ClosePnl(entry, flip, d)
        net1  == ReverseEdge(flip).net
        after == Entered(Unwound(Entered(Flat, entry, d, 1), flip), flip, Other(d), 1)
    IN  close # None /\ EdgeState(entry).dir = d /\ ReverseEdge(flip).dir = Other(d) /\ net1 > 0
          => /\ close - EdgeState(entry).net - net1 \in -200..0
             /\ FlipSays(close, flip, haircut) - HoldSays(entry, haircut) >= net1 - 200
             /\ FlipSays(close, flip, 0) - SettlementPnl(after, TRUE) \in 0..100

\* What a held pair is worth when it is sold for another.
RotationNeedsAFlip ==
  [][/\ \A px \in Books : Unwind(px) => SaleNeedsAFlip(px) /\ SaleTakesTheOtherEdge(px)
     /\ TurnIsTwoEdges]_vars
=============================================================================
