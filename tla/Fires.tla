-------------------------------- MODULE Fires --------------------------------
(***************************************************************************)
(* Does the depth shown at a fire tell whether it locks                    *)
(* (src/scripts/depth_at_fire.py)?  The study reads the execution log the  *)
(* bot writes: the book at the fire, the approval, and the outcome.        *)
(***************************************************************************)
EXTENDS GameBooks, Functions

CONSTANTS
  Slugs,      \* the slugs fired on
  CategoryOf,  \* categorize
  Depths,      \* the depths at a fire
  Outcomes     \* [result, detail]: how a fire ends, and the venue of a leg that was left naked

\* Depths are numbers of contracts, and None is none of the records it stands beside.
ASSUME FiresAssumption ==
  /\ Depths \subseteq Nat /\ None \notin Depths
  /\ None \notin [c2 : Depths] /\ None \notin [c2 : Depths \cup {None}, edge : Depths \cup {None}]

VARIABLES
  execLog,   \* executions.jsonl
  inflight,  \* the fire of each slug that has no outcome yet, or None
  made       \* the fires that got their outcome, as they were made

fireVars == <<execLog, inflight, made>>

FiresInit == execLog = <<>> /\ inflight = [m \in Slugs |-> None] /\ made = <<>>

\* A fire logs the books it was made on, and its approval, before it submits.
Fire(m, c2) ==
  /\ Spend("fires") /\ inflight[m] = None
  /\ inflight' = [inflight EXCEPT ![m] = [c2 |-> c2]]
  /\ execLog' = execLog \o <<[event |-> "book", phase |-> "entry", market |-> m, c2 |-> c2],
                             [event |-> "approved", market |-> m, edge |-> c2]>>
  /\ UNCHANGED <<made, venue, wire, sent, link, expected, books, tracker, shown>>

\* A naked leg that is recovered logs the book it is sold on.
FireOutcome(m, o) ==
  /\ inflight[m] # None
  /\ inflight' = [inflight EXCEPT ![m] = None]
  /\ made' = Append(made, [market |-> m, c2 |-> inflight[m].c2, result |-> o.result])
  /\ execLog' = execLog \o (IF o.result = "recover" THEN <<[event |-> "book", phase |-> "recovery", market |-> m, c2 |-> 0]>> ELSE <<>>)
                        \o <<[event |-> "fire_outcome", market |-> m, result |-> o.result, detail |-> o.detail]>>
  /\ UNCHANGED bookVars

\* The bot dies with its submissions in flight.
BotDies ==
  /\ Spend("deaths")
  /\ inflight' = [m \in Slugs |-> None]
  /\ UNCHANGED <<execLog, made, venue, wire, sent, link, expected, books, tracker, shown>>

GameInit == BooksInit /\ FiresInit

GameNext ==
  \/ BooksNext /\ UNCHANGED fireVars
  \/ \E m \in Slugs : \/ \E c2 \in Depths : Fire(m, c2)
                       \/ \E o \in Outcomes : FireOutcome(m, o)
  \/ BotDies

GameSpec == GameInit /\ [][GameNext]_<<bookVars, fireVars>>

(* ------------------------------- the fires ------------------------------ *)
Opened(r) == [c2 |-> r.c2, edge |-> None]

\* Mutant of Grouped: any snapshot of a book opens a fire.
BugGrouped(acc, r) ==
  CASE r.event = "book" -> [acc EXCEPT !.pending[r.market] = Opened(r)]
    [] r.event = "approved" -> [acc EXCEPT !.pending[r.market] = [c2 |-> IF @ = None THEN None ELSE @.c2, edge |-> r.edge]]
    [] OTHER -> [pending |-> [acc.pending EXCEPT ![r.market] = None],
                 fires |-> Append(acc.fires, [market |-> r.market, result |-> r.result, detail |-> r.detail,
                                              c2 |-> IF acc.pending[r.market] = None THEN None ELSE acc.pending[r.market].c2])]

\* One record of group_fires: the book at entry opens a fire, the approval joins it, the outcome closes it.
Grouped(acc, r) ==
  CASE r.event = "book" -> IF r.phase = "entry" THEN [acc EXCEPT !.pending[r.market] = Opened(r)] ELSE acc
    [] r.event = "approved" -> [acc EXCEPT !.pending[r.market] = [c2 |-> IF @ = None THEN None ELSE @.c2, edge |-> r.edge]]
    [] OTHER -> [pending |-> [acc.pending EXCEPT ![r.market] = None],
                 fires |-> Append(acc.fires, [market |-> r.market, result |-> r.result, detail |-> r.detail,
                                              c2 |-> IF acc.pending[r.market] = None THEN None ELSE acc.pending[r.market].c2])]

\* group_fires: the records one after the other.
Read(log) ==
  LET read[n \in 0..Len(log)] == IF n = 0 THEN [pending |-> [m \in Slugs |-> None], fires |-> <<>>]
                                 ELSE Grouped(read[n - 1], log[n])
  IN  read[Len(log)]

GroupFires == Read(execLog).fires

\* From here on fires are told apart by their place.
WithDepth(fires) == Restrict(fires, {i \in DOMAIN fires : fires[i].c2 # None})

Locked(f) == f.result = "lock"

\* pmus_filled: both legs, or the one that was left naked.
PmusFilled(f) == Locked(f) \/ (f.result \in {"recover", "naked_halt"} /\ f.detail = "P")

(* ------------------------------ the statistics -------------------------- *)
\* auc: twice the mean rank of a fire among some, ties sharing theirs.
Rank2(fires, among, i) ==
  2 * Cardinality({j \in among : fires[j].c2 < fires[i].c2}) + Cardinality({j \in among : fires[j].c2 = fires[i].c2}) + 1

\* U of the rank sum, doubled; it is out of twice the pairs of a lock and a miss.
DoubleU(fires, locks, misses) ==
  SumFunctionOnSet([i \in locks |-> Rank2(fires, locks \cup misses, i)], locks) - Cardinality(locks) * (Cardinality(locks) + 1)

Categories(fires) == {CategoryOf[fires[i].market] : i \in DOMAIN fires}
InCategory(fires, cat) == Restrict(fires, {i \in DOMAIN fires : CategoryOf[fires[i].market] = cat})
Locks(fires)  == {i \in DOMAIN fires : Locked(fires[i])}
Misses(fires) == DOMAIN fires \ Locks(fires)

\* The strata that have both.
Strata(fires) == {cat \in Categories(fires) : Locks(InCategory(fires, cat)) # {} /\ Misses(InCategory(fires, cat)) # {}}

\* perm_pvalue_stratified's weighted sum of AUC - 1/2, for a labelling of the fires, in 1/60.
StratumStat(fires, ls, ms) ==
  IF ls = {} \/ ms = {} THEN 0
  ELSE (60 * (DoubleU(fires, ls, ms) - Cardinality(ls) * Cardinality(ms))) \div (2 * Cardinality(ms))

Stat(fires, labelled) ==
  LET of(cat) == DOMAIN InCategory(fires, cat)
  IN  SumFunctionOnSet([cat \in Strata(fires) |-> StratumStat(fires, of(cat) \cap labelled, of(cat) \ labelled)], Strata(fires))

\* report: what the AUC of a category is read as.
Verdict(fires) ==
  LET n == 2 * Cardinality(Locks(fires)) * Cardinality(Misses(fires))
      u == DoubleU(fires, Locks(fires), Misses(fires))
  IN  IF n = 0 THEN "n/a" ELSE IF 10 * u > 6 * n THEN "deeper" ELSE IF 10 * u < 4 * n THEN "inverted" ELSE "none"

\* best_threshold: the gate that keeps four fires and a quarter of them, and locks the most of what it keeps; the first of equals.
Kept(fires, x) == Restrict(fires, {i \in DOMAIN fires : fires[i].c2 >= x})
Conversion(fires) == [locks |-> Cardinality(Locks(fires)), n |-> Cardinality(DOMAIN fires)]
LessThan(a, b) == a.locks * b.n < b.locks * a.n

Gates(fires) ==
  {x \in {fires[i].c2 : i \in DOMAIN fires} :
     LET kept == Conversion(Kept(fires, x)).n IN kept >= 4 /\ 4 * kept >= Conversion(fires).n}

BestThreshold(fires) ==
  LET best == {x \in Gates(fires) : \A y \in Gates(fires) : ~ LessThan(Conversion(Kept(fires, x)), Conversion(Kept(fires, y)))}
  IN  IF best = {} THEN None ELSE CHOOSE x \in best : \A y \in best : x <= y

(***************************************************************************)
(* Properties                                                              *)
(***************************************************************************)
\* Each outcome is paired with the book its own fire was made on, although slugs interleave, a recovery logs a book of
\* its own, and a dead process leaves fires that were never told.  (group_fires)
FiresAreTheirOwn(fires) ==
  [i \in DOMAIN fires |-> [market |-> fires[i].market, c2 |-> fires[i].c2, result |-> fires[i].result]] = made

\* The rank sum counts the pairs of a lock and a miss, a tie for a half; a category that separates one way when locks
\* are asked for separates the other way when misses are.  (auc)
RanksCountPairs(fires) ==
  LET ls == Locks(fires)
      ms == Misses(fires)
      wins == {p \in ls \X ms : fires[p[1]].c2 > fires[p[2]].c2}
      ties == {p \in ls \X ms : fires[p[1]].c2 = fires[p[2]].c2}
  IN  /\ DoubleU(fires, ls, ms) = 2 * Cardinality(wins) + Cardinality(ties)
      /\ DoubleU(fires, ls, ms) + DoubleU(fires, ms, ls) = 2 * Cardinality(ls) * Cardinality(ms)

\* Depth that only tells the categories apart does not move the stratified statistic (the confound of the docstring),
\* however the labels are shuffled, and no category then passes for separated.
StrataHideTheConfound(fires) ==
  (\A i, j \in DOMAIN fires :
     CategoryOf[fires[i].market] = CategoryOf[fires[j].market] => fires[i].c2 = fires[j].c2)
  => /\ \A labelled \in SUBSET DOMAIN fires : Stat(fires, labelled) = 0
     /\ \A cat \in Categories(fires) : Verdict(InCategory(fires, cat)) \in {"none", "n/a"}

\* The gate found never converts worse than no gate, and one is found as soon as there are four fires.
GateNeverWorse(fires) ==
  LET gate == BestThreshold(fires) IN
  /\ Cardinality(DOMAIN fires) >= 4 => gate # None
  /\ gate # None => ~ LessThan(Conversion(Kept(fires, gate)), Conversion(fires))

\* What the study reads off the log is what happened at the fires.
FiresAreTrue ==
  LET fires == GroupFires
      deep  == WithDepth(fires)
  IN  FiresAreTheirOwn(fires) /\ RanksCountPairs(deep) /\ StrataHideTheConfound(deep) /\ GateNeverWorse(deep)
=============================================================================
