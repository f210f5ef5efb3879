------------------------------- MODULE Trades -------------------------------
(***************************************************************************)
(* The monitor's second log (src/bot/monitor.py weather_poll and what it   *)
(* calls): the prints of the Kalshi weather tickers, polled over REST with *)
(* a cursor per ticker, and the ladders of both venues, taken at every     *)
(* logged transition and at every heartbeat.  Time is in ticks.            *)
(***************************************************************************)
EXTENDS Quotes, Sequences, FiniteSets, FiniteSetsExt, SequencesExt, TLC

CONSTANTS
  Tickers,        \* weather tickers, each with its market
  Prices, Takers, \* what a print says
  Ladders,        \* what the two books may show: the touches, and the quantity at Kalshi's
  FirstLadder,    \* what they show when the monitor starts
  TicksPerSecond, \* the cursor is cut to whole seconds
  PollTicks,      \* WX_POLL_SEC
  Slack,          \* and a minute, in the first look back
  PageCap,        \* prints that one poll can fetch
  Late,           \* a print is served at most this long after it was made
  Schedules,      \* what fee changes may be scheduled, 0 for none
  Scenarios       \* bounds: how many ticks, trades, restarts, prunes, frames, changes of the fees and failed
                  \* requests a run may see

ASSUME TradesAssumption ==
  /\ TicksPerSecond \in Nat \ {0} /\ PollTicks \in Nat \ {0} /\ Slack \in Nat /\ PageCap \in Nat
  /\ Late \in 0..(TicksPerSecond - 1)
  /\ FirstLadder \in Ladders
  /\ Scenarios \subseteq [ticks : Nat, trades : Nat, restarts : Nat, prunes : Nat, frames : Nat, fees : Nat,
                      fails : Nat]
  /\ 0 \in Schedules /\ IsFiniteSet(Tickers)
  /\ None \notin Schedules \cup [tk : Tickers, at : Nat] \cup [max_ts : Nat, ids : SUBSET Nat]

VARIABLES
  now, up,
  prints,   \* what Kalshi made, by id: its ticker, time, price, side, and when REST first serves it
  listed,   \* the tickers of wx_trackers
  tstate,   \* ticker -> TradePollState, or None
  due,      \* when weather_poll wakes up
  awake,    \* it is in a cycle
  todo,     \* the tickers of this cycle still to be polled
  batch,    \* what is fetched and not yet ingested, oldest first
  polled,   \* whose batch it is and when it was asked for, or None
  log,      \* trades-*.jsonl
  books,    \* trackers' books
  edge,     \* trackers' state
  hbLast,   \* hb_ladder_pass's last
  ladders,  \* ladders-*.jsonl
  censors,  \* sessions.jsonl: whose books were rebuilt, and when (here by a restart, of both)
  fees,     \* /series/fee_changes
  feeLast,  \* fee_state's last, or None
  feeLog,   \* fee_changes.jsonl
  \* history: how many fee records were there at boot, that the write of the last change failed, how often a ticker's
  \* cursor was dropped, since when its cursor looks, when the last poll that ended began, what paging cut off, and
  \* the rows of the log that some boot could not read
  feeBoot, feeLost, contact, from, upto, cut, unread, bounds

pollVars == <<awake, tstate, todo, batch, polled, log, contact, from, upto, cut, unread>>
bookVars == <<books, edge, ladders, censors>>
feeVars == <<fees, feeLast, feeLog, feeBoot, feeLost>>
vars == <<now, up, prints, listed, due, pollVars, bookVars, hbLast, feeVars, bounds>>

Floor(t) == t \div TicksPerSecond
Lookback == PollTicks + Slack

\* The clock has been running for longer than a look back.
Start == Lookback + 2 * TicksPerSecond

\* Mutant of MinTs: no overlap.
BugMinTs(st) == Floor(st.max_ts)

\* TradePollState.min_ts, in seconds: a second of overlap.
MinTs(st) == Max({0, Floor(st.max_ts) - 1})

\* Every variable has its type; a poll in hand is of a ticker that has a cursor, and is oldest first.
TradesTypeOK ==
  /\ now \in Nat /\ due \in Nat /\ {up, awake} \subseteq BOOLEAN /\ listed \subseteq Tickers
  /\ \A i \in DOMAIN prints : prints[i] \in [tk : Tickers, ts : Nat, vis : Nat, px : Prices, taker : Takers]
  /\ \A k \in Tickers : tstate[k] = None \/ (tstate[k].max_ts \in Nat /\ tstate[k].ids \subseteq DOMAIN prints)
  /\ todo \subseteq Tickers /\ polled \in {None} \cup [tk : Tickers, at : Nat]
  /\ batch \in Seq(DOMAIN prints) /\ cut \subseteq DOMAIN prints
  /\ \A n \in DOMAIN log : log[n].id \in DOMAIN prints
  /\ books \in [Tickers -> Ladders] /\ hbLast \in [Tickers -> Ladders \cup {None}]
  /\ \A n \in DOMAIN ladders : ladders[n].k \in {"tr", "hb"} /\ ladders[n].lad \in Ladders
  /\ fees \in Schedules /\ feeLast \in Schedules \cup {None} /\ feeLog \in Seq(Schedules)
  /\ feeLost \in BOOLEAN /\ unread \subseteq DOMAIN log
  /\ polled = None => batch = <<>>
  /\ polled # None => up /\ tstate[polled.tk] # None
  /\ \A i, j \in DOMAIN batch : i < j => prints[batch[i]].ts <= prints[batch[j]].ts

Init ==
  /\ now = Start /\ up = TRUE /\ prints = <<>> /\ listed = Tickers
  /\ tstate = [k \in Tickers |-> None] /\ due = Start + PollTicks /\ awake = FALSE /\ todo = {}
  /\ batch = <<>> /\ polled = None /\ log = <<>>
  /\ books = [k \in Tickers |-> FirstLadder]
  /\ edge = [k \in Tickers |-> None] /\ ladders = <<>>
  /\ censors = {[v |-> v, t |-> Start] : v \in Dirs}
  /\ hbLast = [k \in Tickers |-> None]
  /\ contact = [k \in Tickers |-> 0] /\ from = [k \in Tickers |-> 0] /\ upto = [k \in Tickers |-> 0]
  /\ fees = 0 /\ feeLast = None /\ feeLog = <<>> /\ feeBoot = 0 /\ feeLost = FALSE
  /\ cut = {} /\ unread = {} /\ bounds \in Scenarios

(***************************************************************************)
(* The venue                                                               *)
(***************************************************************************)

\* A trade is made now, and REST may serve it a little later.
Trade(k) ==
  /\ bounds.trades > 0 /\ bounds' = [bounds EXCEPT !.trades = @ - 1]
  /\ \E px \in Prices, taker \in Takers, vis \in now..(now + Late) :
       prints' = Append(prints, [tk |-> k, ts |-> now, vis |-> vis, px |-> px, taker |-> taker])
  /\ UNCHANGED <<now, up, listed, due, pollVars, bookVars, hbLast, feeVars>>

Served(k) == {i \in DOMAIN prints : prints[i].tk = k /\ prints[i].vis <= now}

Newest(S, n) == {i \in S : Cardinality({j \in S : prints[j].ts > prints[i].ts
                                              \/ (prints[j].ts = prints[i].ts /\ j > i)}) < n}

(***************************************************************************)
(* weather_poll                                                            *)
(***************************************************************************)

\* TradePollState.add: a later print moves the cursor and frees the ids that fall behind it.
Added(st, i) ==
  LET ts == prints[i].ts
  IN  IF ts > st.max_ts
      THEN [max_ts |-> ts, ids |-> {i} \cup {j \in st.ids : Floor(prints[j].ts) >= Floor(ts) - 1}]
      ELSE [max_ts |-> st.max_ts, ids |-> st.ids \cup {i}]

\* A row of the log is read back.
Reread(st, i) ==
  IF st # None /\ i \in st.ids THEN st
  ELSE Added(IF st = None THEN [max_ts |-> 0, ids |-> {}] ELSE st, i)

\* seed_trade_state: what can be read of a ticker's rows, in the order of the log.
Seeded(k, read) ==
  LET after[n \in 0..Len(log)] ==
        IF n = 0 THEN None
        ELSE IF n \in read /\ prints[log[n].id].tk = k THEN Reread(after[n - 1], log[n].id) ELSE after[n - 1]
  IN  after[Len(log)]

Failing == bounds.fails > 0 /\ bounds' = [bounds EXCEPT !.fails = @ - 1]

\* A change is news, also one to nothing; at the first look only if something is scheduled.
FeeNews(changes) == ~ (changes = None \/ changes = feeLast \/ (feeLast = None /\ changes = 0))

\* fee_tick: news is logged, and a failed look keeps what is known.
FeeTick(changes) ==
  /\ feeLog' = IF FeeNews(changes) THEN Append(feeLog, changes) ELSE feeLog
  /\ feeLast' = IF changes = None THEN feeLast ELSE changes
  /\ feeLost' = (feeLost /\ ~ FeeNews(changes))

\* A cycle begins: the fee tripwire is looked at, and the cursors of tickers that are gone are dropped.
Wake ==
  /\ up /\ ~ awake /\ now >= due
  /\ \/ FeeTick(fees) /\ UNCHANGED bounds
     \/ FeeTick(None) /\ Failing
  /\ awake' = TRUE /\ todo' = listed
  /\ tstate' = [k \in Tickers |-> IF k \in listed THEN tstate[k] ELSE None]
  /\ contact' = [k \in Tickers |-> IF k \in listed THEN contact[k] ELSE contact[k] + 1]
  /\ UNCHANGED <<now, up, prints, listed, due, batch, polled, log, from, upto, cut,
                 unread, bookVars, hbLast, fees, feeBoot>>

\* The write of the news raises: it is remembered as known all the same, and the cycle is over.
WakeFails ==
  /\ Failing
  /\ up /\ ~ awake /\ now >= due /\ FeeNews(fees)
  /\ feeLast' = fees /\ feeLost' = TRUE
  /\ due' = now + PollTicks
  /\ UNCHANGED <<now, up, prints, listed, pollVars, bookVars, hbLast, fees, feeLog, feeBoot>>

\* Kalshi schedules a change of its fees, or takes it back.
ScheduleFees ==
  /\ bounds.fees > 0 /\ bounds' = [bounds EXCEPT !.fees = @ - 1]
  /\ fees' \in Schedules \ {fees}
  /\ UNCHANGED <<now, up, prints, listed, due, pollVars, bookVars, hbLast, feeLast, feeLog, feeBoot, feeLost>>

\* The order of ingest_trades: oldest first.
OldestFirst(S) ==
  {q \in [1..Cardinality(S) -> S] :
     /\ \A i \in S : \E n \in DOMAIN q : q[n] = i
     /\ \A m, n \in DOMAIN q : m < n => \/ prints[q[m]].ts < prints[q[n]].ts
                                       \/ (prints[q[m]].ts = prints[q[n]].ts /\ q[m] < q[n])}

\* fetch_k_trades of one ticker; on first contact the cursor looks one cycle back.  The endpoint's
\* min_ts may or may not include the second itself.
Fetch(k) ==
  /\ awake /\ polled = None /\ k \in todo
  /\ LET fresh == tstate[k] = None
         st    == IF fresh THEN [max_ts |-> Max({0, now - Lookback}), ids |-> {}] ELSE tstate[k]
     IN  \E inclusive \in BOOLEAN :
           LET all == {i \in Served(k) : IF inclusive THEN prints[i].ts >= MinTs(st) * TicksPerSecond
                                         ELSE prints[i].ts > MinTs(st) * TicksPerSecond}
           IN  /\ batch' \in OldestFirst(Newest(all, PageCap))
               /\ cut' = cut \cup (all \ Newest(all, PageCap))
               /\ tstate' = [tstate EXCEPT ![k] = st]
               /\ from' = IF fresh THEN [from EXCEPT ![k] = st.max_ts] ELSE from
  /\ polled' = [tk |-> k, at |-> now] /\ todo' = todo \ {k}
  /\ UNCHANGED <<now, up, awake, prints, listed, due, log, contact, upto, unread, bookVars, hbLast, feeVars,
                 bounds>>

\* The request fails: its cursor stays, the next cycle is the retry.
FetchFails(k) ==
  /\ Failing
  /\ awake /\ polled = None /\ k \in todo
  /\ todo' = todo \ {k}
  /\ tstate' = [tstate EXCEPT ![k] = IF @ = None THEN [max_ts |-> Max({0, now - Lookback}), ids |-> {}] ELSE @]
  /\ from' = IF tstate[k] = None THEN [from EXCEPT ![k] = Max({0, now - Lookback})] ELSE from
  /\ UNCHANGED <<now, up, prints, listed, due, awake, batch, polled, log, contact, upto, cut, unread, bookVars,
                 hbLast, feeVars>>

\* One print of the batch: skipped if its id is known, else logged, and only then does the cursor pass it.
Taken(k, acc, i) ==
  IF i \in acc.st.ids THEN acc
  ELSE [st |-> Added(acc.st, i), log |-> Append(acc.log, [id |-> i, t |-> now, contact |-> contact[k]])]

\* The first prints of the batch.
IngestTrades(k, prefix) ==
  LET after[n \in 0..prefix] ==
        IF n = 0 THEN [st |-> tstate[k], log |-> log] ELSE Taken(k, after[n - 1], batch[n])
  IN  log' = after[prefix].log /\ tstate' = [tstate EXCEPT ![k] = after[prefix].st]

Ingest ==
  /\ polled # None
  /\ IngestTrades(polled.tk, Len(batch))
  /\ upto' = [upto EXCEPT ![polled.tk] = polled.at]
  /\ batch' = <<>> /\ polled' = None
  /\ UNCHANGED <<now, up, prints, listed, due, awake, todo, contact, from, cut, unread, bookVars, hbLast,
                 feeVars, bounds>>

\* A write raises: the rest of the batch is left to the next cycle.
IngestFails ==
  /\ \E n \in 0..(Len(batch) - 1) : IngestTrades(polled.tk, n)
  /\ batch' = <<>> /\ polled' = None
  /\ UNCHANGED <<now, up, prints, listed, due, awake, todo, contact, from, upto, cut, unread, bookVars,
                 hbLast, feeVars, bounds>>

\* hb_ladder_pass: a ladder is logged unless it is what the last pass saw, and the pruned are forgotten.
Moved == {k \in listed : hbLast[k] # books[k]}

Snapshot(kind, k, opens) == [t |-> now, tk |-> k, k |-> kind, lad |-> books[k], open |-> opens]

\* The cycle is over.
Asleep ==
  /\ awake /\ polled = None /\ todo = {}
  /\ awake' = FALSE /\ due' = now + PollTicks
  /\ UNCHANGED <<now, up, prints, listed, tstate, todo, batch, polled, log, contact, from, upto, cut, unread,
                 books, edge, censors, feeVars>>

\* The ladders of these tickers are logged.
Logged(S) == ladders \o [n \in 1..Cardinality(S) |-> Snapshot("hb", SetToSeq(S)[n], FALSE)]

Pass ==
  /\ Asleep
  /\ hbLast' = [k \in Tickers |-> IF k \in listed THEN books[k] ELSE None]
  /\ ladders' = Logged(Moved)
  /\ UNCHANGED bounds

\* A write raises: that ladder counts as seen, and those after it are left to the next pass.
PassFails ==
  /\ Failing /\ Asleep
  /\ \E done \in SUBSET Moved, k \in Moved :
       /\ k \notin done
       /\ hbLast' = [j \in Tickers |-> IF j \notin listed THEN None
                                      ELSE IF j \in done \cup {k} THEN books[j] ELSE hbLast[j]]
       /\ ladders' = Logged(done)

(***************************************************************************)
(* The books, the listing, time, restarts                                  *)
(***************************************************************************)

\* A frame moves a book; a transition of the edge takes the ladders with it, unless the debouncer (see
\* Episodes) keeps it to itself.
Frame(k) ==
  /\ up /\ k \in listed /\ bounds.frames > 0
  /\ \E lad \in Ladders \ {books[k]} :
       LET new   == EdgeState(lad.px)
           label == Classify(edge[k], new)
           rec   == [t |-> now, tk |-> k, k |-> "tr", lad |-> lad, open |-> label = "OPEN"]
       IN  /\ books' = [books EXCEPT ![k] = lad] /\ edge' = [edge EXCEPT ![k] = new]
           /\ IF label = None THEN UNCHANGED ladders ELSE ladders' \in {ladders, Append(ladders, rec)}
  /\ bounds' = [bounds EXCEPT !.frames = @ - 1]
  /\ UNCHANGED <<now, up, prints, listed, due, pollVars, censors, hbLast, feeVars>>

\* The heartbeat prunes a ticker that discovery misses, and registers it again when it is back.
Prune(k) ==
  /\ up /\ k \in listed /\ bounds.prunes > 0
  /\ listed' = listed \ {k} /\ bounds' = [bounds EXCEPT !.prunes = @ - 1]
  /\ edge' = [edge EXCEPT ![k] = None]
  /\ UNCHANGED <<now, up, prints, due, pollVars, books, ladders, censors, hbLast, feeVars>>

Register(k) ==
  /\ up /\ k \notin listed
  /\ listed' = listed \cup {k}
  /\ UNCHANGED <<now, up, prints, due, pollVars, bookVars, hbLast, feeVars, bounds>>

Tick ==
  /\ bounds.ticks > 0 /\ bounds' = [bounds EXCEPT !.ticks = @ - 1]
  /\ now' = now + 1
  /\ UNCHANGED <<up, prints, listed, due, pollVars, bookVars, hbLast, feeVars>>

Crash ==
  /\ up /\ bounds.restarts > 0
  /\ up' = FALSE /\ awake' = FALSE /\ bounds' = [bounds EXCEPT !.restarts = @ - 1]
  /\ tstate' = [k \in Tickers |-> None] /\ todo' = {} /\ batch' = <<>> /\ polled' = None
  /\ edge' = [k \in Tickers |-> None]
  /\ hbLast' = [k \in Tickers |-> None] /\ feeLast' = None /\ feeLost' = FALSE
  /\ UNCHANGED <<now, prints, listed, due, log, contact, from, upto, cut, unread, books, ladders, censors,
                 fees, feeLog, feeBoot>>

Resumed(read) == [k \in Tickers |-> Seeded(k, read)]

\* The monitor comes back, and may fail to read rows, a file, or the whole log.
Boot ==
  /\ ~ up /\ up' = TRUE /\ feeBoot' = Len(feeLog) /\ due' = now + PollTicks
  /\ \E read \in SUBSET DOMAIN log :
       /\ tstate' = Resumed(read) /\ unread' = unread \cup (DOMAIN log \ read)
       /\ IF read = DOMAIN log THEN UNCHANGED bounds ELSE Failing
  /\ censors' = censors \cup {[v |-> v, t |-> now] : v \in Dirs}
  /\ UNCHANGED <<now, prints, listed, awake, todo, batch, polled, log, contact, from, upto, cut,
                 books, edge, ladders, hbLast, fees, feeLast, feeLog, feeLost>>

Next ==
  \/ Wake \/ WakeFails \/ Ingest \/ IngestFails \/ Pass \/ PassFails \/ Tick \/ ScheduleFees \/ Crash \/ Boot
  \/ \E k \in Tickers : Trade(k) \/ Fetch(k) \/ FetchFails(k) \/ Frame(k) \/ Prune(k) \/ Register(k)

Spec == Init /\ [][Next]_vars

(***************************************************************************)
(* What the poll promises                                                  *)
(***************************************************************************)

\* No print is logged twice while its ticker stays listed, whatever is served again within the overlap,
\* fails halfway, or is read back from the log after a crash, but for a row that some boot could not read.
LoggedOnce ==
  \A m, n \in DOMAIN log :
    m < n /\ log[m].id = log[n].id => log[m].contact # log[n].contact \/ m \in unread

\* Once a poll of a ticker has ended, every print it could be served, made since its cursor began to look,
\* is in the log, across failures, restarts and late prints, but for what paging cut off.
NothingMissed ==
  \A i \in DOMAIN prints :
    LET p == prints[i] IN
      (up /\ tstate[p.tk] # None /\ from[p.tk] <= p.ts /\ p.vis < upto[p.tk] /\ i \notin cut)
        => \E n \in DOMAIN log : log[n].id = i

\* What is scheduled at the last look is what the fee log ends with, and within a session so is that nothing
\* is any more, whatever looks failed in between and whatever was lost before: only a change whose own write
\* failed is missing, until the next.
FeeChangeLogged ==
  ~ feeLost => /\ feeLast \notin {None, 0} => feeLog # <<>> /\ Last(feeLog) = feeLast
               /\ feeLast = 0 /\ Len(feeLog) > feeBoot => Last(feeLog) = 0

\* What the poll leaves behind it: its types, every print that was served, once only where
\* the log could be read, and the last word on the fees.
TradesInv == TradesTypeOK /\ LoggedOnce /\ NothingMissed /\ FeeChangeLogged
=============================================================================
