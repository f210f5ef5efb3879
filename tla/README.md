# TLA+ models of cross-arb

This directory models the repository's programs in TLA+: the Rust live bot under `src/bot-rs/src/`, the
Python monitor under `src/bot/` that collects the data, and the scripts under `src/scripts/` that read it.
The models are checked with TLC on small instances, and the main safety results of the bot, of the collector
and of the replay of the bot's caps are proved with TLAPS for every value of the constants.  A file named `*.rs` is in
`src/bot-rs/src/`; `monitor.py`, `ledger.py`, `kalshi_book.py` and `colisted_map.py` are in `src/bot/`, every other
`*.py` in `src/scripts/`.

## 1. The system

The program watches the same binary event on two venues, Kalshi and Polymarket US (pmus).  When YES
on one and NO on the other together cost less than the dollar that one of them must pay, there is an
*edge*.  The monitor logs every edge as it opens, changes and closes; the scripts ask of the log how long edges
live, what could have been earned, whether the two venues really settle alike; the bot buys both
legs and holds them to settlement.

### The live bot

One tokio task, the *live loop* (`live.rs`), owns almost all state; other tasks talk to it through unbounded
FIFO channels and a few mutex-guarded maps:

| part | state it keeps | what it does | talks to |
|---|---|---|---|
| Kalshi stream (`venue.rs` 279-413) | connection, sequence tracker, the shared Kalshi books | subscribes, applies snapshots and deltas, cycles on a sequence gap | events to the loop; books read by the loop; subscription updates from the refresh |
| pmus stream (`venue.rs` 455-553) | connection | subscribes in shards, forwards whole books | events to the loop; updates from the refresh |
| live loop (`live.rs` 21-507) | pmus books, freshness sets, `edge_live`, cooldowns, exposure, `pending_entries`, `flattening`, `next_pos_index`, the kill switch | gates a frame, fires an entry, applies outcomes, launches unwinds, supervises the tasks | spawns submissions; reads outcomes and unwind requests |
| risk gate (`risk.rs`) | none | a dozen rejects, then the size: depth, clip, bankroll, three notional caps, fat-edge haircut | called by the loop |
| pricing (`pricing.rs`), signal and fees (`signal.rs`, `ledger.rs`), book walks (`book.rs`) | none / price levels | limit prices, ticks, net edge, depth at edge | called by the loop |
| bookkeeping (`bookkeeping.rs`) | works on the loop's state | reserve and release exposure, classify a pair's answers, recover a naked leg, fail-close, unwind | called by the loop; spawns submissions |
| submissions (`exec.rs`, spawned by `bookkeeping.rs` 687-764) | one order pair in flight | post one leg, then the other if the first filled; read the fills | the venues; an outcome to the loop |
| postponement poll (`postpone.rs`, `unwind.rs`) | last seen game dates | detects a rescheduled game and asks for an unwind of every held pair on it | unwind requests to the loop; reads the positions |
| discovery refresh (`refresh.rs`, `discovery.rs`, `matcher.rs`) | miss counts of vanished pairs | adds new pairs, prunes pairs absent twice unless a position is held | pair map, tracked sets, subscription updates |
| start-up, keys, logs, manual tools (`main.rs`, `config.rs`, `auth.rs`, `exec_log.rs`, `probe.rs`, `smoke.rs`, `flatten.rs`) | configuration, the execution log | run the above | the execution log is read by `depth_at_fire.py` |

### The monitor

A single asyncio thread runs several coroutines; state is shared freely between them and changes hands
at each `await`.

| part | state it keeps | what it does | talks to |
|---|---|---|---|
| streams (`monitor.py` `pm_stream`, `kalshi_stream`; `kalshi_book.py`) | connections, the Kalshi books, the sequence tracker, `ksub` | feed the handler of each slug and ticker; on a reconnect write a marker | `pm_targets`, `k_targets`; the trackers |
| heartbeat (`monitor.py` 1075-1160) | `absent`, miss counts | discovers, registers, subscribes in place, cycles Kalshi if an add never snapshots, prunes | both connections; all registries |
| trackers, debouncer, logger (`monitor.py`) | the state of each edge, closes held back for the flip window | edge, transition label, one line per transition | the transitions file, `sessions.jsonl` |
| trade and ladder poll (`monitor.py` `weather_poll`) | a cursor per ticker | polls prints, logs each once; snapshots ladders; watches the fee schedule | the trades, ladders and fee files, read back on a restart |
| climate reports (`monitor.py` `cli_stream`) | the last report of each station | logs a report whose date or maximum differs | the report file, read back on a restart |
| discovery (`colisted_map.py`) and gate (`settlement_identity.py`) | none | join the two catalogs; say of each pair whether it settles alike | called by the heartbeat and by the scripts |
| paper ledger (`ledger.py`) | cash and contracts on each venue | buy a pair, mark, unwind, redeem, settle | |

### The scripts

They keep no state between runs.  One group reads the transition log: `analyze_persistence.py` rebuilds episodes,
`shadow_fill.py` and `ev_at_latency.py` fill them late, `adverse_selection.py` asks which side moved,
`flip_add_backtest.py` which flips and adds a held position met.  A second walks a bankroll over the
candidates: `account_sim.py`, `recycle_arm_experiment.py`, `venue_split_backtest.py`,
`bankroll_add_backtest.py`, `alloc_policy_experiment.py`, `backtest_current_strategy.py`, and the reports and sweeps around them.
A third reads prints and ladders (`maker_feasibility.py`, `p_hedge_measure.py`), the bot's execution log (`depth_at_fire.py`),
or what settled (`settle_recon.py`, `cli_revisions.py`, `early_exit_ev.py`).  The rest probe a venue and print.

### What is hard about it

* **A position is several steps of several actors.**  Between the frame that approves an entry and
  the moment its outcome is applied, other frames, other entries, unwinds and recoveries run.  The
  code protects itself with markers (`pending_entries`, `flattening`), with reservation at spawn, and
  with position numbers in the client order ids.
* **Two orders are not one.**  One leg may fill and the other not; either may fill in part; an answer
  may be an unambiguous no, or say nothing about the order's fate.  Each case is released, sold back,
  or escalated to the owner by tripping the kill switch.
* **Flattens may overlap.**  Unwinds come from a poll, recoveries from outcomes; both sell, and both
  use client order ids that name no position.
* **Connections cycle.**  Books are rebuilt from snapshots while frames of the other venue arrive, and
  discovery changes what is subscribed; in the monitor any `await` of the heartbeat may fail between two
  halves of one change.
* **A log is a lossy history.**  Flickers are suppressed on purpose, a close is written after it happened, a restart or
  reconnect leaves a mark in whole seconds only, files are read back after a crash; the scripts must not take
  any of that for what the market did.
* **Replays are order-sensitive.**  Whether a settlement comes before an arrival of the same instant decides
  what can be funded; several scripts claim to be the same walk.
* **Two texts, two graders, two clocks.**  The same event is named, dated and settled by each venue in its own way, and
  the report both settle on may be corrected between the two.

### What makes each part correct

* Exposure: buckets equal what is held or in flight, and never pass their caps.
* In-flight markers: at most one entry per slug, never lost, never stuck.
* Books against venues: once a slug is quiet the venues hold exactly what the bot believes, or the
  owner has been told.
* Client order ids: an entry never reuses one the venue has seen.
* Streams: nothing is priced from a book that was not rebuilt since its venue's last reconnect; what is
  tracked is priced in the end.
* Postponement: every held pair on a rescheduled game is asked to unwind; no other is.
* Collector: a frame feeds its own pair; a market is dropped only when it is gone.
* Log and readers: an episode in a report is one that was on the books.
* Prints: each once, none missed; a resting order fills in the replay when it would have filled.
* Replays: money is conserved, caps hold, and the replayed size is the bot's size.
* Discovery, gate and reconciliation: a joined pair is one contract, a verdict is right, a reported
  disagreement is real, and a locked pair pays what it was bought for.

## 2. The modules

| module | models |
|---|---|
| `Types` | `types.rs`: the venues, and the two directions of a lock |
| `RiskGate` | the sizing half of `risk.rs` `evaluate`, one operator per step of the size |
| `Orders` | `exec.rs` acks and errors, the outcome classification of `bookkeeping.rs` |
| `Bookkeeping` | the order path: `live.rs` 394-500 and its outcome, unwind and supervision arms; all of `bookkeeping.rs`; `run_pair`, `run_one`, `post_leg` |
| `Streams`, `Refresh` | both stream tasks of `venue.rs` with the event arm and freshness gate of `live.rs`; composed with `refresh.rs` and a reduced entry |
| `Postpone`, `Probe` | `postpone.rs`, `should_unwind`, the loop's answer to a request; beside it the detector of `probe_mlb_postpone.py` |
| `Collector` | `run_live` of `monitor.py`: streams, `register`, heartbeat, `prune_decision`, `teardown` |
| `Quotes` | the signal and its fees in `ledger.py`, `make_px`, `edge_state`, `classify` of `monitor.py` |
| `Episodes` | trackers, `FlipDebouncer`, flusher, `TransitionLogger`, markers, crashes and restarts |
| `Persistence`, `Latency` | the readers of that log: the episodes, what fills them late, and the adds; what they are worth at a latency, and to a bot that fires by side, direction or hour; flips and adds replayed |
| `Trades`, `Makers` | `weather_poll` and its logs; the two maker studies that read them |
| `Ladders`, `GameBooks`, `Fires` | whole books, `depth_curve` and `game_edge`; the Kalshi books of a game with the `GameTracker`; the execution log and `depth_at_fire.py` |
| `Caps`, `Bank`, `Capital` | `cap_constrained_entries`; an abstract bank; the other walks of a bankroll, in lock-step with `Caps` |
| `Reports`, `Sweeps` | walks in an order of their own and the numbers of the reports; the scripts that run the walks again with other parameters |
| `Pairing`, `Identity`, `Ledger`, `Settlement` | the joins of `colisted_map.py`; the gate of `settlement_identity.py`; the `Ledger` of `ledger.py`; the comparisons of `settle_recon.py`, the revisions of `cli_revisions.py` |
| `Recon`, `Summaries` | the four composed: a pass from discovery to reconciliation; its tallies, revision rates and audit, with `early_exit_ev.py` |
| `MCBookkeeping`, `MCRefresh`, `MCPostpone`, `MCCollector`, `MCEpisodes`, `MCTrades`, `MCFires`, `MCCapital`, `MCRecon` | small values for the constants |
| `Bookkeeping_proofs`, `Refresh_proofs`, `Postpone_proofs`, `Collector_proofs`, `Monitor_proofs`, `Trades_proofs`, `Caps_proofs`, `SumTheorems` | theorems (section 4) |

Definitions called `Bug...` are not part of a model: each is a plausible mistake in the definition that
follows it, and shows that the property named for it in `PROJECT.json` can fail.

### Bookkeeping

The loop's variables keep their names: `positions` (with each leg's cost, net and direction), the four
exposure buckets, `pending`, `flattening`, `nextIdx`, `edgeLive`, `entriesFired`, `halt`.  `running`
turns false when the loop leaves.  `tasks` holds the spawned submissions whose outcome the loop has not
applied.  `real`, `resting` and `coids` are what the venues know and the bot does not: the lots really
held, the SELL orders left on a book, and the client order ids Kalshi has seen.  `alarmed` is the set of
slugs a CRITICAL line has named: each such line tells the owner to reconcile the venues by hand, and
from then on the model does not expect the books of that slug to agree.

A turn of the loop is one action, because the loop awaits nothing inside an arm.  A task takes one
action per order it posts, so every interleaving of the loop with the answers of every task is
explored.  The channels are unbounded and the tasks of two submissions may end in either order, so a
finished task is simply an element of `tasks`, and the loop may apply any of them.

| action | code |
|---|---|
| `FrameSeen`, `FireEntry` | one book frame that fires nothing, or an entry: `edge_live`, the entry guard, the add gate, the size, `reserve_exposure`, `spawn_submit` |
| `Post`, `Panic` | `run_pair` and `run_one` up to an order's answer; `catch_unwind` |
| `LateFill` | a resting SELL is hit at the venue |
| `ApplyLock`, `ApplyCleanAbort`, `ApplyAmbiguousAbort`, `ApplyRecover`, `ApplyNakedHalt` | the Entry arm of `apply_outcome`, with `recover_naked_leg` and `naked_leg_failclose` |
| `SpawnUnwind`, `ApplyUnwound`, `ApplyUnwindFailed` | the unwind arm of the loop, the Unwind arm of `apply_outcome` |
| `ApplyRecovery` | the Recovery arm of `apply_outcome` |
| `SuperviseFatal` | a supervised task has ended |

What a venue may do with an order (`Answers`) covers a full fill, a partial fill (whole contracts at
Kalshi, halves at pmus), no fill, a definite rejection, an ambiguous error or timeout with or without
the order having traded, and Kalshi's refusal of a client order id seen before.  The constant `Quirks`
switches on the awkward behaviours one at a time: a task that panics, a SELL whose rest stays on the
book, a 2xx body with no readable fill, a SELL whose answer is lost, a task that dies.  They are a
constant because with them the bot makes no promise that the books agree; without them it does.

### Streams and Refresh

A book is abstracted to the number of the connection it was built on, 0 for no book: what the
freshness machinery is there for is precisely that no quote mixes connections.  `events` is the one
queue both streams feed, `updates` the two subscription channels, `rebuild`, `fresh` and `pmBooks` the
loop's own variables.  `told[v]` is a history variable: the last connection of venue `v` that the loop
has been told has ended.  `owed` is the set of tickers whose snapshot Kalshi has not sent; `seq` is
the sequence tracker reduced to nothing seen yet, in step, or a number missed.

`Connect`, `ConnectFails`, `SubscribeFails`, `Drop`, `Acked`, `KalshiSnapshot`, `KalshiDelta`,
`FrameLost`, `GapSeen`, `KalshiUpdate`, `KalshiUpdateCycles`, `PmusFrame` and `PmusUpdate` are the
steps of the stream tasks; `HandleKalshi`, `HandlePmus`, `HandleReconnect` and `HandleSeqGap` the
arms of the loop's event match.  `Refresh` adds one cycle in the four stages at which other tasks can
see it half done: `Pull` (catalogue, debounce, held guard), `Apply` (pair map and tracked sets),
`Free` (Kalshi books), `Send` (subscription updates).  Entries are reduced there to
`pending`, `held`, `Resolve` and `Unwind`: only the fact that a slug has money on it matters.

### Postpone and Probe

The league announces statuses at any time (`game`, `Announce`); a date is a day number.  `moved` is a history
variable: the games that were at some time out of the window, that is cancelled, without a makeup date, or
played later than the window after the slug's own date.  `prev` is the poll's snapshot of a slug, `legs` the
number of legs held, `requests` the unwind channel.

A poll cycle is cut where it awaits or takes the lock anew: `Wake` takes the slugs held, `Pull` and
`PullFails` fetch a schedule each, `Decide` reads the last snapshot and may send a request, `Store` writes
the new snapshot if the slug is still held.  A cycle whose team list cannot be pulled changes nothing and
is a stutter.  The loop serves a request by `SpawnUnwind` (the slot is free, something is held, both books
have a bid) or forgets it by `DropRequest`; `Unwound` and `UnwindFails` end an unwind.  `Lock`, `Recover` and
`Recovered` are what entries do to the legs and the slot, reduced from `Bookkeeping`.  Every slug of the
model is one the poll has a source for: pairs of other leagues are never polled.

`Probe` is the Python detector.  `ProbeAgrees` says that the poll of the bot asks for an unwind when, and
only when, the detector would on the same two snapshots, and that its scan of a schedule tells of the
announcements that are there.

### Collector

An action runs from one `await` to the next.  `tracked`, `bound` and `absent` are `pm_targets` with `slug_k`,
`k_targets`, and the miss counts; `fed` is the set of slugs and tickers whose data their tracker has, all
that is kept of a book.  `conn` is `conns`, in which a dead socket stays until its stream notices
(`Drop`, then `Notice`): in between a send on it fails.  `wireP` and `wireK` are what the venues send on the present
connections, `owed` the snapshots on their way, `cmds` the `update_subscription` commands not yet taken,
`pending` is `ksub["pending"]`.  `cutOff` is a history variable: the tickers whose heartbeat broke off at the send to pmus, since Kalshi last
connected.  The heartbeat `hb` is cut where it awaits: `Discover`, `Register` with the send to
pmus, `AddTickers` / `CycleKalshi` / `NothingToAdd`, `Prune` / `SkipPrune`.  A discovery returns all that is listed, or less with
an error reported, or less without.

### Episodes and Persistence

Edges are computed from the touches by `Quotes`, in hundredths of a cent with the fees; `Books` is what two books may show.
`Frame` is one frame of either venue through tracker, debouncer and log; `Flush` the flusher, which sleeps between its rounds and takes a close
at the latest `FlushLag` ticks after it has expired (`Overdue`); `Reconnect`,
`Crash`, `Boot` and `Teardown` the rest.  Time is in ticks, of which a marker keeps whole seconds.  `seen` and
`marks` are history variables: every change of an edge as the trackers saw it, and the exact times of the
markers.  `Persistence` has no state: each script is an operator on `log` and `markers`, and each
property compares what a script reads with `seen`.  `Latency` goes on from there: the classes and gates of `ev_at_latency.py` and
`strategy_idea_tests.py`, the side that moved (`adverse_selection.py`), and the replay of `flip_add_backtest.py`, whose desk holds
one position, turns it at a flip and adds to it.

### Trades and Makers

`prints` is what Kalshi made, each with the tick at which its REST service first shows it; `tstate` is the cursor of each ticker,
`log` the trades file.  `Wake`, `Fetch`, `Ingest`, `IngestFails`, `Pass` are a cycle of `weather_poll`, cut between the
fetch and each line written.  Every write may fail: `WakeFails` is the fee record's, remembered before it is written, `IngestFails` a print's, `PassFails` a
ladder's.  `Crash` and `Boot` lose the cursors and read them back, from the rows that can be read: all, some, or none, which is the fallback of
`weather_poll` (`unread` keeps the others).  `Makers` replays resting orders on the ladder
records and the prints.  A sorted list of either script is a set of places in the log (`Obs`, `LadderObs`, `TradeObs`), and what the script
finds by walking the list is said of places: two that follow each other (`Adjacent`), the first that crosses a level (`FilledAt`), the first
in the order of the sort that fills (`NoLater`, `DetectFill`), the volume at the level up to there (`AtLevel`).

### GameBooks and Fires

`Ladders` has whole books as sequences of levels, `depth_curve` as a walk over two of them that keeps, as the code does, the level each ladder has
reached and what is left of it, and `game_edge`.  The walk compares a float, 1.0 - a - b, with its thresholds: `Short` is the set of pairs of asks whose edge
comes out just below the threshold it should equal, as 0.90 and 0.08 do at 0.02, and `Pays` leaves them out.  What the walk is held against, `Pairs`, knows no walk: it counts the units of the two ladders (`UnitPrice`)
that pay the threshold one by one.  `GameBooks` keeps
what rests at the venue beside the books the stream has built from snapshots and deltas, with a sequence number that may be lost, and the
tracker's own view of three books.  `Fires` composes it with an execution log written by firing, being answered and dying.  `Read` is the loop of
`group_fires` over that log; the study's numbers are operators on the fires it returns, with a class of fires as a set of places among them, and `made`
is the history of the fires as they were.

### Capital

One sequence of candidates goes through all walks in lock-step.  A candidate comes (`Come`); `Caps` settles one position
after the other (`SettleCap`), the arms of `recycle_arm_experiment.py` make each settlement event between it and the candidate
before (`ArmSettles`), then every walk decides at once (`Decide`).  `Widen` adds to a held position, `End` settles what the window still
covers.  `Reports` and `Sweeps` compute walks as functions of the candidates so far; `ReplaysAgree` compares them with the step-by-step ones.

`Bank` is the abstract specification: money is free or locked, what is locked comes back with what it
earned, nothing is lent that is not there.  `WalksAreBanks` is the refinement: the walk of the caps, `run_account` and `run_arm` implement it with cash, capital locked and
profit booked (the caps book none); each pool of `two_pool_walk_with_adds` implements it with profit 0, because the script
returns only the cost to a pool.  `SizedAsTheBot` relates two programs: whenever the replay takes a candidate, its size is the one
that `RiskGate`, instantiated with the replay's parameters, approves for the same exposure.

### Recon

A behaviour starts from one listing (`Scenarios`) of the two venues with their rules texts.  `Join` joins and stamps one market at a time;
`Enter`, `Unwind` and `Redeem` trade one joined pair on the paper ledger; `Issue`, `Poll`, `PollFails`, `Crash` and `Restart` are the climate reports and
`cli_stream`, which remembers a report before it writes it and swallows the error of the write, and which after a restart may read only part of its log (`dropped`
keeps the reports so lost); `Grade` and `ShowInterim` are the venues; `Reconcile` compares.  A market is a record of what a join reads, together with what it really stands for
(`real`, `teamA`), which only the properties read; a text is the set of what the patterns of the gate find in it.

## 3. The runs

| run | question | properties |
|---|---|---|
| `BookAwkward` | two slugs of a cluster, two entries, an unwind, orders of up to two contracts, every quirk at once, a cluster cap that binds | `CapsHold`, `RecoverySlotExclusive`, `InFlightMarked`, `ExposureAccounted`, `EntryCoidFresh` |
| `BookStacking` | scale-in and re-entry on, three edges, two legs on a slug, two unwinds, under fairness | `StackOrdered`, `BooksMatchVenues`, `Resolves` |
| `StreamRefresh` | one pair through three refreshes, with an entry and a fault, under fairness | `RefreshInv`, `QuotesRebuilt`, `QuotesAgain` |
| `PostponeUnwinds` | two games, seven statuses, two announcements, two entries, under fairness | `NeverNeedless`, `AnnouncedUnwinds`, `ProbeAgrees` |
| `CollectorKeeps` | a game and a bucket that share a ticker, two relistings, a fault, under fairness | `CollectorInv`, `PruneNeedsTwoMisses`, `AllFed` |
| `EpisodesTrue` | a market through four changes in six ticks with a reconnect or a restart, or two markets of which one may outlive the other; four books | `LogSound`, `EpisodesAreTrue`, `ReplayIsReal`, `AttributionIsSound` |
| `Trades` | up to three prints, failures, a restart, a prune, fee changes | `TradesInv`, `MakerKeepsTheEdge`, `FillsAgree` |
| `Capital` | up to four of five candidates, two adds | `CapsHold`, `ExposureIsHeld`, `RecyclingIsSound`, `ReplaysAgree`, `WalksAreBanks`, `SizedAsTheBot` |
| `Recon` | five weather ladders, six cards of games, nine of soccer, releases, and the texts of every category | `PairsAreContracts`, `VerdictsHold`, `ReportsAreRead`, `DisagreementIsReal`, `PositionsHold`, `DayIsToldAndCounted`, `RotationNeedsAFlip` |
| `Fires` | two changes and a loss on two Kalshi books beside pmus's, or four fires, or three and a death | `BooksInv`, `GamesArePriced`, `FiresAreTrue` |
| `BookOversold`, `CollectorForgets` | what a comment says | fail, see section 6 |

A property of several parts is a conjunction of named definitions; each part has a comment of its own at its definition.  The larger ones:
`Resolves` is `EntryResolves`, `FlattenResolves` and `NakedResolves`; `CollectorInv` is the types, `RoutingExact` and
`ForgottenOnlyIfCutOff`; `TradesInv` is the types, `LoggedOnce`, `NothingMissed` and `FeeChangeLogged`; `ReplayIsReal` says of the late fills that a survivor was there
and is paid (`SurvivorWasThere`, `SurvivorIsPaid`), that a failure was real (`FailureWasReal`), that survival only falls with the latency
(`SurvivalFalls`), that two scripts' views of one episode agree (`ViewsAgree`, `C1IsDeeper`, `PartsAddUp`), and of the flips and adds that they turn and
keep what is held (`FlipsTurnThePosition`, `CloseIsBothEdges`, `TrueAddsKeep`); `AttributionIsSound` is `PairsAreCleanEpisodes`, `OpensMeasureAMove`,
`ClosesMeasureAMove`, `JoinsAreExact` and `CohortIsTold`; `RecyclingIsSound` says of the arms that nothing which could be funded is left idle and that only a live episode is recycled into, and has the types of the other walks; `ReportsAreRead` is `ReportsAreKept`, `WalkReadsTheFinal` and `RevisionsAreTheTape`;
`ReplaysAgree` collects the agreements of the capital scripts (`WalksAgree`, `ArmsAreWalks`, `CapWalkIsReplay`, `PeakSuffices` and others);
`RotationNeedsAFlip` says that selling a pair pays only at books turned the other way, and that the flip study values the turn
as the ledger does.

### Bounds, and why they are enough

* **Bookkeeping.**  Exposure, caps, the kill switch and the entry count are the only things two slugs share; two slugs of one cluster
  show every sharing.  Stacking, retries and client order ids are per slug, so `BookStacking` has one.  Two entries are two in flight at once, a
  second one after the first has missed or was unwound, or two legs; two unwinds are a retry.  One contract is two lots, so a
  partial fill at pmus exists; the entries of `BookAwkward` are of up to two contracts, so a partial fill at Kalshi exists too.  For all
  other sizes and caps `CapsHold` rests on the proof.
* **Streams and Collector, `MaxFaults` 1.**  One fault is one dropped connection, failed connect or send, or lost frame, and
  the cycling it causes.  A connection number makes one reconnect enough to mix two connections.  `MaxEvents` bounds deltas and pmus
  frames only, so an old frame can always be behind or before the event that ends its connection.  Three refreshes are a miss, a second miss that
  prunes, and a relisting; two relistings in `Collector` are a market gone and back, with the heartbeat running freely.
* **Postpone.**  Two announcements are a game moved and moved again, or moved and put back; two entries are two legs on a slug, one
  on each of two, or a leg beside a recovery.  The seven statuses lie before, on and past the last day of the window, for a slide and for
  a makeup, with a suspension without a date and a cancellation.
* **Episodes.**  Four changes are an opening, a flicker or a flip, and a close; the window is a tick and a second two ticks, so events fall in
  one second, at its end, and beyond the window, and six ticks suffice for an edge that dies, comes back after the window and dies again.  (With
  `BootTicks = 0` and `FlushLag = 0`, `EpisodesTrue` ends in a counterexample to `EpisodesAreTrue` of that kind.)  `FlushLag` is 1: a close may wait one tick, half a second, longer than the window.  No log mixes two markets,
  but the last record of any of them ends the episodes that are still open, so the second of the `EpisodeBounds` has, for four ticks and without a mark, a market beside the first; a latency of
  three ticks then lies behind the first market's teardown and before the second's last record.
* **Trades.**  Two prints of one second and a failure between them, three against a page of two; `Scenarios` gives each
  case its own small budget instead of all at once.  A failure is a request, a write or a reading of the log at start.
* **Capital.**  Four candidates of five: two in a cluster, two past the fat-edge knee, one deep; the
  caps are chosen such that each binds somewhere.  Seven instants are enough for a settlement before, at and after an arrival.
  The edges have parts of a cent (312, 687, 905 hundredths), as fees make them.
* **Recon.**  Each listing holds the difficulty it is named for in `MCRecon`: a ladder a degree off, a bucket listed twice, a doubleheader, a series with
  the next day's UTC date, names a letter apart, an event without a tie, two releases of one year.  Two or three reports are a first, a
  correction, and one for the next day; one write or one reading of the log fails (the last argument of `Wx`); the texts range over all combinations of what the patterns may find in two small texts.
* **Fires.**  `FallShort` names the two pairs of asks of these books whose floats do fall short, one at 2 cents, one at 0.  The pmus books include a crossed one, an empty side, an empty level inside, and one far from Kalshi's.  Four fires are two of each
  category, the least at which a stratum has a lock and a miss.
* **`CHECK_DEADLOCK FALSE`** stands in the runs in which the system may stop: a supervised task has died (`BookAwkward`), the bounded refreshes and
  faults are used up (`StreamRefresh`), time or the bounded candidates, prints, frames and reports have run out (`EpisodesTrue`, `Trades`, `Capital`,
  `Recon`, `Fires`).  Elsewhere deadlock is checked.

### Fairness

`BookStacking` assumes that, for each slug and kind of submission, an order posted is answered and an
outcome sent is applied.  The second is the code's: the loop's `select!` keeps polling the outcome
channel.  The first is an assumption about the environment, because the HTTP client of `exec.rs` is
built with no timeout: an order never answered leaves its slug marked for ever.  Nothing is assumed
about frames, unwinds or panics.

`StreamRefresh` assumes that tasks that can take a step do, that a venue in the end accepts a connection
(faults are bounded), sends the snapshots it owes, shows a lost frame by a later one, and keeps sending
frames of what is subscribed.  The last is strong fairness, because the model's full queue switches the frame
off, where the real one is unbounded.  `EarlyLoss` is off in that run: a frame lost before the first
sequenced one cannot be detected by the tracker (`venue.rs` 136), and the ticker then waits without a
book until the connection is next cycled.

`PostponeUnwinds` assumes that poll and loop keep running and that an order is answered
(weak fairness), and that what is tried again and again succeeds in the end (strong fairness): a pull
arrives, both books of a slug have a bid when its unwind is asked for, and the two SELLs of an unwind fill.  The
last three are the environment's; the poll's part is to keep trying.  Nothing is assumed of the
league or of entries.

`CollectorKeeps` assumes, weakly, that the coroutines of the event loop keep running, that a stream notices its dead socket,
that connections are accepted, and that the venues answer commands and send what is subscribed.  `LateNotice` names the venues whose dead socket may be
used before it is noticed: `{"k"}` there.  With `"p"` as well, all three properties still hold (859,439 states), since each says what a cycle that broke off
at its pmus send may leave behind; the run has the smaller set to stay quick.  What is left behind is `CollectorForgets`.

`EpisodesTrue` asks nothing of its actions but that the flusher comes round: no frame and no tick passes a close that expired `FlushLag` ticks ago.  The flusher of
the code sleeps half a second (`monitor.py` 1163-1167), one tick of that run.  An edge that comes back during the sleep takes the overdue close with it unlogged (section 6), and
the properties say what that costs: a clean episode may hide a gap up to the window and the sleep (`CleanIsTrue`), and where an edge opened twice without a close, the scripts may
disagree about the beginning of the episode, or pay a fill in the direction of its first opening (`OpenedTwice`, `OpenedAgain`).  The theorems hold for every `FlushLag`.
Liveness is not asked of the other runs.

## 4. The proofs

Every theorem is about the specification a run checks, without its fairness (`CapsSpec` is the walk of the caps alone), for all constants that satisfy the `ASSUME` of its
modules; TLC evaluates those assumptions on every run.  A condition beyond them is written into the theorem and named here.

### The risk gate and the bookkeeping (`Bookkeeping_proofs`)

`ApprovedSizeFits`: for every edge, depth and exposure, an approved size keeps the pair, cluster and total buckets and the number of
positions within their caps.  A floored quotient of the room, times the cost, is never more than the room, and the haircut never
enlarges a size that is at least 1.

For all slugs, clusters, edges, depths, caps, quirks and bounds (`BookkeepingAssumption`, which wants finitely many slugs, since the
exposure is a sum over them, and `RiskAssumption`):

* `TypeCorrect`: `Spec => []TypeOK`, inductive as it stands; a lemma gives the type of each operator that builds a task, an answer
  or an exposure.
* `CapsNeverPassed`: `Spec => []CapsHold`.  A reservation is bounded by `ApprovedSizeFits`; every other step leaves the buckets alone
  or lowers them.
* `OneEntryInFlight`: `Spec => []InFlightMarked`.  Only a step that applies an entry's outcome takes an entry out of `tasks`, and the
  entry guard keeps a second one out.
* `RecoveryHoldsAlone`: `Spec => []RecoverySlotExclusive`.  The entry guard wants the flatten slot free, and the step that launches a
  recovery takes the slug out of `pending` in the same turn of the loop.
* `StackStaysOrdered`: `Spec => []StackOrdered`.  The gate of an add looks at the legs held when the entry is *spawned*, the leg is
  pushed when its outcome is *applied*.  `EntriesFit` carries the gate across: an entry in flight beats every leg held by now and has
  room.  It survives because no second entry can be in flight (`InFlightMarked`), so the stack under it only shrinks.
* `ExposureAlwaysAccounted`: `Spec => []ExposureAccounted`.  The buckets are sums over slugs of what is held and in flight
  (`CommittedMap`); a step changes that map at one slug (`SumFollows`), by exactly what `Reserve` and `Subtract` do to the buckets.  That
  the amounts agree rests on `TasksShaped`, what a task's answers can be in each of its phases, and on
  `InFlightMarked`, by which the entry released is the only one of its slug.
* `CoidsStayFresh`: `Spec => []EntryCoidFresh`.  `EntriesNumbered`: an entry in flight carries the index its slug is at.  `CoidsSpent`: an
  id Kalshi has seen is behind that index, or of the entry in flight that posted it, or the bot has halted with no entry left on the
  slug.  The last case is real: an entry whose order may have been placed leaves without spending its index, but never without
  tripping the kill switch (`UnspentHalts`).
* `BooksAlwaysMatch`: `Quirks \subseteq {"death"} => (Spec => []BooksMatchVenues)`.  The condition is what the code needs: with an
  order that rests, an answer misread, a SELL lost or a panic between two orders the books really part from the venues (the quirks of
  `BookAwkward`; section 6).  The invariant `MatchInv` says in every state, not only in quiet ones, that the lots a venue holds of a slug are
  its legs plus what its tasks have moved and not yet reported (`BooksBalance`), unless an answer in flight does not say.  It needs that
  two tasks are never taken for one another (`TasksApart`), and that an unwind still closes the front leg or can no longer fill at Kalshi
  (`UnwindsClose`), which holds because all unwinds of a slug carry one client order id: the reuse that section 6 calls a divergence is what keeps
  Kalshi from being sold twice.

The sums are the library's folds over sets.  Its induction theorems take an operator and cannot be used, so `SumTheorems` proves
what is needed from the definition: induction over finite subsets by a least counterexample, that the fold is the one
solution of its recursion, and from that its type, what one element more or less does, reindexing, and sums over sequences.

### The streams and the refresh (`Refresh_proofs`)

For all slugs, tickers, queue bounds, faults and cycles (`StreamsAssumption`, `RefreshAssumption`: a pair has at least one ticker and shares
none):

* `RefreshTypeCorrect`: `Spec => []RefreshTypeOK`.
* `QuotesAlwaysRebuilt`: `Spec => QuotesRebuilt`.  The inductive invariant orders the one queue: behind the event that ends a
  connection come only frames of later ones, and every frame still queued is of a later connection than the last one the loop knows to have
  ended (`QueueOrdered`).  With `BooksCurrent` - a book is of the open connection or is not used - whatever the loop reads next, the books
  it prices from were built after the last loss it has been told of.
* `RefreshAlways`: `Spec => []RefreshInv`.  The updates still to come of a venue are those in its channel and the one of the refresh under way
  (`Coming`).  `WireCatchesUp`: the last of them that speaks of a ticker adds it exactly when it is tracked, and of a ticker none speaks of,
  an open connection carries what is tracked.  It is kept by a reconnect between any two stages of the refresh, because the tracked sets change in the
  same stage as the update is decided, and an update repeated on a connection that has read the sets changes nothing.

### The postponement poll and its model (`Postpone_proofs`)

For all games, dates, windows and bounds (`PostponeAssumption`, `ProbeAssumption`):

* `PostponeTypeCorrect`: inductive only because it says that an unwind in flight still has its leg; without it, an unwind's end could
  take the number of legs below zero.
* `NeverNeedlessHolds`: `Spec => []NeverNeedless`.  What `detect_postponement` and `should_unwind` together let through is a status
  out of the window (`RequestedIsBeyond`); the strengthening `MovedKnown` says that such a status, once pulled, is of a game that has
  moved, even when the league has changed it since.
* `ProbeAlwaysAgrees`: `Spec => ProbeAgrees`.  The trigger of the probe on two snapshots is the decision of the poll on the two statuses
  (`TriggerDecides`), whichever of its two original dates it measures from; at first sight it is the league's announcement (`FirstSight`).

### The collector (`Collector_proofs`)

For all markets, tickers and bounds (`CollectorAssumption`):

* `CollectorTypeCorrect`, and `RoutingIsExact`: `Spec => []RoutingExact`, a ticker is bound to the one tracked slug whose leg it is.  It needs of
  `register` that the slugs it accepts are disjoint from each other and from what is tracked (`AcceptedIsDisjoint`), and of the prune that it
  unbinds exactly what it untracks.
* `NoneForgotten` and `CollectorAlways`: `Spec => []ForgottenOnlyIfCutOff` and `Spec => []CollectorInv`, for every `LateNotice`.  A tracked ticker that nobody
  answers for or watches was registered by a cycle that broke off at its pmus send, and stays so until Kalshi reconnects or it is pruned; on pmus whatever is tracked is
  on the wire.  Where a dead pmus socket is always seen first there is no such cycle, and `NeverForgotten` holds; otherwise it fails: `CollectorForgets`.
* `PrunedWereMissedTwice`: `Threshold >= 2 => (Spec => PruneNeedsTwoMisses)`, the code's threshold being 2.  `MissesAreRecent` is the invariant: a
  slug with a miss counted was missing from the last complete discovery.

### The log of the monitor (`Monitor_proofs`)

For all markets, books, windows and numbers of reconnects and restarts, and for every sleep of the flusher (`EpisodesAssumption`: books that can be
priced, with integer touches; `None` is none of the values it stands beside):

* `EpisodesTypeCorrect` and `LogAlwaysInOrder`.  While a close is held its edge is gone, so nothing is logged of that market but an opening, which
  takes the close with it; a log reaches no further than `Horizon`, the time of the close held or now.  That is why a close may be written late
  with an early time and still be in order.
* `LogAlwaysSound`: `Spec => []LogSound`.  `Accounted`: a tracked market that has no edge and owes no close was last logged to lose it, or before
  a marker.  A reconnect and a restart keep it by their marker, a teardown because the market never comes back.  The one step that does not is
  an opening with the close overdue: then the close, which the trackers saw (`Losable`), lies between the two openings and is more
  than a window older than the second.  With a flusher that does not sleep (`FlushLag = 0`) there is no such step, and no edge opens twice.
* `EpisodesAlwaysTrue`: `BootTicks >= TicksPerSecond => (Spec => []EpisodesAreTrue)`.  Two halves.  About the system, `SeenInv`: what a log
  has of openings and closes was seen; a close that is held is the last thing seen; and an edge that died is `Shown` to have been gone before it
  comes back after the window and the sleep, by a close logged at its death or by a marker in between (an opening that loses the close before it comes at most a
  window and a sleep after it, which is all an episode may hide; the step that needs the second is the restart: `StampIsLate`, its marker in whole seconds is still later than the death of the process).  About the script:
  the timeline is a strict order of finitely many events (`EventsOrdered`), and counting what is earlier puts them in their places (`TimelineOrders`, with `PlacesRise`
  and `PlacesFill`, for the sort is taken at its meaning); along it `WalkSound` says that an open episode began with an opening that nothing has ended since, by
  induction over the places (`WalksExist`, `Climb`).  A long gap within a clean episode, or a marker within any that is not called cut off, would be an event between its ends
  (`NothingBetween`).  Without the hypothesis it is false: a restart within a second
  may be marked before the death it stands for.  The code's restart discovers every market before it marks its session.
* `ReplayAlwaysReal`: `BootTicks >= TicksPerSecond => (Spec => []ReplayIsReal)`, what `ev_at_latency.py`, `shadow_fill.py` and
  `flip_add_backtest.py` read out of that log.  The types, the order and `SeenInv` say when something was seen and not at which books, so there is one more
  inductive invariant, `RememberInv`.  Of a log it says (`KeptTrue`) that every record is made of the books it carries (`Faithful`), that what it has of an edge was seen (`Witnessed`) and what was
  seen to go on is in it (`Recorded`), that a flip turned what was seen before it (`Turned`), and that between two sightings in different directions there is a
  close, a flip, an opening or a marker (`Steady`).  The last is the delicate one: an edge may die, come back turned within the window and be logged as one flip, or die
  with its process; so it needs that `lastDir` is the direction of all that was seen and is not shown to be broken since (`SameWay`), and that a close is held for no longer than the window and the sleep of the
  flusher while the trackers are there (`Going`).  The step that needs the hypothesis is that of `SeenInv`.
  From there on it is about the scripts, in any state that remembers (`Remembered`).  The episodes of a market lie apart (`EpisodesApart`), and what is in the
  trajectory of one is a record of its own (`OwnsThem`); a late fill meets the last of them before it, so what it is paid was seen then, and either nothing was seen to end
  since, or the end lay within the window and the sleep, or the edge has opened again (`FillMeets`): that is `SurvivorsWereThere` and `SurvivorsArePaid`.  A failure was real because the first record that
  ends the trajectory was seen (`FailuresWereReal`), and it stays first for every longer latency (`SurvivalsFall`).  The views of the value are sums over the cohort, and
  the classes and the hours are partitions of it (`ClassesAddUp`, `HoursAddUp`, with `SumTheorems`).  That a close brings both edges is arithmetic on the fees: Kalshi's order fee is the
  exact one rounded up, by less than a cent a leg (`RoundedUp`), in each of the four directions (`CloseFromP`, `CloseFromK`).  That a longer hold keeps every true
  add is said of the first add that a hold passes over (`AddsStay`).

### The books of a game (`Monitor_proofs`)

For all books, prices, changes of a level, pmus ladders and fires (`GameBooksAssumption`, `QuotesAssumption`), and without a bound on how many
frames and connections are lost:

* `BooksAlwaysTrue`: `Spec => []BooksInv`.  The wire is a sequence of frames, each of which says what the venue's books are after it.
  The frames are numbered without a gap up to the last one sent (`Numbered`); each is the step from the books before it, and the last one
  is of the venue's books now (`Linked`).  Because frames are lost from the front, the next one is the number the stream expects only if none
  was lost before it, and then it is a step from the books shown (`InStep`).  The weak point is the first frame of a connection, which
  `SeqTracker` accepts whatever its number: it is safe because a fresh connection has no books, and a delta of a ticker without one makes
  none.  `TrackerInv` says the same of the tracker: whatever is fed leaves the touch and the ladder of one book together, and
  `evaluate` changes the state only.
* `GamesAlwaysPriced`: `GameSpec => []GamesArePriced`.  The assumption it needs is the code's own, that pmus's ladders come best first ("already sorted
  best-first", `best_px`); that a ladder of Kalshi does is proved, from the order in which a book is read out (`HighestFirst`, `RankedAscends`).
  `TrackerHolds` is the invariant: the books the tracker holds are books, and the quotes are their touches.  The depth is a statement
  about all pairs of ladders (`DepthIsPairs`): after n turns there is a number c of units such that both walks stand where c units
  bring them (`Reached`), and what has been found for each threshold is how many of those c pay it (`WalkTrue`).  Either a turn uses up a level or
  no pair is left, so that Len(a) + Len(b) turns are enough (`WalkGoesOn`, `WalkEnds`); and because a unit never costs less than
  the one before it (`UnitsAscend`), the first pair that does not pay is followed by none that does: the edges fall, and
  where they stay the same so do both asks, hence the rounding, whatever `Short` is.  An empty level stops the walk early, and then
  it finds less, never more.  `GamesAlwaysSignals` takes the two directions of a game to the two of a market: the asks of team B are the bids of team A,
  read through 100, so the nets and the ladders walked are the same ones.

### The log of the fires (`Monitor_proofs`)

For all slugs, categories, depths and outcomes (`FiresAssumption`: depths are numbers of contracts, `None` is none of the records it stands beside):

* `FiresAlwaysTrue`: `GameSpec => []FiresAreTrue`.  `FireInv` says that what the log tells is `made`, and that each fire under way is the one that is open in
  the log with its own depth.  The converse is false: a death leaves an opening that no outcome will close, and what saves the pairing is that the next
  fire of the slug writes its entry over it.  Records of other slugs and the book of a recovery leave an opening alone (`RecoveryGrouped`), so no order
  of them pairs a fire with another's book.  `Read` goes on by one record at a time (`ReadGoesOn`, by `Climb`).
* About the study, for every log the grouping may return: ranks, with ties in the middle, add up to pairs (`RanksAddUp`), because pairs can be counted by either member
  (`CountedByFirst`, `CountedTheOtherWay` of `SumTheorems`); so twice U is twice the pairs in which the lock was deeper and once those that tie.  Among
  equals that is half of the pairs (`UOfEquals`), hence every stratum says nothing where depth follows the category, whichever fires are called locks.  The gate
  with the best ratio exists because the ratios of finitely many gates can be compared (`RatiosGoOn`, `BestRatio`), and a gate that keeps all is one of them.

### The prints (`Trades_proofs`)

For all tickers, prints, ladders, fee schedules, periods and pages, and for the maker studies all thresholds and clips, without a bound on how many requests, writes and readings of the log fail and how often the
process stops (`TradesAssumption`: a print is served less than a second after it was made, which is what the cursor's second of overlap is for):

* `TradesTypeCorrect`, `PrintsLoggedOnce`, `NoPrintMissed` and `TradesAlwaysSound`: `Spec => []TradesInv`.  The invariant (`PollInv`) is about three
  things that are said of each other.  The log: a row is never ahead of a print that a cursor standing at the row could no longer reach (`InOrder`).  A
  cursor: it stands where it began to look or at a row of the log, knows only what is logged, and what it has forgotten of this contact is out of its reach
  (`CursorSound`).  A batch: it is in order, within the cursor's reach, and has all that was served when it was asked for, but what the page cut
  (`BatchSound`).  `InOrder` is what makes the crash safe: the cursor that `seed_trade_state` makes of the log is as far as the latest row, wherever the
  batch broke off, and nothing before it is missing because the batch was taken oldest first (`BehindTheNext`).  What cannot be read back only leaves the cursor further
  behind: nothing is missed by it, and what is logged again is a row in `unread`.  Of the fees it is `FeeInv`, which is `FeeChangeLogged` with its types: `feeLost` says
  that the last change was remembered and not written.  That a print is not logged again
  rests on the ids: the cursor frees one only when it is more than the overlap behind, and then no poll asks for it (`UnknownIsNew`).
* `ingest_trades` and `seed_trade_state` are recursions over the batch and over the log.  They are recursive functions in the model, and what
  they return is shown by induction up to a bound (`Climb`, from the least counterexample), after it is shown that the recursion has a solution
  (`IngestsExist`, `SeedsExist`).
* `MakersAlwaysKeep`: `Spec => []MakerKeepsTheEdge`, under `MakersAssumption` (a touch is a number or missing, a queue is a number).  It rests on the types
  alone: the level lies within the spread (`LevelInSpread`), so it is no worse than the touch the taker pays; the hedge is the same order as the
  taker's second leg; a taker's fee is never below nothing and a maker's never above (`FeesSigned`).  One case for each venue and side (`LegKeeps`),
  and one for both legs at the inner touches (`BothKeep`).
* `FillsAlwaysAgree`: `Spec => []FillsAgree`.  On the touches, what crosses a join crosses an improve (`CrossingsGrow`), so the first crossing is no later
  (`FirstCrossing`); that it is then strict as well needs the ladders to be in the order of time (`LaddersInOrder`, `OrderStep`), as the observations are
  compared by place and the censors by time.  On the prints, the two fills are the first of two sets, one within the other (`FillsGrow`), under a total order
  (`OneOrder`, `OneIsFirst`).  That the tape counts (`ThroughCounts`) is `NoPrintMissed`, and that no print is logged before it was made (`RowsTyped`): the
  row of a print made after the placement is received after it, so `detect_fill` looks at it.

### The replay of the caps (`Caps_proofs`)

For all candidates, markets, clusters, bankrolls, caps, haircuts and times of arrival (`CapsAssumption`):

* `CapsTypeCorrect`, `CapsAlwaysHold`: no ceiling is passed.  A size in `Fits` leaves every ceiling unpassed, `Halved` is no larger
  and at least 1, a settlement only gives back.
* `ExposureIsAlwaysHeld`: `CapsSpec => []ExposureIsHeld`.  Two positions might be equal as records and then be counted once by the sums;
  `HeldAreOlder` - everything held was opened before the candidate in hand - is what keeps them apart.
* `CapsImplementBank`: `CapsSpec => CapsIsBank`, each step of the walk maps to a step of `Bank` or a stutter.
* `LockStepRunsTheCaps`: `Spec => CapsSpec`, each step of the eight walks run together is a step of the caps or leaves them alone; so
  `CapsHoldInLockStep`.  Together: `Capital` implements `Caps`, which implements `Bank`.
* `WalksImplementBanks`: `Spec => WalksAreBanks`, from `CapsImplementBank` and one theorem per walk, under `CapitalAssumption` (whole numbers of money,
  touches between 0 and 100, a rank that orders the markets).  `BankrollImplementsBank` and `PoolsImplementBanks` keep positions apart by
  their time of opening, as above; a size that a pool can pay stays payable when the fat edge is halved (`Pays`), and a leg is never
  more than the contract costs (`Share`).  `ArmImplementsBank` cannot use the time: at one settlement several candidates are taken at once.  There it is the
  market that keeps positions apart, so `ArmsInv` also says that who waits is held by nobody and is not the candidate in hand.
* `RecyclingAlwaysSound`: `Spec => []RecyclingIsSound`.  A second look goes through what waits from the best edge to the worst; `RecycledTries` is an
  induction over the sets that begin that order (`LeastSubset`): whoever was tried and still waits could not be funded then, and cannot be later, because
  each further purchase leaves less money and no more room (`PoorerCannot`).  Between settlements an arrival only takes money.  That the arm takes live
  episodes only needs that what waits arrived before anything held settles, hence before the settlement that lets it in (`Traced`).
* `ReplaySizesAsTheBot`: `BotMoney => (Spec => SizedAsTheBot)`, with money in hundredths of a cent, the four decimals of a logged edge.  The replay asks for the largest number of contracts
  that fits under each ceiling, and its room for cash is one the bot does not have; `risk.rs` divides what is left under each ceiling by the cost of a contract.  A floored
  quotient is the largest number whose product fits (`RoomIsWhatFits`); cash never binds before the total cap (`ExposureIsHeld`); so the sizes that fit are those up to the bot's clipped size
  (`FitsAreClipped`), the greatest of them is taken by both, and halved alike (`ApprovedIsHalved`).  `BotMoney` asks for a floor above nothing, a
  bankroll no smaller than the total cap and a contract of depth, which `capturable` demands; `MCCapital` has TLC evaluate it on the instance of the run.  The statement leaves out
  a ceiling with room for an exact number of contracts (`OnTheEdge`), where the floats of the two programs differ (section 6).

### What stays with TLC

* Liveness: `Resolves`, `QuotesAgain`, `AnnouncedUnwinds`, `AllFed`.  The prover has no rule for fairness and `ENABLED`.
* `ReplaysAgree`: walks computed by folds over the candidates seen, compared with walks made step by step.
* `AttributionIsSound` (`Latency`), whose pairs are drawn across markets by the time of day, and what `Recon` with the modules it
  composes checks.  Much of it is what recursive definitions and folds compute on a log or a day's reports, which needs an induction over data the
  provers do not have.  (Where the recursion is a recursive function over an interval, as in `Trades`, in `EpisodesOf`, in `Read` and in `DepthCurve`, the induction can be made by hand: `Climb`.)

## 5. What is abstracted, and what is not modelled

* The gates on the books themselves (staleness, crossing, divergence, event proximity, tick rounding,
  the realized edge) and the per-slug cooldown of the bot may refuse any frame: `FrameSeen` is enabled for every
  frame.  No safety property depends on a refusal.
* The edge of a frame is chosen from a set in `Bookkeeping`; prices are whole cents of cost there, hundredths of a cent in the Python models.  The programs
  hold dollars as floating point.  The roundings they ask for (fees, sizes, shares of a cent) are modelled.  Of the roundings of the floats themselves, three decide something a property is about: an edge compared with a
  depth threshold (`Short`), the orientation guard of `game_edge` (`Misoriented`, at 0.81 and 0.41), and a room divided by a cost it is a multiple of (`OnTheEdge`).  All other comparisons are read exactly: that of a change of an edge with `Eps` (an edge that widens by
  `Eps` to the last digit may be logged or not), of an edge with the floors of the scripts, and of sums of money with the caps.
* The cancel request after an abort finds no order, because an entry is fill-or-kill.
* A task outlives the loop in the model; the process would end.  That only adds behaviours.
* The unreadable fill assumes that the order's id can be read; when it cannot, the answer is an
  ambiguous error, which is modelled too.
* Frames already on their way when an unsubscribe takes effect are not modelled, and no two pairs of the bot share
  a Kalshi ticker (`StreamsAssumption`).
* Two frames of one market never carry the same time stamp in `Episodes`; a flushed close is dated when the edge died, as the present code does it.
* In `Trades` a print may be served late by at most the overlap of the cursor (`Late`, `Slack`): what comes later than that is lost, by the design of the
  cursor.  A page cut off loses its oldest prints (`PageCap`), and a fee change lifted while the process was down is not noticed.
* A failed write writes nothing: half a line, and a line written whose error comes after, are not modelled.
* The Rust ports of the signal, the books, the fees and the matcher are not modelled beside the Python originals; the repository's parity tests compare the two
  bit by bit.
* Order pricing (`pricing.rs`), frame and catalogue parsing, request payloads and signing, the fetches, tables and prints of the scripts, the logs' file names, the
  manual tools, the venue probes and the deployment are not modelled: they are I/O, string handling, or keep no state.

## 6. Where code and comments disagree

Two have a run that ends in a counterexample.

1. **An unwind retried on a leg already sold** (`BookOversold`).  An unwind that sold at pmus and not at
   Kalshi keeps the position and clears the slot, so the next poll sells at pmus again.  `unwind.rs`
   38 says a retry cannot flatten twice; that is so at Kalshi, by its client order id, not at pmus.
2. **A failed send strands a ticker** (`CollectorForgets`).  `register` binds the new market first; if the send to pmus then fails on a dead socket
   (`monitor.py` 1098), the rest of the heartbeat is skipped and the Kalshi tickers are neither subscribed nor watched for, nor new to the next
   heartbeat.  `monitor.py` 1105-1107 says that such a failure heals itself.

The others are stated by a definition that no run checks, because it does not hold.  Each shows its counterexample when it is put into the configuration named.

| statement | configuration | what the code does |
|---|---|---|
| `NoSilentNaked` (`Bookkeeping`) | `BookOversold.cfg` with `Quirks = {"panic"}` | a submission that panics after its first order filled is two errors with no fill in them, and the fail-close sees nothing naked; `bookkeeping.rs` 384-389 lists a panic among what halts |
| `UnwindCoidFresh` (`Bookkeeping`) | `BookOversold.cfg` | an unwind's client order id names no position, so the second position of a slug is refused at Kalshi; `bookkeeping.rs` 784-785 says every leg on the slug must flatten in the end |
| `HeldStaysListed` (`Refresh`) | `StreamRefresh.cfg` with `MaxFaults = 0` | the prune spares held slugs, not those whose entry is in flight; `refresh.rs` 112-114 says a held pair must stay subscribed |
| `ReemitsUntilFlat` (`Postpone`) | `PostponeUnwinds.cfg` with `Statuses <- Slides` | a slide without a change of status is seen once, and the new snapshot is stored whatever became of the request; `bookkeeping.rs` 783-785 says the poll asks again in every cycle |
| `AddsGoTheSameWay` (`Persistence`) | `EpisodesTrue.cfg` with `Books <- KBooks` | `add_events` takes the direction of the market's first opening, not of the filled episode; `flip_add_backtest.py` 216-217 says same-direction |
| `EodIsLowerBound` (`Persistence`) | `EpisodesTrue.cfg` | an episode that was open when its market was torn down is taken as open until the last record of any market; `analyze_persistence.py` 211 calls the duration a lower bound.  For the same reason a fill at a latency may "survive" in a market that is gone, and `SurvivorWasThere` has to except these episodes |
| `AddsScaleIn` (`Capital`) | `Capital.cfg` | an add is made although the base entry was refused for want of money; `bankroll_add_backtest.py` says a position is never added to before it opens |
| `EquityIsMarkToEdge` (`Reports`) | `Capital.cfg` | the reported ending equity counts the realized profit twice (`account_sim.py` 137) |
| `KnapsackIsCeiling` (`Sweeps`) | `Capital.cfg` | the clairvoyant order can earn less than first come; `alloc_policy_experiment.py` 273 says it never does |
| `IdenticalPaysAlike` (`Recon`) | `Recon.cfg` with `Scenarios <- Texts` | texts whose stations, sources or fallbacks merely overlap are called IDENTICAL, as is a `greater_or_equal` strike; `settlement_identity.py` 559 says every dimension must provably match |
| `ClosedBeforeReopened` (`Episodes`) | `EpisodesTrue.cfg` | an edge that comes back after the window and before the flusher, which sleeps half a second, wakes is logged as a second opening, and `feed` has popped the close unlogged (`monitor.py` 261-270); `monitor.py` 242-243 says that the close is otherwise flushed once the window elapses.  A reader then joins the two episodes into one, and `adverse_selection.py` takes the beginning of the second where `build_episodes` takes that of the first |

Some lose or repeat what a log should have, because a value is remembered before it is written or read back in part; the properties of sections 3 and 4 except exactly these cases:

* `fee_tick` sets `last` (`monitor.py` 875) before it writes (878); if the write raises, the cycle ends (1196) and the change is never logged, where its docstring (866-868) says that it
  logs "when the scheduled-fee-change array becomes non-empty OR changes" (`feeLost`).
* `cli_stream` sets `last` (1219) before it writes (1220), and 1222 swallows the error: the report is not logged unless a later one differs or a restart reads the log again; the comment at
  1199 says "log each DISTINCT issuance" (`dropped`).  `hb_ladder_pass` does the same with a ladder (758-759).
* A seed that cannot be read leaves the poll without cursors, and up to a look back of prints is logged again; the comment at 1176 says so, "dedupable on id".  A single unreadable row, or one file
  (819-828), does it too.  `load_trades` of `p_hedge_measure.py` does not look at the ids (`unread`).
* `econ_reconcile` reports DIVERGE where the venues need not differ: for a decision whose pmus label has no entry in `_FEDLBL` or that Kalshi words otherwise (`settle_recon.py` 628-629), for a
  threshold whose twin is listed as settled without a result (638-639), and for an exact print that the ladder does not enclose (644-647).  `DisagreementIsReal` judges a decision when discovery joined it and its
  market has a result, a threshold when its twin has one, and a print when it is in sight of the ladder.

Where a room is an exact multiple of the cost, `cap_constrained_entries` and `risk.rs` do not divide alike: in floats 20.0 // 0.8 is 24 and the floor of 20.0 / 0.8 is 25, where the comment in
`backtest_current_strategy.py` (208) says "EXACTLY as risk.rs sizes" (`OnTheEdge`).

Seen while modelling, without a definition: when both legs of an entry were partly filled, two
recovery SELLs share one flatten slot and the outcome of the first clears it, where `live.rs` 82-83 says that
an unacknowledged flatten always is a key of `flattening`; a second recovery on a slug reuses the client order id of the first; a pair entered after its game
has slid is never seen to have slid; on a doubleheader the first game of the two teams is taken (`postpone.rs` 330); a SELL whose rest stays on the book can fill after
the bot has written the leg off (the quirk `rest`); a fill whose answer has no readable quantity counts
as no fill (`misread`); a reconnect that read the tracked set before a prune recreates the book of a
pruned ticker until the update, or the next reconnect, removes its subscription; `recon_sports` joins without the `used` set of discovery and with
exact team keys, so a doubleheader may be compared with its other game; a fat edge with less than half a contract in the book (`c2` rounds to 0, `book.rs` 254) is
halved to at least 1 (`risk.rs` 314) before line 317 looks whether the size is below 1, so the bot approves one contract, where `backtest_current_strategy.py` 416 says that
`capturable`'s demand for depth only repeats a step of `risk.rs`.  It is the case that kept `ReplaySizesAsTheBot` from being proved for candidates without depth.

## 7. What could come next

1. **More proofs**: the attribution of moves over the log that `Monitor_proofs` describes, the action properties of `Recon`, and `BaseIsVenueSplit` of `Sweeps`
   from the sizes of the caps.
2. **Order pricing**: tick rounding, the realized-edge floor and the second leg's markup (`pricing.rs`) as operators against a reference definition.
3. The cooldown clock and the `led_by` tag of `live.rs`, if a property can be found that depends on them.
