---------------------------- MODULE Bookkeeping ----------------------------
(***************************************************************************)
(* The live loop's money: an entry is reserved and spawned, its two legs   *)
(* are posted one after the other by a task of its own, and the outcome is *)
(* applied on the loop's turn (live.rs, bookkeeping.rs, exec.rs).  The     *)
(* loop runs many such tasks at once, together with the two flattens: the  *)
(* postponement unwind of a held pair and the recovery of a naked leg.     *)
(*                                                                         *)
(* Next to the loop's own variables the model keeps what is true at the    *)
(* venues, so that the two can be compared.                                *)
(***************************************************************************)
EXTENDS RiskGate, Orders, Sequences, FiniteSetsExt

CONSTANTS
  Slugs, Clusters,
  Cluster,              \* the correlated-exposure cluster of each slug
  Edges,                \* the edges a frame can show
  Depths,               \* the depths a frame can show, whole contracts
  AddTauGain,           \* add_tau_gain, cents
  MaxPositionsPerSlug,  \* max_positions_per_slug
  EnableScaleIn, EnableReentry,
  MaxEntries,           \* CROSSARB_MAX_ENTRIES
  MaxUnwinds,           \* bound on the unwinds spawned
  Quirks                \* which of the awkward behaviours below can happen

(***************************************************************************)
(* panic    a submit task panics and is caught                             *)
(* rest     the unfilled rest of a SELL stays on the book and fills later  *)
(* misread  an order fills but its 2xx body carries no readable fill       *)
(* lostSell a SELL fills but its answer is lost                            *)
(* death    a supervised task ends and the loop exits                      *)
(***************************************************************************)
AllQuirks == {"panic", "rest", "misread", "lostSell", "death"}

Edge == [net : Int, dir : Dirs]

ASSUME BookkeepingAssumption ==
  /\ IsFiniteSet(Slugs) /\ Cluster \in [Slugs -> Clusters]
  /\ Edges \subseteq Edge
  /\ Depths \subseteq Nat
  /\ AddTauGain \in Nat /\ MaxPositionsPerSlug \in Nat
  /\ EnableScaleIn \in BOOLEAN /\ EnableReentry \in BOOLEAN
  /\ MaxEntries \in Nat /\ MaxUnwinds \in Nat
  /\ Quirks \subseteq AllQuirks

VARIABLES
  positions,     \* the held legs of each slug, oldest first
  perPair, perCluster, total, openPositions,      \* Exposure
  pending,       \* pending_entries
  flattening,    \* what holds a slug's flatten slot
  nextIdx,       \* next_pos_index
  edgeLive,      \* edge_live
  entriesFired,
  halt,
  running,       \* the loop has not exited
  tasks,         \* the spawned submissions whose outcome has not been applied
  real,          \* lots really held at each venue
  resting,       \* lots of SELL orders resting at each venue
  coids,         \* the client order ids Kalshi has seen
  alarmed,       \* the slugs a CRITICAL line told the owner to reconcile
  unwindsFired

exposure == <<perPair, perCluster, total, openPositions>>
loopVars == <<pending, flattening, nextIdx, edgeLive, entriesFired>>
venueVars == <<real, resting, coids>>
vars == <<positions, exposure, loopVars, halt, running, tasks, venueVars,
          alarmed, unwindsFired>>

(***************************************************************************)
(* Data                                                                    *)
(***************************************************************************)

\* A held leg: the position with its cost_per, entry_net and entry_dir.
Leg == [idx : Nat, size : Nat, cost : Nat, net : Int, dir : Dirs]

Kinds == {"Entry", "Unwind", "Recovery"}
Slots == {"none", "Unwind", "Recovery"}

(***************************************************************************)
(* A spawned submission.  lots is what each order asks for, first is the   *)
(* venue posted first (the only one, for a Recovery).  id tells apart the  *)
(* submissions of one kind.                                                *)
(***************************************************************************)
Task == [kind : Kinds, slug : Slugs, id : Nat, leg : Leg, lots : Nat,
         first : Venues, phase : {"first", "second", "done"},
         ack : [Venues -> Ack]]

Coid == [kind : Kinds, slug : Slugs, idx : Nat, slot : {0, 1}]

NewTask(kind, s, id, leg, lots, first) ==
  [kind |-> kind, slug |-> s, id |-> id, leg |-> leg, lots |-> lots,
   first |-> first, phase |-> "first", ack |-> [v \in Venues |-> Answer("wait")]]

\* Only an entry's client order id names the position; a flatten's names the slug and the leg.
CoidOf(t) == [kind |-> t.kind, slug |-> t.slug,
              idx |-> IF t.kind = "Entry" THEN t.leg.idx ELSE 0,
              slot |-> KalshiSlot(t.leg.dir)]

Notional(leg) == leg.cost * leg.size

ExposureTyped ==
  /\ perPair \in [Slugs -> Nat] /\ perCluster \in [Clusters -> Nat]
  /\ total \in Nat /\ openPositions \in Nat

LoopTyped ==
  /\ positions \in [Slugs -> Seq(Leg)]
  /\ pending \subseteq Slugs
  /\ flattening \in [Slugs -> Slots]
  /\ nextIdx \in [Slugs -> Nat]
  /\ edgeLive \subseteq Slugs
  /\ entriesFired \in Nat /\ unwindsFired \in Nat
  /\ halt \in BOOLEAN /\ running \in BOOLEAN
  /\ alarmed \subseteq Slugs

VenuesTyped ==
  /\ real \in [Slugs -> [Venues -> Int]]
  /\ resting \in [Slugs -> [Venues -> Nat]]
  /\ coids \subseteq Coid

\* Every variable has its type.
TypeOK == ExposureTyped /\ LoopTyped /\ tasks \subseteq Task /\ VenuesTyped

Init ==
  /\ positions = [s \in Slugs |-> <<>>]
  /\ perPair = [s \in Slugs |-> 0] /\ perCluster = [c \in Clusters |-> 0]
  /\ total = 0 /\ openPositions = 0
  /\ pending = {}
  /\ flattening = [s \in Slugs |-> "none"]
  /\ nextIdx = [s \in Slugs |-> 0]
  /\ edgeLive = {}
  /\ entriesFired = 0 /\ unwindsFired = 0
  /\ halt = FALSE /\ running = TRUE
  /\ tasks = {}
  /\ real = [s \in Slugs |-> [v \in Venues |-> 0]]
  /\ resting = [s \in Slugs |-> [v \in Venues |-> 0]]
  /\ coids = {}
  /\ alarmed = {}

(***************************************************************************)
(* Exposure                                                                *)
(***************************************************************************)

Saturating(a, b) == IF a >= b THEN a - b ELSE 0

Reserve(s, leg) ==
  /\ perPair' = [perPair EXCEPT ![s] = @ + Notional(leg)]
  /\ perCluster' = [perCluster EXCEPT ![Cluster[s]] = @ + Notional(leg)]
  /\ total' = total + Notional(leg)
  /\ openPositions' = openPositions + 1

\* Mutant of Subtract: the position count is not given back.
BugSubtractCount(s, leg) ==
  /\ perPair' = [perPair EXCEPT ![s] = Saturating(@, Notional(leg))]
  /\ perCluster' = [perCluster EXCEPT ![Cluster[s]] = Saturating(@, Notional(leg))]
  /\ total' = Saturating(total, Notional(leg))
  /\ UNCHANGED openPositions

Subtract(s, leg) ==
  /\ perPair' = [perPair EXCEPT ![s] = Saturating(@, Notional(leg))]
  /\ perCluster' = [perCluster EXCEPT ![Cluster[s]] = Saturating(@, Notional(leg))]
  /\ total' = Saturating(total, Notional(leg))
  /\ openPositions' = Saturating(openPositions, 1)

(***************************************************************************)
(* A frame of the book stream                                              *)
(***************************************************************************)

SameDir(held, e) == \A i \in DOMAIN held : held[i].dir = e.dir

\* edge_live after a frame: read before it is written, so an add sees the frame before.
ObserveEdge(s, e) ==
  edgeLive' = IF positions[s] # <<>> /\ e.net > 0 /\ SameDir(positions[s], e)
              THEN edgeLive \cup {s} ELSE edgeLive \ {s}

\* Mutant of QualifyingAdd: an add need only beat the latest leg's net, not by the gain.
BugQualifyingAdd(held, e, wasLive) ==
  /\ SameDir(held, e)
  /\ e.net >= held[Len(held)].net
  /\ Len(held) < MaxPositionsPerSlug
  /\ IF wasLive THEN EnableScaleIn ELSE EnableReentry

QualifyingAdd(held, e, wasLive) ==
  /\ SameDir(held, e)
  /\ \A i \in DOMAIN held : e.net >= held[i].net + AddTauGain
  /\ Len(held) < MaxPositionsPerSlug
  /\ IF wasLive THEN EnableScaleIn ELSE EnableReentry

\* Mutant of Idle: a flatten in flight does not stop an entry.
BugIdleFlattening(s) == s \notin pending

\* Nothing of the slug is in flight, as far as the loop's markers say.
Idle(s) == s \notin pending /\ flattening[s] = "none"

SizeFor(s, e, depth) ==
  ApprovedSize(e.net, depth, perPair[s], perCluster[Cluster[s]], total, openPositions)

(***************************************************************************)
(* A frame that fires nothing: some gate said no.  The gates on the books  *)
(* themselves (freshness, staleness, crossing, price rounding) and the     *)
(* cooldown clock can say no to any frame.                                 *)
(***************************************************************************)
FrameSeen(s, e) ==
  /\ running
  /\ ObserveEdge(s, e)
  /\ UNCHANGED <<positions, exposure, pending, flattening, nextIdx, entriesFired,
                 halt, running, tasks, venueVars, alarmed, unwindsFired>>

\* A frame whose edge passes every gate reserves its exposure and spawns its submission.
FireEntry(s, e, depth, first) ==
  LET size == SizeFor(s, e, depth)
      leg  == [idx |-> nextIdx[s], size |-> size, cost |-> CostPer(e.net),
               net |-> e.net, dir |-> e.dir]
  IN
  /\ running
  /\ ~ halt
  /\ Idle(s)
  /\ positions[s] # <<>> => QualifyingAdd(positions[s], e, s \in edgeLive)
  /\ size > 0
  /\ entriesFired < MaxEntries
  /\ ObserveEdge(s, e)
  /\ Reserve(s, leg)
  /\ pending' = pending \cup {s}
  /\ tasks' = tasks \cup {NewTask("Entry", s, entriesFired, leg, Lot * size, first)}
  /\ entriesFired' = entriesFired + 1
  /\ UNCHANGED <<positions, flattening, nextIdx, halt, running, venueVars, alarmed,
                 unwindsFired>>

(***************************************************************************)
(* The submission tasks (run_pair, run_one, post_leg)                      *)
(***************************************************************************)

\* The part of an order a venue may fill: a whole contract at Kalshi, any fraction at pmus.
Partials(v, lots) == {p \in {IF v = Kalshi THEN Lot ELSE 1} : p < lots}

Replies(acks, moves, rests) == [ack : acks, moved : moves, rests : rests]

\* What may stay on the book of an order's unfilled rest: a SELL is good-till-cancelled.
Rests(t, n) == IF t.kind # "Entry" /\ "rest" \in Quirks THEN {0, n} ELSE {0}

\* What an order whose answer is lost may have moved.
Unheard(t) == IF t.kind # "Entry" /\ "lostSell" \notin Quirks THEN {0} ELSE {0, t.lots}

\* The lots an order may move unread: a fill whose 2xx body carries no readable quantity.
Unread(t) == IF "misread" \in Quirks THEN {0, t.lots} ELSE {0}

(***************************************************************************)
(* What a venue may do with an order: the lots it moves, the lots it       *)
(* leaves resting, and the answer the bot reads.  Entries are fill-or-kill *)
(* and never rest.  Kalshi refuses a client order id it has seen.          *)
(***************************************************************************)
Answers(t, v) ==
  IF v = Kalshi /\ CoidOf(t) \in coids
  THEN Replies({Answer("vague")}, {0}, {0})
  ELSE Replies({Fill(t.lots)}, {t.lots}, {0})
       \cup (UNION {Replies({Fill(p)}, {p}, Rests(t, t.lots - p)) : p \in Partials(v, t.lots)})
       \cup {r \in Replies({Answer("ok")}, Unread(t), Rests(t, t.lots)) : r.moved = 0 \/ r.rests = 0}
       \cup Replies({Answer("rejected")}, {0}, {0})
       \cup Replies({Answer("vague"), Answer("limited")}, Unheard(t), {0})

Moved(t, lots) == IF t.kind = "Entry" THEN lots ELSE -lots

\* An order reached Kalshi's books of client order ids.
Landed(a) == a.ack.res \in {"ok", "rejected"} \/ a.moved > 0

PostedAt(t) == IF t.phase = "first" THEN t.first ELSE Other(t.first)

\* The task t in another phase, with other answers.
Advanced(t, phase, ack) ==
  [kind |-> t.kind, slug |-> t.slug, id |-> t.id, leg |-> t.leg, lots |-> t.lots,
   first |-> t.first, phase |-> phase, ack |-> ack]

\* The task after its order at v was answered: the second leg goes out only if the first filled.
AfterPost(t, v, ack) ==
  LET last == t.kind = "Recovery" \/ t.phase = "second" IN
  IF last \/ Filled(ack, t.lots)
  THEN Advanced(t, IF last THEN "done" ELSE "second", [t.ack EXCEPT ![v] = ack])
  ELSE Advanced(t, "done", [w \in Venues |-> IF w = v THEN ack ELSE Answer("unsent")])

Post(t) ==
  LET v == PostedAt(t) IN
  /\ t.phase # "done"
  /\ \E a \in Answers(t, v) :
       /\ tasks' = (tasks \ {t}) \cup {AfterPost(t, v, a.ack)}
       /\ real' = [real EXCEPT ![t.slug][v] = @ + Moved(t, a.moved)]
       /\ resting' = [resting EXCEPT ![t.slug][v] = @ + a.rests]
       /\ coids' = IF v = Kalshi /\ Landed(a) THEN coids \cup {CoidOf(t)} ELSE coids
  /\ UNCHANGED <<positions, exposure, loopVars, halt, running, alarmed, unwindsFired>>

\* Mutant of Panic: nothing catches it, and no outcome is ever sent.
BugPanic(t) ==
  /\ "panic" \in Quirks
  /\ t.phase # "done"
  /\ tasks' = tasks \ {t}
  /\ UNCHANGED <<positions, exposure, loopVars, halt, running, venueVars, alarmed,
                 unwindsFired>>

\* catch_unwind turns a panicking task into a pair that failed on both legs.
Panic(t) ==
  /\ "panic" \in Quirks
  /\ t.phase # "done"
  /\ tasks' = (tasks \ {t}) \cup
       {Advanced(t, "done", [v \in Venues |-> Answer("panic")])}
  /\ UNCHANGED <<positions, exposure, loopVars, halt, running, venueVars, alarmed,
                 unwindsFired>>

\* A resting SELL is hit.
LateFill(s, v) ==
  /\ resting[s][v] > 0
  /\ real' = [real EXCEPT ![s][v] = @ - resting[s][v]]
  /\ resting' = [resting EXCEPT ![s][v] = 0]
  /\ UNCHANGED <<positions, exposure, loopVars, halt, running, tasks, coids, alarmed,
                 unwindsFired>>

(***************************************************************************)
(* apply_outcome                                                           *)
(***************************************************************************)

\* A CRITICAL line and the kill-switch: no entry fires from here on.
Halt(s) == halt' = TRUE /\ alarmed' = alarmed \cup {s}

NoHalt == UNCHANGED <<halt, alarmed>>

\* Mutant of FailClose: only a full fill counts as a naked leg.
BugFailClose(t) ==
  IF \E v \in Venues : Filled(t.ack[v], t.lots) /\ ~ Filled(t.ack[Other(v)], t.lots)
  THEN Halt(t.slug) ELSE NoHalt

\* naked_leg_failclose
FailClose(t) == IF HalfFilled(t.ack, t.lots) THEN Halt(t.slug) ELSE NoHalt

Outcome(kind) == {t \in tasks : t.kind = kind /\ t.phase = "done"}

\* Both legs filled: the reservation is kept and the leg is held.
ApplyLock(t) ==
  /\ running
  /\ t \in Outcome("Entry")
  /\ BothFilled(t.ack, t.lots)
  /\ pending' = pending \ {t.slug}
  /\ positions' = [positions EXCEPT ![t.slug] = Append(@, t.leg)]
  /\ nextIdx' = [nextIdx EXCEPT ![t.slug] = @ + 1]
  /\ tasks' = tasks \ {t}
  /\ UNCHANGED <<exposure, flattening, edgeLive, entriesFired, halt, running, venueVars,
                 alarmed, unwindsFired>>

\* What every entry that did not lock does: release the reservation, free the slug, burn the coid.
EntryMissed(t) ==
  /\ running
  /\ t \in Outcome("Entry")
  /\ ~ BothFilled(t.ack, t.lots)
  /\ pending' = pending \ {t.slug}
  /\ Subtract(t.slug, t.leg)
  /\ nextIdx' = IF LandedOrder(t.ack) THEN [nextIdx EXCEPT ![t.slug] = @ + 1] ELSE nextIdx
  /\ UNCHANGED <<positions, edgeLive, entriesFired, running, venueVars, unwindsFired>>

\* The first leg did not fill: nothing is held.  The cancel it sends finds no resting order.
ApplyCleanAbort(t) ==
  /\ EntryMissed(t)
  /\ EntryMiss(t.ack) = "CleanAbort"
  /\ tasks' = tasks \ {t}
  /\ NoHalt
  /\ UNCHANGED flattening

\* The first leg erred: a clean abort when the rejection is definite, else its fate is unknown.
ApplyAmbiguousAbort(t) ==
  /\ EntryMissed(t)
  /\ EntryMiss(t.ack) = "AmbiguousAbort"
  /\ tasks' = tasks \ {t}
  /\ IF \E v \in Venues : DefiniteNotFilled(t.ack[v]) THEN NoHalt ELSE Halt(t.slug)
  /\ UNCHANGED flattening

\* recover_naked_leg gets past its checks, books permitting.
Recoverable(t) ==
  /\ NakedVenues(t.ack) # {}
  /\ UnfilledLegsKnown(t.ack)
  /\ flattening[t.slug] # "Unwind"

\* Mutant of RecoverySells: the SELL is sized to the order, not to its fill.
BugRecoverySells(t) ==
  {NewTask("Recovery", t.slug, t.id, t.leg, t.lots, v) : v \in NakedVenues(t.ack)}

\* One SELL per naked leg, for exactly the lots it filled.
RecoverySells(t) ==
  {NewTask("Recovery", t.slug, t.id, t.leg, t.ack[v].qty, v) : v \in NakedVenues(t.ack)}

\* Every naked leg is priced and sold under one Recovery slot; one already held covers them.
ApplyRecover(t) ==
  /\ EntryMissed(t)
  /\ EntryMiss(t.ack) = "NakedOrOther"
  /\ Recoverable(t)
  /\ tasks' = (tasks \ {t}) \cup
       (IF flattening[t.slug] = "Recovery" THEN {} ELSE RecoverySells(t))
  /\ flattening' = [flattening EXCEPT ![t.slug] = "Recovery"]
  /\ NoHalt

\* The recovery could not be launched, a one-sided book being one more reason.
ApplyNakedHalt(t) ==
  /\ EntryMissed(t)
  /\ EntryMiss(t.ack) = "NakedOrOther"
  /\ ~ (Recoverable(t) /\ flattening[t.slug] = "Recovery")
  /\ tasks' = tasks \ {t}
  /\ FailClose(t)
  /\ UNCHANGED flattening

\* A postponement unwind sells the front leg, pmus first, with or without the kill-switch.
SpawnUnwind(s) ==
  /\ running
  /\ flattening[s] = "none"
  /\ positions[s] # <<>>
  /\ unwindsFired < MaxUnwinds
  /\ flattening' = [flattening EXCEPT ![s] = "Unwind"]
  /\ LET leg == Head(positions[s]) IN
     tasks' = tasks \cup {NewTask("Unwind", s, unwindsFired, leg, Lot * leg.size, Pmus)}
  /\ unwindsFired' = unwindsFired + 1
  /\ UNCHANGED <<positions, exposure, pending, nextIdx, edgeLive, entriesFired, halt,
                 running, venueVars, alarmed>>

\* Both legs sold: the front leg is popped and its own reservation released.
ApplyUnwound(t) ==
  /\ running
  /\ t \in Outcome("Unwind")
  /\ BothFilled(t.ack, t.lots)
  /\ flattening' = [flattening EXCEPT ![t.slug] = "none"]
  /\ IF positions[t.slug] # <<>>
     THEN /\ positions' = [positions EXCEPT ![t.slug] = Tail(@)]
          /\ Subtract(t.slug, Head(positions[t.slug]))
     ELSE UNCHANGED <<positions, exposure>>
  /\ tasks' = tasks \ {t}
  /\ UNCHANGED <<pending, nextIdx, edgeLive, entriesFired, halt, running, venueVars,
                 alarmed, unwindsFired>>

\* Not both sold: halt on a half-fill, else the next poll retries.
ApplyUnwindFailed(t) ==
  /\ running
  /\ t \in Outcome("Unwind")
  /\ ~ BothFilled(t.ack, t.lots)
  /\ flattening' = [flattening EXCEPT ![t.slug] = "none"]
  /\ tasks' = tasks \ {t}
  /\ FailClose(t)
  /\ UNCHANGED <<positions, exposure, pending, nextIdx, edgeLive, entriesFired, running,
                 venueVars, unwindsFired>>

\* A recovery SELL that did not fill leaves the leg naked.
ApplyRecovery(t) ==
  /\ running
  /\ t \in Outcome("Recovery")
  /\ flattening' = [flattening EXCEPT ![t.slug] = "none"]
  /\ tasks' = tasks \ {t}
  /\ IF Filled(t.ack[t.first], t.lots) THEN NoHalt ELSE Halt(t.slug)
  /\ UNCHANGED <<positions, exposure, pending, nextIdx, edgeLive, entriesFired, running,
                 venueVars, unwindsFired>>

\* A collector, the refresh or the poll ended: halt and leave the loop.
SuperviseFatal ==
  /\ "death" \in Quirks
  /\ running
  /\ running' = FALSE /\ halt' = TRUE
  /\ UNCHANGED <<positions, exposure, loopVars, tasks, venueVars, alarmed, unwindsFired>>

(***************************************************************************)
(* The specification                                                       *)
(***************************************************************************)

ApplyEntry(t) ==
  \/ ApplyLock(t) \/ ApplyCleanAbort(t) \/ ApplyAmbiguousAbort(t)
  \/ ApplyRecover(t) \/ ApplyNakedHalt(t)

ApplyFlatten(t) == ApplyUnwound(t) \/ ApplyUnwindFailed(t) \/ ApplyRecovery(t)

ApplyOutcome(t) == ApplyEntry(t) \/ ApplyFlatten(t)

Next ==
  \/ \E s \in Slugs, e \in Edges : FrameSeen(s, e)
  \/ \E s \in Slugs, e \in Edges, depth \in Depths, first \in Venues :
       FireEntry(s, e, depth, first)
  \/ \E t \in tasks : Post(t) \/ Panic(t) \/ ApplyOutcome(t)
  \/ \E s \in Slugs, v \in Venues : LateFill(s, v)
  \/ \E s \in Slugs : SpawnUnwind(s)
  \/ SuperviseFatal

Spec == Init /\ [][Next]_vars

\* The loop keeps serving its outcome channel, and the venues answer what was posted to them.
Progress(s, kind) ==
  \E t \in tasks : t.slug = s /\ t.kind = kind /\ (Post(t) \/ ApplyOutcome(t))

Fairness == \A s \in Slugs, kind \in Kinds : WF_vars(Progress(s, kind))

FairSpec == Spec /\ Fairness

(***************************************************************************)
(* Safety                                                                  *)
(***************************************************************************)

TasksOf(s, kind) == {t \in tasks : t.slug = s /\ t.kind = kind}

HeldNotional(held) == SumFunction([i \in DOMAIN held |-> Notional(held[i])])

InFlightNotional(entries) == SumFunction([t \in entries |-> Notional(t.leg)])

CommittedOf(s) == HeldNotional(positions[s]) + InFlightNotional(TasksOf(s, "Entry"))

Committed(S) == SumFunction([s \in S |-> CommittedOf(s)])

CountOf(s) == Len(positions[s]) + Cardinality(TasksOf(s, "Entry"))

CommittedCount == SumFunction([s \in Slugs |-> CountOf(s)])

SlugsOf(c) == {s \in Slugs : Cluster[s] = c}

\* The four exposure buckets are, at every moment, exactly what the held legs and the entries in
\* flight add up to: reserve_exposure and subtract_exposure never drift (bookkeeping.rs 20-37).
ExposureAccounted ==
  /\ \A s \in Slugs : perPair[s] = Committed({s})
  /\ \A c \in Clusters : perCluster[c] = Committed(SlugsOf(c))
  /\ total = Committed(Slugs)
  /\ openPositions = CommittedCount

\* However many entries are in flight at once, no exposure bucket ever passes its cap: reserving at
\* spawn keeps two entries from sizing against the same room (bookkeeping.rs 9-11).
CapsHold ==
  /\ \A s \in Slugs : perPair[s] <= MaxPerPair
  /\ \A c \in Clusters : perCluster[c] <= MaxPerCluster
  /\ total <= MaxTotal
  /\ openPositions <= MaxConcurrent

\* A slug is in pending_entries exactly while one entry for it is in flight, and never two
\* (live.rs 82-86): no outcome is lost, and none frees a slug that another entry still holds.
InFlightMarked ==
  \A s \in Slugs :
    /\ s \in pending <=> TasksOf(s, "Entry") # {}
    /\ \A t, u \in TasksOf(s, "Entry") : t = u

\* An entry never posts to Kalshi under a client order id Kalshi has seen, for that answers with a
\* dedup 409 and halts the bot (bookkeeping.rs 347-357, live.rs 89-92).
EntryCoidFresh ==
  \A t \in tasks :
    t.kind = "Entry" /\ t.phase # "done" /\ t.ack[Kalshi].res = "wait" => CoidOf(t) \notin coids

\* An entry in flight and a recovery never hold a slug together, so a fresh naked leg is never
\* written off as covered by an older recovery (bookkeeping.rs 596-598).
RecoverySlotExclusive == \A s \in pending : flattening[s] # "Recovery"

\* The legs stacked on a slug point the same way, each beats all before it by the gain, and their
\* number stays within the cap, whatever was in flight when an add was gated (bookkeeping.rs 93-116).
StackOrdered ==
  \A s \in Slugs :
    LET held == positions[s] IN
    /\ Len(held) <= MaxPositionsPerSlug \/ Len(held) <= 1
    /\ \A i, j \in DOMAIN held : i < j => /\ held[i].dir = held[j].dir
                                          /\ held[j].net >= held[i].net + AddTauGain

Settled(s) ==
  /\ \A t \in tasks : t.slug # s
  /\ \A v \in Venues : resting[s][v] = 0

HeldLots(held) == SumFunction([i \in DOMAIN held |-> Lot * held[i].size])

\* Once nothing is in flight on a slug the owner was not called to, the venues hold exactly the legs
\* the bot has on its books: no leg is left naked, lost or sold twice in silence.
BooksMatchVenues ==
  \A s \in Slugs \ alarmed : Settled(s) => \A v \in Venues : real[s][v] = HeldLots(positions[s])

(***************************************************************************)
(* Liveness                                                                *)
(***************************************************************************)

\* Every entry resolves: the slug becomes tradeable again (bookkeeping.rs 705-707).
EntryResolves == \A s \in Slugs : s \in pending ~> (s \notin pending \/ ~ running)

\* A slug holding more at one venue than at the other is either balanced again or reported to the
\* owner, as long as the loop runs (bookkeeping.rs 519-535).
NakedResolves ==
  \A s \in Slugs :
    real[s][Kalshi] # real[s][Pmus] ~>
      (real[s][Kalshi] = real[s][Pmus] \/ s \in alarmed \/ ~ running)

\* A flatten slot is always given back, so that the slug can be flattened or entered again.
FlattenResolves == \A s \in Slugs : flattening[s] # "none" ~> (flattening[s] = "none" \/ ~ running)

\* Nothing is left hanging: entries, naked legs and flatten slots.
Resolves == EntryResolves /\ NakedResolves /\ FlattenResolves

(***************************************************************************)
(* What comments of the source say, and the code does not do               *)
(***************************************************************************)

\* "Idempotent `unwind-...-{0,1}` client_order_ids tag the close so a retry can't double-flatten"
\* (unwind.rs 38): no slug is ever sold below what the bot holds.
NeverOversold == \A s \in Slugs, v \in Venues : real[s][v] >= 0

\* With nothing of a slug left in flight or resting and no CRITICAL line about it, the slug does not
\* hold one leg without the other: a panicked submit is an ambiguous error, and those "all HALT"
\* (bookkeeping.rs 384-389).
NoSilentNaked ==
  \A s \in Slugs \ alarmed : Settled(s) => real[s][Kalshi] = real[s][Pmus]

\* "EVERY leg on the slug must eventually flatten" (bookkeeping.rs 784-785): the unwind of a leg never
\* sends Kalshi the client order id that closed another leg.
UnwindCoidFresh ==
  \A t \in tasks :
    t.kind = "Unwind" /\ t.phase = "second" /\ t.slug \notin alarmed => CoidOf(t) \notin coids
=============================================================================
