------------------------------- MODULE Refresh -------------------------------
(***************************************************************************)
(* The discovery refresh (refresh.rs) beside the streams and the loop: it  *)
(* adds pairs, prunes the vanished ones, frees their books and sends the   *)
(* streams what to subscribe, while entries fire, lock and are unwound.    *)
(* An entry is only its slug here; Bookkeeping has the rest of it.         *)
(***************************************************************************)
EXTENDS Streams

CONSTANTS
  Listed,        \* the slugs of the first discovery
  MaxCycles,     \* bound on the refresh cycles
  MaxEntries     \* bound on the entries fired

Threshold == 2   \* prune_step's threshold

ASSUME RefreshAssumption ==
  Listed \subseteq Slugs /\ MaxCycles \in Nat /\ MaxEntries \in Nat

VARIABLES
  absent,      \* how many refreshes in a row a slug was missing, up to Threshold
  stage,       \* what the refresh does next: pull, apply, free or send
  change,      \* the slugs this cycle adds and prunes
  cycles,
  pending,     \* pending_entries
  held,        \* the keys of positions
  entries

refreshVars == <<absent, stage, change, cycles>>
entryVars == <<pending, held, entries>>
allVars == <<vars, refreshVars, entryVars>>

\* Every variable has its type.
RefreshTypeOK ==
  /\ TypeOK
  /\ absent \in [Slugs -> 0..Threshold]
  /\ stage \in {"pull", "apply", "free", "send"}
  /\ change \in [add : SUBSET Slugs, del : SUBSET Slugs]
  /\ cycles \in Nat /\ entries \in Nat
  /\ pending \subseteq Slugs /\ held \subseteq Slugs

NoChange == [add |-> {}, del |-> {}]

Init ==
  /\ InitWith(Listed)
  /\ absent = [s \in Slugs |-> 0]
  /\ stage = "pull" /\ change = NoChange /\ cycles = 0
  /\ pending = {} /\ held = {} /\ entries = 0

(***************************************************************************)
(* One refresh cycle                                                       *)
(***************************************************************************)

\* prune_step's counts: a slug that is listed again starts over.
Misses(listed) ==
  [s \in Slugs |-> IF s \notin pairs THEN absent[s]
                   ELSE IF s \in listed THEN 0
                   ELSE IF absent[s] < Threshold THEN absent[s] + 1 ELSE Threshold]

\* The pairs missing for Threshold refreshes in a row, but never one that is held.
Pruned(misses, listed) ==
  {s \in pairs \ listed : misses[s] >= Threshold} \ held

\* A pull that worked.  A truncated catalogue adds, but neither counts nor prunes.
Pull(listed, truncated) ==
  /\ stage = "pull" /\ cycles < MaxCycles
  /\ cycles' = cycles + 1
  /\ absent' = IF truncated THEN absent ELSE Misses(listed)
  /\ change' = [add |-> listed \ pairs,
                del |-> IF truncated THEN {} ELSE Pruned(absent', listed)]
  /\ stage' = "apply"
  /\ UNCHANGED <<vars, entryVars>>

\* The pair map and the tracked sets change together, under their locks.
Apply ==
  /\ stage = "apply"
  /\ pairs' = (pairs \cup change.add) \ change.del
  /\ tracked' = [v \in Venues |-> (tracked[v] \cup KeysOf(v, change.add)) \ KeysOf(v, change.del)]
  /\ absent' = [s \in Slugs |-> IF s \in change.del THEN 0 ELSE absent[s]]
  /\ stage' = "free"
  /\ UNCHANGED <<change, cycles, linkVars, kBooks, updates, events, loopVars, faults, entryVars>>

\* The books of the pruned tickers are dropped.
Free ==
  /\ stage = "free"
  /\ kBooks' = [t \in Tickers |-> IF t \in KeysOf(Kalshi, change.del) THEN 0 ELSE kBooks[t]]
  /\ stage' = "send"
  /\ UNCHANGED <<absent, change, cycles, pairVars, linkVars, updates, events, loopVars, faults,
                 entryVars>>

\* What goes to a venue's stream: nothing when there is nothing to say.
Update(v) ==
  LET add == KeysOf(v, change.add)
      del == IF v = Kalshi THEN KeysOf(v, change.del) ELSE {} IN
  IF add \cup del = {} THEN <<>> ELSE <<[add |-> add, del |-> del]>>

Send ==
  /\ stage = "send"
  /\ updates' = [v \in Venues |-> updates[v] \o Update(v)]
  /\ stage' = "pull" /\ change' = NoChange
  /\ UNCHANGED <<absent, cycles, pairVars, linkVars, kBooks, events, loopVars, faults, entryVars>>

(***************************************************************************)
(* Entries                                                                 *)
(***************************************************************************)

\* The slug whose frame the loop has taken off the queue.
Touches(s) ==
  /\ events # <<>> /\ Head(events).type = "Frame"
  /\ IF Head(events).venue = Kalshi THEN Head(events).key \in TickersOf[s] ELSE Head(events).key = s

\* A frame is handled, and its quote may fire an entry.
Step ==
  /\ Handle
  /\ UNCHANGED refreshVars
  /\ \/ UNCHANGED entryVars
     \/ \E s \in Slugs \ (pending \cup held) :
          /\ Touches(s) /\ Quotable(s)'
          /\ entries < MaxEntries
          /\ pending' = pending \cup {s} /\ entries' = entries + 1
          /\ UNCHANGED held

\* The entry's outcome: the pair is held, or it is not.
Resolve(s) ==
  /\ s \in pending
  /\ pending' = pending \ {s}
  /\ held' \in {held, held \cup {s}}
  /\ UNCHANGED <<vars, refreshVars, entries>>

\* An unwind sells a held pair.  It is priced from the books, and waits for them.
Unwind(s) ==
  /\ s \in held
  /\ pmBooks[s] # 0 /\ \A t \in TickersOf[s] : kBooks[t] # 0
  /\ held' = held \ {s}
  /\ UNCHANGED <<vars, refreshVars, pending, entries>>

(***************************************************************************)
(* The specification                                                       *)
(***************************************************************************)

Next ==
  \/ StreamStep /\ UNCHANGED <<refreshVars, entryVars>>
  \/ Step
  \/ \E listed \in SUBSET Slugs, truncated \in BOOLEAN : Pull(listed, truncated)
  \/ Apply \/ Free \/ Send
  \/ \E s \in Slugs : Resolve(s) \/ Unwind(s)

Spec == Init /\ [][Next]_allVars

Alone(A) == A /\ UNCHANGED <<refreshVars, entryVars>>

(***************************************************************************)
(* The tasks keep running.  The venues accept a connection in the end, send *)
(* a snapshot of what was asked for, and keep sending frames: strongly     *)
(* fair on pmus, because the model's full queue only defers a frame.       *)
(***************************************************************************)
Fairness ==
  /\ \A v \in Venues : WF_allVars(Alone(Connect(v)))
  /\ WF_allVars(Alone(GapSeen \/ \E t \in Tickers : KalshiSnapshot(t)))
  /\ WF_allVars(Alone(KalshiUpdate \/ KalshiUpdateCycles)) /\ WF_allVars(Alone(PmusUpdate))
  /\ WF_allVars(link[Pmus] = "broken" /\ Alone(Drop(Pmus)))
  /\ \A s \in Slugs : SF_allVars(Alone(PmusFrame(s)))
  /\ WF_allVars(Step)
  /\ WF_allVars(Apply \/ Free \/ Send)

FairSpec == Spec /\ Fairness

(***************************************************************************)
(* Properties                                                              *)
(***************************************************************************)

\* A frame's quote is made only of books rebuilt since the last loss of a connection or of a frame
\* that the loop knows of, whatever still waits in its queue and whatever the refresh has freed
\* meanwhile (live.rs 573-585).
QuotesRebuilt ==
  [][\A s \in Slugs :
       Touches(s) /\ events' = Tail(events) /\ Quotable(s)' =>
         /\ pmBooks'[s] > told[Pmus]
         /\ \A t \in TickersOf[s] : kBooks[t] > told[Kalshi]]_allVars

\* When no refresh is under way and a stream has taken its updates, its connection carries exactly what
\* is tracked, on pmus at least that: no add or prune is lost to a reconnect (venue.rs 272-275).
WireFollowsTracked ==
  /\ stage = "pull" /\ updates[Kalshi] = <<>> /\ link[Kalshi] = "up" => wire[Kalshi] = tracked[Kalshi]
  /\ stage = "pull" /\ updates[Pmus] = <<>> /\ link[Pmus] = "up" => tracked[Pmus] \subseteq wire[Pmus]

\* What holds of the streams in every state: their types, and that no update is lost.
RefreshInv == RefreshTypeOK /\ WireFollowsTracked

\* Once the venues stop breaking connections, every pair the bot still lists becomes quotable and stays
\* so: no reconnect, gap or prune and relisting leaves it paused or without a book for good.
QuotesAgain == \A s \in Slugs : <>[](s \in pairs => Quotable(s))

\* "never prune a slug with any open held leg - it must stay subscribed/flattenable until closed"
\* (refresh.rs 112-118).
HeldStaysListed == held \subseteq pairs
=============================================================================
