------------------------------- MODULE Streams -------------------------------
(***************************************************************************)
(* The two venue streams (venue.rs) and the half of the live loop that     *)
(* reads them (live.rs): connections that drop and rebuild their books,    *)
(* one event queue, and the freshness gate in front of every quote.        *)
(*                                                                         *)
(* A book is known by the connection it was built on: 0 is no book at all. *)
(* What it says is not modelled, only whether it is of this connection or  *)
(* of one that has ended.                                                  *)
(***************************************************************************)
EXTENDS Types, Naturals, Sequences, SequencesExt

CONSTANTS
  Slugs, Tickers,
  TickersOf,     \* the Kalshi tickers of each slug: two for a moneyline game, else one
  EarlyLoss,     \* Kalshi may lose a frame before the first sequenced one, which shows no gap
  MaxFaults,     \* bound on the frames, sends and connections the venues lose
  MaxEvents      \* bound on the queue's length past which no delta and no pmus frame is sent

ASSUME StreamsAssumption ==
  /\ TickersOf \in [Slugs -> (SUBSET Tickers) \ {{}}]
  /\ \A s, u \in Slugs : s # u => TickersOf[s] \cap TickersOf[u] = {}
  /\ EarlyLoss \in BOOLEAN
  /\ MaxFaults \in Nat /\ MaxEvents \in Nat \ {0}

VARIABLES
  pairs,        \* PairState.by_slug
  tracked,      \* k_tracked and pm_tracked
  link,         \* a venue's connection: down, up, or broken by a failed send
  conn,         \* how many connections each venue's stream has opened
  wire,         \* what is subscribed on the connection
  sid,          \* the Kalshi subscription id is known
  owed,         \* the subscribed tickers Kalshi has not sent a snapshot of
  seq,          \* SeqTracker: no number expected yet, the next one expected, or a number missed
  kBooks,       \* the Kalshi books, shared: the connection each was built on
  updates,      \* the SubUpdate channels
  events,       \* the VenueEvent channel
  rebuild,      \* k_rebuild and pm_rebuild: a venue has sent nothing since it dropped
  fresh,        \* k_fresh and pm_fresh
  pmBooks,      \* the loop's own pmus books
  told,         \* the last connection of each venue the loop knows to have ended
  faults

linkVars == <<link, conn, wire, sid, owed, seq>>
loopVars == <<rebuild, fresh, pmBooks, told>>
pairVars == <<pairs, tracked>>
vars == <<pairVars, linkVars, kBooks, updates, events, loopVars, faults>>

(***************************************************************************)
(* Data                                                                    *)
(***************************************************************************)

\* What a venue's connection carries: Kalshi tickers, pmus slugs.
Keys(v) == IF v = Kalshi THEN Tickers ELSE Slugs

TickersOfAll(S) == UNION {TickersOf[s] : s \in S}

\* A set of slugs in the keys of a venue.
KeysOf(v, S) == IF v = Kalshi THEN TickersOfAll(S) ELSE S

Frame(v, key, n)   == [type |-> "Frame", venue |-> v, key |-> key, conn |-> n]
Reconnect(v, n)    == [type |-> "Reconnect", venue |-> v, conn |-> n]
SeqGap(n)          == [type |-> "SeqGap", venue |-> Kalshi, conn |-> n]

Event ==
  [type : {"Frame"}, venue : Venues, key : Tickers \cup Slugs, conn : Nat]
  \cup [type : {"Reconnect", "SeqGap"}, venue : Venues, conn : Nat]

SubUpdate(v) == [add : SUBSET Keys(v), del : SUBSET Keys(v)]

\* Every variable has its type.
TypeOK ==
  /\ pairs \subseteq Slugs
  /\ \A v \in Venues :
       /\ tracked[v] \subseteq Keys(v) /\ wire[v] \subseteq Keys(v) /\ fresh[v] \subseteq Keys(v)
       /\ link[v] \in {"down", "up", "broken"}
       /\ conn[v] \in Nat /\ told[v] \in Nat /\ rebuild[v] \in BOOLEAN
       /\ updates[v] \in Seq(SubUpdate(v))
  /\ sid \in BOOLEAN /\ seq \in {"none", "next", "gap"} /\ owed \subseteq Tickers
  /\ kBooks \in [Tickers -> Nat] /\ pmBooks \in [Slugs -> Nat]
  /\ events \in Seq(Event)
  /\ faults \in Nat

InitWith(S) ==
  /\ pairs = S
  /\ tracked = [v \in Venues |-> KeysOf(v, S)]
  /\ link = [v \in Venues |-> "down"] /\ conn = [v \in Venues |-> 0]
  /\ wire = [v \in Venues |-> {}]
  /\ sid = FALSE /\ seq = "none" /\ owed = {}
  /\ kBooks = [t \in Tickers |-> 0] /\ pmBooks = [s \in Slugs |-> 0]
  /\ updates = [v \in Venues |-> <<>>] /\ events = <<>>
  /\ rebuild = [v \in Venues |-> FALSE] /\ fresh = [v \in Venues |-> {}]
  /\ told = [v \in Venues |-> 0]
  /\ faults = 0

(***************************************************************************)
(* The stream tasks                                                        *)
(***************************************************************************)

\* The end of a connection, or of an attempt at one, as the loop hears of it.
Ends(v) ==
  /\ link' = [link EXCEPT ![v] = "down"]
  /\ events' = Append(events, Reconnect(v, conn[v]))

Fault == faults < MaxFaults /\ faults' = faults + 1

\* Mutant of Subscribes: a reconnect asks again for what the last connection carried.
BugSubscribes(v) ==
  LET keys == IF conn[v] = 0 THEN tracked[v] ELSE wire[v] IN
  /\ wire' = [wire EXCEPT ![v] = keys]
  /\ IF v = Kalshi THEN owed' = keys /\ sid' = FALSE /\ seq' = "none"
                   ELSE UNCHANGED <<owed, sid, seq>>

\* A connection starts with the tracked set; Kalshi owes a snapshot of each ticker.
Subscribes(v) ==
  /\ wire' = [wire EXCEPT ![v] = tracked[v]]
  /\ IF v = Kalshi THEN owed' = tracked[v] /\ sid' = FALSE /\ seq' = "none"
                   ELSE UNCHANGED <<owed, sid, seq>>

\* Kalshi's books are emptied when a connection opens, never by the loop.
Emptied(v) == kBooks' = IF v = Kalshi THEN [t \in Tickers |-> 0] ELSE kBooks

Connect(v) ==
  /\ link[v] = "down"
  /\ link' = [link EXCEPT ![v] = "up"]
  /\ conn' = [conn EXCEPT ![v] = @ + 1]
  /\ Subscribes(v)
  /\ Emptied(v)
  /\ UNCHANGED <<pairVars, updates, events, loopVars, faults>>

\* Connected, but the subscription could not be sent: the loop is told nothing.
SubscribeFails(v) ==
  /\ link[v] = "down"
  /\ Fault
  /\ Emptied(v)
  /\ UNCHANGED <<pairVars, linkVars, updates, events, loopVars>>

ConnectFails(v) ==
  /\ link[v] = "down"
  /\ Fault
  /\ Ends(v)
  /\ UNCHANGED <<pairVars, conn, wire, sid, owed, seq, kBooks, updates, loopVars>>

\* The socket closes or a read fails.  After a failed send it always does.
Drop(v) ==
  /\ link[v] # "down"
  /\ IF link[v] = "broken" THEN UNCHANGED faults ELSE Fault
  /\ Ends(v)
  /\ UNCHANGED <<pairVars, conn, wire, sid, owed, seq, kBooks, updates, loopVars>>

\* The subscribe ack, whose sid update_subscription needs.
Acked ==
  /\ link[Kalshi] = "up" /\ ~ sid /\ seq # "gap"
  /\ sid' = TRUE
  /\ UNCHANGED <<pairVars, link, conn, wire, owed, seq, kBooks, updates, events, loopVars, faults>>

\* A snapshot replaces the ticker's book.
KalshiSnapshot(t) ==
  /\ link[Kalshi] = "up" /\ seq # "gap"
  /\ t \in owed
  /\ owed' = owed \ {t}
  /\ kBooks' = [kBooks EXCEPT ![t] = conn[Kalshi]]
  /\ events' = Append(events, Frame(Kalshi, t, conn[Kalshi]))
  /\ seq' = "next"
  /\ UNCHANGED <<pairVars, link, conn, wire, sid, updates, loopVars, faults>>

\* Frames that may come at any time wait for room in the queue; nothing else does.
Room == Len(events) < MaxEvents

\* A delta goes into the book it finds; one for a ticker without a book is dropped.
KalshiDelta(t) ==
  /\ link[Kalshi] = "up" /\ seq # "gap" /\ Room
  /\ t \in wire[Kalshi] \ owed
  /\ kBooks[t] # 0
  /\ events' = Append(events, Frame(Kalshi, t, conn[Kalshi]))
  /\ UNCHANGED <<pairVars, linkVars, kBooks, updates, loopVars, faults>>

\* A frame is lost, an owed snapshot or another.
FrameLost ==
  /\ link[Kalshi] = "up" /\ seq # "gap"
  /\ Fault
  /\ IF seq = "next" THEN seq' = "gap" ELSE EarlyLoss /\ UNCHANGED seq
  /\ owed' \in {owed} \cup {owed \ {t} : t \in owed}
  /\ UNCHANGED <<pairVars, link, conn, wire, sid, kBooks, updates, events, loopVars>>

\* The next frame shows the gap: it is not applied, and the connection is cycled.
GapSeen ==
  /\ link[Kalshi] = "up" /\ seq = "gap"
  /\ link' = [link EXCEPT ![Kalshi] = "down"]
  /\ events' = events \o <<SeqGap(conn[Kalshi]), Reconnect(Kalshi, conn[Kalshi])>>
  /\ UNCHANGED <<pairVars, conn, wire, sid, owed, seq, kBooks, updates, loopVars, faults>>

\* A pmus frame carries the whole book; only the loop keeps it.
PmusFrame(s) ==
  /\ link[Pmus] # "down" /\ Room
  /\ s \in wire[Pmus]
  /\ events' = Append(events, Frame(Pmus, s, conn[Pmus]))
  /\ UNCHANGED <<pairVars, linkVars, kBooks, updates, loopVars, faults>>

\* A stream takes the next SubUpdate off its channel.
Takes(v) == /\ updates[v] # <<>>
            /\ updates' = [updates EXCEPT ![v] = Tail(@)]

\* apply_kalshi_sub_update, on a known sid: Kalshi snapshots only what it did not carry.
KalshiUpdate ==
  LET u == Head(updates[Kalshi]) IN
  /\ link[Kalshi] = "up" /\ sid
  /\ Takes(Kalshi)
  /\ wire' = [wire EXCEPT ![Kalshi] = (@ \cup u.add) \ u.del]
  /\ owed' = (owed \cup (u.add \ wire[Kalshi])) \ u.del
  /\ UNCHANGED <<pairVars, link, conn, sid, seq, kBooks, events, loopVars, faults>>

\* apply_kalshi_sub_update before the sid is known, or when a send fails: the connection is cycled.
KalshiUpdateCycles ==
  /\ link[Kalshi] = "up"
  /\ Takes(Kalshi)
  /\ IF sid THEN Fault ELSE UNCHANGED faults
  /\ Ends(Kalshi)
  /\ UNCHANGED <<pairVars, conn, wire, sid, owed, seq, kBooks, loopVars>>

\* An add is one more subscription, a del does nothing on the wire; a failed send is not looked at.
PmusUpdate ==
  LET u == Head(updates[Pmus]) IN
  /\ link[Pmus] # "down"
  /\ Takes(Pmus)
  /\ \/ /\ link[Pmus] = "up"
        /\ wire' = [wire EXCEPT ![Pmus] = @ \cup u.add]
        /\ UNCHANGED <<link, faults>>
     \/ /\ IF link[Pmus] = "up" THEN Fault ELSE UNCHANGED faults
        /\ link' = [link EXCEPT ![Pmus] = "broken"]
        /\ UNCHANGED wire
  /\ UNCHANGED <<pairVars, conn, sid, owed, seq, kBooks, events, loopVars>>

(***************************************************************************)
(* The loop                                                                *)
(***************************************************************************)

\* all_legs_fresh
AllLegsFresh(s) == TickersOf[s] \subseteq fresh[Kalshi] /\ s \in fresh[Pmus]

\* A frame of the slug is turned into a quote the risk gate may approve: no stream is rebuilding,
\* every leg is fresh and every book is there.
Quotable(s) ==
  /\ s \in pairs
  /\ \A v \in Venues : ~ rebuild[v]
  /\ AllLegsFresh(s)
  /\ pmBooks[s] # 0 /\ \A t \in TickersOf[s] : kBooks[t] # 0

Pops(type, v) ==
  /\ events # <<>>
  /\ Head(events).type = type /\ Head(events).venue = v
  /\ events' = Tail(events)

\* Mutant of HandleKalshi: the pause outlives the rebuild.
BugHandleKalshi(t) ==
  /\ Pops("Frame", Kalshi)
  /\ Head(events).key = t
  /\ fresh' = [fresh EXCEPT ![Kalshi] = @ \cup {t}]
  /\ UNCHANGED <<pairVars, linkVars, kBooks, updates, rebuild, pmBooks, told, faults>>

HandleKalshi(t) ==
  /\ Pops("Frame", Kalshi)
  /\ Head(events).key = t
  /\ rebuild' = [rebuild EXCEPT ![Kalshi] = FALSE]
  /\ fresh' = [fresh EXCEPT ![Kalshi] = @ \cup {t}]
  /\ UNCHANGED <<pairVars, linkVars, kBooks, updates, pmBooks, told, faults>>

\* A pmus frame replaces the slug's book; one of a slug no longer tracked frees it.
HandlePmus(s) ==
  /\ Pops("Frame", Pmus)
  /\ Head(events).key = s
  /\ rebuild' = [rebuild EXCEPT ![Pmus] = FALSE]
  /\ IF s \in tracked[Pmus]
     THEN /\ pmBooks' = [pmBooks EXCEPT ![s] = Head(events).conn]
          /\ fresh' = [fresh EXCEPT ![Pmus] = @ \cup {s}]
     ELSE /\ pmBooks' = [pmBooks EXCEPT ![s] = 0]
          /\ UNCHANGED fresh
  /\ UNCHANGED <<pairVars, linkVars, kBooks, updates, told, faults>>

\* Mutant of HandleReconnect: only a pmus reconnect forgets what was read before it.
BugHandleReconnect(v) ==
  /\ Pops("Reconnect", v)
  /\ IF v = Pmus
     THEN /\ rebuild' = [rebuild EXCEPT ![v] = TRUE] /\ fresh' = [fresh EXCEPT ![v] = {}]
          /\ pmBooks' = [s \in Slugs |-> 0]
     ELSE UNCHANGED <<rebuild, fresh, pmBooks>>
  /\ told' = [told EXCEPT ![v] = Head(events).conn]
  /\ UNCHANGED <<pairVars, linkVars, kBooks, updates, faults>>

HandleReconnect(v) ==
  /\ Pops("Reconnect", v)
  /\ rebuild' = [rebuild EXCEPT ![v] = TRUE]
  /\ fresh' = [fresh EXCEPT ![v] = {}]
  /\ pmBooks' = IF v = Pmus THEN [s \in Slugs |-> 0] ELSE pmBooks
  /\ told' = [told EXCEPT ![v] = Head(events).conn]
  /\ UNCHANGED <<pairVars, linkVars, kBooks, updates, faults>>

HandleSeqGap ==
  /\ Pops("SeqGap", Kalshi)
  /\ rebuild' = [rebuild EXCEPT ![Kalshi] = TRUE]
  /\ fresh' = [fresh EXCEPT ![Kalshi] = {}]
  /\ told' = [told EXCEPT ![Kalshi] = Head(events).conn]
  /\ UNCHANGED <<pairVars, linkVars, kBooks, updates, pmBooks, faults>>

(***************************************************************************)
(* The steps of the stream tasks and of the loop, and their fairness       *)
(***************************************************************************)

StreamStep ==
  \/ \E v \in Venues : Connect(v) \/ SubscribeFails(v) \/ ConnectFails(v) \/ Drop(v)
  \/ Acked \/ FrameLost \/ GapSeen
  \/ \E t \in Tickers : KalshiSnapshot(t) \/ KalshiDelta(t)
  \/ \E s \in Slugs : PmusFrame(s)
  \/ KalshiUpdate \/ KalshiUpdateCycles \/ PmusUpdate

Handle ==
  \/ \E t \in Tickers : HandleKalshi(t)
  \/ \E s \in Slugs : HandlePmus(s)
  \/ \E v \in Venues : HandleReconnect(v)
  \/ HandleSeqGap
=============================================================================
