---------------------------- MODULE Refresh_proofs ----------------------------
(***************************************************************************)
(* Theorems about the venue streams, the loop that reads them and the      *)
(* discovery refresh beside them: for any slugs and tickers, any number of *)
(* faults, connections, refreshes and entries, and any order of them.      *)
(***************************************************************************)
EXTENDS Refresh, SequenceTheorems, TLAPS

(***************************************************************************)
(* Queues                                                                  *)
(***************************************************************************)

\* The sequence with one element more.
LEMMA Appended ==
  ASSUME NEW T, NEW q \in Seq(T), NEW e \in T
  PROVE  /\ Append(q, e) \in Seq(T) /\ Len(q) \in Nat /\ Len(Append(q, e)) = Len(q) + 1
         /\ \A i \in 1..Len(q) : Append(q, e)[i] = q[i] /\ q[i] \in T
         /\ Append(q, e)[Len(q) + 1] = e
  OBVIOUS

\* The sequence without its first element.
LEMMA Popped ==
  ASSUME NEW T, NEW q \in Seq(T), q # <<>>
  PROVE  /\ Tail(q) \in Seq(T) /\ Len(q) \in Nat \ {0} /\ Len(Tail(q)) = Len(q) - 1
         /\ Head(q) = q[1] /\ Head(q) \in T
         /\ \A i \in 1..Len(Tail(q)) : Tail(q)[i] = q[i + 1] /\ i + 1 \in 1..Len(q)
  OBVIOUS

\* The elements of a sequence of events have a venue and a connection.
LEMMA EventFields ==
  ASSUME NEW e \in Event
  PROVE  e.venue \in Venues /\ e.conn \in Nat /\ e.type \in {"Frame", "Reconnect", "SeqGap"}
  BY DEF Event

(***************************************************************************)
(* The event queue                                                         *)
(*                                                                         *)
(* An event names the connection it is of.  Behind the end of a connection *)
(* come only the frames of later ones, so a frame that is read is always   *)
(* of a later connection than the last one the loop knows to have ended.   *)
(***************************************************************************)

Ended(e) == e.type # "Frame"

Ordered(q, c, l, d) ==
  /\ \A i \in 1..Len(q) :
       /\ q[i].conn <= c[q[i].venue]
       /\ Ended(q[i]) /\ l[q[i].venue] # "down" => q[i].conn < c[q[i].venue]
       /\ ~ Ended(q[i]) => d[q[i].venue] < q[i].conn
  /\ \A i, j \in 1..Len(q) :
       i < j /\ Ended(q[i]) /\ ~ Ended(q[j]) /\ q[i].venue = q[j].venue => q[i].conn < q[j].conn
  /\ \A v \in Venues : d[v] <= c[v] /\ (l[v] # "down" => d[v] < c[v])

QueueOrdered == Ordered(events, conn, link, told)

\* The counters of connections, as the lemmas below take them.
Counters == [Venues -> Nat]

\* A frame of the connection that is up goes behind everything.
LEMMA FrameKeepsOrder ==
  ASSUME NEW q \in Seq(Event), NEW c \in Counters, NEW d \in Counters, NEW l,
         Ordered(q, c, l, d),
         NEW e \in Event, ~ Ended(e), l[e.venue] # "down", e.conn = c[e.venue]
  PROVE  Ordered(Append(q, e), c, l, d)
  <1> DEFINE r == Append(q, e)
  <1>1. /\ Len(q) \in Nat /\ Len(r) = Len(q) + 1 /\ r[Len(q) + 1] = e
        /\ \A i \in 1..Len(q) : r[i] = q[i] /\ q[i] \in Event
    BY Appended
  <1>2. \A i \in 1..Len(q) : q[i].venue \in Venues /\ q[i].conn \in Nat
    BY <1>1, EventFields
  <1>3. e.venue \in Venues /\ e.conn \in Nat /\ d[e.venue] < e.conn
    BY EventFields DEF Ordered
  <1> HIDE DEF r
  <1>4. ASSUME NEW i \in 1..Len(r)
        PROVE  /\ r[i].conn <= c[r[i].venue]
               /\ Ended(r[i]) /\ l[r[i].venue] # "down" => r[i].conn < c[r[i].venue]
               /\ ~ Ended(r[i]) => d[r[i].venue] < r[i].conn
    <2>1. CASE i \in 1..Len(q)
      BY <2>1, <1>1 DEF Ordered
    <2>2. CASE i = Len(q) + 1
      BY <2>2, <1>1, <1>3 DEF Counters
    <2> QED BY <2>1, <2>2, <1>1
  <1>5. ASSUME NEW i \in 1..Len(r), NEW j \in 1..Len(r),
               i < j, Ended(r[i]), ~ Ended(r[j]), r[i].venue = r[j].venue
        PROVE  r[i].conn < r[j].conn
    <2>1. i \in 1..Len(q)
      BY <1>1, <1>5
    <2>2. CASE j \in 1..Len(q)
      BY <2>1, <2>2, <1>1, <1>5 DEF Ordered
    <2>3. CASE j = Len(q) + 1
      BY <2>1, <2>3, <1>1, <1>5 DEF Ordered
    <2> QED BY <2>2, <2>3, <1>1
  <1> QED BY <1>4, <1>5 DEF Ordered, r

\* The end of a connection goes behind everything, and its venue is down.
LEMMA EndKeepsOrder ==
  ASSUME NEW q \in Seq(Event), NEW c \in Counters, NEW d \in Counters, NEW l, NEW m,
         Ordered(q, c, l, d),
         NEW e \in Event, Ended(e), e.conn = c[e.venue],
         m[e.venue] = "down", \A v \in Venues : v # e.venue => m[v] = l[v]
  PROVE  Ordered(Append(q, e), c, m, d)
  <1> DEFINE r == Append(q, e)
  <1>1. /\ Len(q) \in Nat /\ Len(r) = Len(q) + 1 /\ r[Len(q) + 1] = e
        /\ \A i \in 1..Len(q) : r[i] = q[i] /\ q[i] \in Event
    BY Appended
  <1>2. \A i \in 1..Len(q) : q[i].venue \in Venues /\ q[i].conn \in Nat
    BY <1>1, EventFields
  <1>3. e.venue \in Venues /\ e.conn \in Nat
    BY EventFields
  <1> HIDE DEF r
  <1>4. ASSUME NEW i \in 1..Len(r)
        PROVE  /\ r[i].conn <= c[r[i].venue]
               /\ Ended(r[i]) /\ m[r[i].venue] # "down" => r[i].conn < c[r[i].venue]
               /\ ~ Ended(r[i]) => d[r[i].venue] < r[i].conn
    <2>1. CASE i \in 1..Len(q)
      BY <2>1, <1>1, <1>2 DEF Ordered
    <2>2. CASE i = Len(q) + 1
      BY <2>2, <1>1, <1>3 DEF Counters
    <2> QED BY <2>1, <2>2, <1>1
  <1>5. ASSUME NEW i \in 1..Len(r), NEW j \in 1..Len(r),
               i < j, Ended(r[i]), ~ Ended(r[j]), r[i].venue = r[j].venue
        PROVE  r[i].conn < r[j].conn
    <2>1. i \in 1..Len(q) /\ j \in 1..Len(q)
      BY <1>1, <1>5
    <2> QED BY <2>1, <1>1, <1>5 DEF Ordered
  <1>6. \A v \in Venues : d[v] <= c[v] /\ (m[v] # "down" => d[v] < c[v])
    BY DEF Ordered
  <1> QED BY <1>4, <1>5, <1>6 DEF Ordered, r

\* A connection of its own opens: all that is queued is of earlier ones.
LEMMA ConnectKeepsOrder ==
  ASSUME NEW q \in Seq(Event), NEW c \in Counters, NEW d \in Counters, NEW l,
         Ordered(q, c, l, d), NEW v \in Venues,
         NEW b \in Counters, b[v] = c[v] + 1, \A w \in Venues \ {v} : b[w] = c[w],
         NEW m, \A w \in Venues \ {v} : m[w] = l[w]
  PROVE  Ordered(q, b, m, d)
  <1>1. \A i \in 1..Len(q) : q[i].venue \in Venues /\ q[i].conn \in Nat
    BY EventFields
  <1>2. ASSUME NEW i \in 1..Len(q)
        PROVE  /\ q[i].conn <= b[q[i].venue]
               /\ Ended(q[i]) /\ m[q[i].venue] # "down" => q[i].conn < b[q[i].venue]
               /\ ~ Ended(q[i]) => d[q[i].venue] < q[i].conn
    <2> DEFINE w == q[i].venue
    <2>1. w \in Venues /\ q[i].conn \in Nat /\ q[i].conn <= c[w] /\ c[w] \in Nat
      BY <1>1 DEF Ordered, Counters
    <2>2. (w # v /\ Ended(q[i]) /\ l[w] # "down" => q[i].conn < c[w]) /\ (~ Ended(q[i]) => d[w] < q[i].conn)
      BY DEF Ordered
    <2> QED BY <2>1, <2>2
  <1>3. \A w \in Venues : d[w] <= b[w] /\ (m[w] # "down" => d[w] < b[w])
    <2> SUFFICES ASSUME NEW w \in Venues PROVE d[w] <= b[w] /\ (m[w] # "down" => d[w] < b[w])
      OBVIOUS
    <2>1. d[w] \in Nat /\ c[w] \in Nat /\ d[w] <= c[w] /\ (l[w] # "down" => d[w] < c[w])
      BY DEF Ordered, Counters
    <2> QED BY <2>1
  <1> QED BY <1>2, <1>3 DEF Ordered

\* A venue that is not down breaks.
LEMMA BreakKeepsOrder ==
  ASSUME NEW q \in Seq(Event), NEW c, NEW d, NEW l, NEW m,
         Ordered(q, c, l, d), \A v \in Venues : m[v] # "down" => l[v] # "down"
  PROVE  Ordered(q, c, m, d)
  <1>1. \A i \in 1..Len(q) : q[i].venue \in Venues
    BY EventFields
  <1> QED BY <1>1 DEF Ordered

\* A frame is read.
LEMMA FrameReadKeepsOrder ==
  ASSUME NEW q \in Seq(Event), q # <<>>, NEW c, NEW d, NEW l, Ordered(q, c, l, d)
  PROVE  Ordered(Tail(q), c, l, d)
  <1>1. /\ Len(q) \in Nat \ {0} /\ Len(Tail(q)) = Len(q) - 1
        /\ \A i \in 1..Len(Tail(q)) : Tail(q)[i] = q[i + 1] /\ i + 1 \in 1..Len(q)
    BY Popped
  <1> DEFINE r == Tail(q)
  <1> HIDE DEF r
  <1>2. \A i \in 1..Len(r) : r[i] = q[i + 1] /\ i + 1 \in 1..Len(q)
    BY <1>1 DEF r
  <1>3. \A i, j \in 1..Len(r) : i < j => i + 1 < j + 1
    OBVIOUS
  <1>4. Ordered(r, c, l, d)
    BY <1>2, <1>3 DEF Ordered
  <1> QED BY <1>4 DEF r

\* The end of a connection is read: the frames still queued are of later ones.
LEMMA EndReadKeepsOrder ==
  ASSUME NEW q \in Seq(Event), q # <<>>, NEW c \in Counters, NEW d, NEW l, Ordered(q, c, l, d),
         Ended(Head(q)), NEW b, b[Head(q).venue] = Head(q).conn,
         \A v \in Venues : v # Head(q).venue => b[v] = d[v]
  PROVE  Ordered(Tail(q), c, l, b)
  <1>1. /\ Len(q) \in Nat \ {0} /\ Head(q) = q[1] /\ q[1] \in Event
        /\ \A i \in 1..Len(Tail(q)) : Tail(q)[i] = q[i + 1] /\ i + 1 \in 1..Len(q) /\ 1 < i + 1 /\ q[i + 1] \in Event
    BY Popped
  <1>2. 1 \in 1..Len(q) /\ \A i \in 1..Len(Tail(q)) : Tail(q)[i].venue \in Venues
    BY <1>1, EventFields
  <1>3. Ordered(Tail(q), c, l, d)
    BY FrameReadKeepsOrder
  <1> DEFINE r == Tail(q)
  <1> HIDE DEF r
  <1>4. ASSUME NEW i \in 1..Len(r), ~ Ended(r[i]) PROVE b[r[i].venue] < r[i].conn
    <2>1. r[i] = q[i + 1] /\ i + 1 \in 1..Len(q) /\ 1 < i + 1 /\ r[i].venue \in Venues
      BY <1>1, <1>2 DEF r
    <2>2. CASE r[i].venue = Head(q).venue
      BY <2>1, <2>2, <1>1, <1>2, <1>4 DEF Ordered
    <2>3. CASE r[i].venue # Head(q).venue
      BY <2>1, <2>3, <1>3, <1>4 DEF Ordered, r
    <2> QED BY <2>2, <2>3
  <1>5. \A v \in Venues : b[v] <= c[v] /\ (l[v] # "down" => b[v] < c[v])
    BY <1>1, <1>2 DEF Ordered
  <1> QED BY <1>3, <1>4, <1>5 DEF Ordered, r

(***************************************************************************)
(* Types                                                                   *)
(*                                                                         *)
(* TypeOK says what a variable is at each venue; that it is a function of  *)
(* the venues, which an EXCEPT needs, is the strengthening.                *)
(***************************************************************************)

OfVenues(f) == f = [v \in Venues |-> f[v]]

PairTypes ==
  /\ pairs \subseteq Slugs
  /\ OfVenues(tracked) /\ \A v \in Venues : tracked[v] \subseteq Keys(v)

LinkTypes ==
  /\ OfVenues(link) /\ OfVenues(conn) /\ OfVenues(wire)
  /\ \A v \in Venues :
       link[v] \in {"down", "up", "broken"} /\ conn[v] \in Nat /\ wire[v] \subseteq Keys(v)
  /\ sid \in BOOLEAN /\ seq \in {"none", "next", "gap"} /\ owed \subseteq Tickers

BookTypes == kBooks \in [Tickers -> Nat]

ChannelTypes == OfVenues(updates) /\ \A v \in Venues : updates[v] \in Seq(SubUpdate(v))

EventTypes == events \in Seq(Event)

LoopTypes ==
  /\ OfVenues(rebuild) /\ OfVenues(fresh) /\ OfVenues(told)
  /\ \A v \in Venues : rebuild[v] \in BOOLEAN /\ fresh[v] \subseteq Keys(v) /\ told[v] \in Nat
  /\ pmBooks \in [Slugs -> Nat]

FaultTypes == faults \in Nat

StreamTypes ==
  PairTypes /\ LinkTypes /\ BookTypes /\ ChannelTypes /\ EventTypes /\ LoopTypes /\ FaultTypes

\* The strengthened types are types.
LEMMA StreamTypesAreTypes == StreamTypes => TypeOK
  BY DEF StreamTypes, PairTypes, LinkTypes, BookTypes, ChannelTypes, EventTypes, LoopTypes,
         FaultTypes, TypeOK

\* The events of a connection.
LEMMA EventsTyped ==
  ASSUME NEW v \in Venues, NEW n \in Nat
  PROVE  /\ Reconnect(v, n) \in Event /\ SeqGap(n) \in Event
         /\ \A k \in Tickers \cup Slugs : Frame(v, k, n) \in Event
         /\ Ended(Reconnect(v, n)) /\ Ended(SeqGap(n)) /\ \A k : ~ Ended(Frame(v, k, n))
  BY DEF Reconnect, SeqGap, Frame, Event, Ended, Venues

\* The keys of pmus are slugs, those of Kalshi are tickers; the tickers of slugs are tickers.
LEMMA KeysOfVenues ==
  /\ Kalshi \in Venues /\ Pmus \in Venues /\ Kalshi # Pmus /\ \A v \in Venues : v = Kalshi \/ v = Pmus
  /\ Keys(Kalshi) = Tickers /\ Keys(Pmus) = Slugs
  /\ \A S \in SUBSET Slugs, v \in Venues : KeysOf(v, S) \subseteq Keys(v)
  BY StreamsAssumption DEF Kalshi, Pmus, Venues, Keys, KeysOf, TickersOfAll

\* What the end of a connection leaves.
LEMMA EndsTyped ==
  ASSUME LinkTypes, EventTypes, NEW v \in Venues, Ends(v), UNCHANGED <<conn, wire, sid, owed, seq>>
  PROVE  LinkTypes' /\ EventTypes'
  <1>1. OfVenues(link') /\ link'[v] = "down" /\ \A w \in Venues : w # v => link'[w] = link[w]
    BY DEF OfVenues, Ends, LinkTypes
  <1>2. Reconnect(v, conn[v]) \in Event
    BY EventsTyped DEF LinkTypes
  <1>3. EventTypes'
    BY <1>2, Appended DEF EventTypes, Ends
  <1> QED BY <1>1, <1>3 DEF LinkTypes

\* A step of the stream tasks keeps the types.
LEMMA StreamStepTyped ==
  ASSUME StreamTypes, StreamStep
  PROVE  StreamTypes'
  <1> USE DEF StreamTypes
  <1>0. /\ UNCHANGED pairVars => PairTypes'
        /\ UNCHANGED linkVars => LinkTypes'
        /\ UNCHANGED kBooks => BookTypes'
        /\ UNCHANGED updates => ChannelTypes'
        /\ UNCHANGED events => EventTypes'
        /\ UNCHANGED loopVars => LoopTypes'
        /\ Fault \/ UNCHANGED faults => FaultTypes'
    BY DEF PairTypes, LinkTypes, BookTypes, ChannelTypes, EventTypes, LoopTypes, FaultTypes,
           pairVars, linkVars, loopVars, Fault
  <1>1. ASSUME NEW v \in Venues, Connect(v) PROVE StreamTypes'
    <2>1. /\ OfVenues(link') /\ link'[v] = "up" /\ \A w \in Venues : w # v => link'[w] = link[w]
          /\ OfVenues(conn') /\ conn'[v] = conn[v] + 1 /\ \A w \in Venues : w # v => conn'[w] = conn[w]
      BY <1>1 DEF OfVenues, Connect, LinkTypes
    <2>2. OfVenues(wire') /\ wire'[v] = tracked[v] /\ \A w \in Venues : w # v => wire'[w] = wire[w]
      BY <1>1 DEF OfVenues, Connect, Subscribes, LinkTypes
    <2>3. sid' \in BOOLEAN /\ seq' \in {"none", "next", "gap"} /\ owed' \subseteq Tickers
      BY <1>1, KeysOfVenues DEF Connect, Subscribes, LinkTypes, PairTypes
    <2>4. LinkTypes'
      BY <2>1, <2>2, <2>3 DEF LinkTypes, PairTypes
    <2>5. BookTypes'
      BY <1>1 DEF Connect, Emptied, BookTypes
    <2> QED BY <1>0, <1>1, <2>4, <2>5 DEF Connect
  <1>2. ASSUME NEW v \in Venues, SubscribeFails(v) PROVE StreamTypes'
    <2>1. BookTypes'
      BY <1>2 DEF SubscribeFails, Emptied, BookTypes
    <2> QED BY <1>0, <1>2, <2>1 DEF SubscribeFails
  <1>3. ASSUME NEW v \in Venues, ConnectFails(v) \/ Drop(v) PROVE StreamTypes'
    <2>1. /\ Ends(v) /\ (Fault \/ UNCHANGED faults)
          /\ UNCHANGED <<pairVars, conn, wire, sid, owed, seq, kBooks, updates, loopVars>>
      BY <1>3 DEF ConnectFails, Drop
    <2>2. LinkTypes' /\ EventTypes'
      BY <2>1, EndsTyped
    <2> QED BY <1>0, <2>1, <2>2
  <1>4. ASSUME Acked PROVE StreamTypes'
    BY <1>0, <1>4 DEF Acked, LinkTypes
  <1>5. ASSUME FrameLost PROVE StreamTypes'
    <2>1. LinkTypes'
      BY <1>5 DEF FrameLost, LinkTypes
    <2> QED BY <1>0, <1>5, <2>1 DEF FrameLost
  <1>6. ASSUME GapSeen PROVE StreamTypes'
    <2>1. OfVenues(link') /\ \A w \in Venues : link'[w] \in {"down", link[w]}
      BY <1>6, KeysOfVenues DEF OfVenues, GapSeen, LinkTypes
    <2>2. SeqGap(conn[Kalshi]) \in Event /\ Reconnect(Kalshi, conn[Kalshi]) \in Event
      BY EventsTyped, KeysOfVenues DEF LinkTypes
    <2>3. LinkTypes' /\ EventTypes'
      BY <1>6, <2>1, <2>2 DEF GapSeen, LinkTypes, EventTypes
    <2> QED BY <1>0, <1>6, <2>3 DEF GapSeen
  <1>7. ASSUME NEW t \in Tickers, KalshiSnapshot(t) PROVE StreamTypes'
    <2>1. conn[Kalshi] \in Nat /\ Frame(Kalshi, t, conn[Kalshi]) \in Event
      BY EventsTyped, KeysOfVenues DEF LinkTypes
    <2>2. EventTypes'
      BY <1>7, <2>1, Appended DEF KalshiSnapshot, EventTypes
    <2>3. LinkTypes' /\ BookTypes'
      BY <1>7, <2>1 DEF KalshiSnapshot, LinkTypes, BookTypes
    <2> QED BY <1>0, <1>7, <2>2, <2>3 DEF KalshiSnapshot
  <1>8. ASSUME NEW t \in Tickers, KalshiDelta(t) PROVE StreamTypes'
    <2>1. Frame(Kalshi, t, conn[Kalshi]) \in Event
      BY EventsTyped, KeysOfVenues DEF LinkTypes
    <2>2. EventTypes'
      BY <1>8, <2>1, Appended DEF KalshiDelta, EventTypes
    <2> QED BY <1>0, <1>8, <2>2 DEF KalshiDelta
  <1>9. ASSUME NEW s \in Slugs, PmusFrame(s) PROVE StreamTypes'
    <2>1. Frame(Pmus, s, conn[Pmus]) \in Event
      BY EventsTyped, KeysOfVenues DEF LinkTypes
    <2>2. EventTypes'
      BY <1>9, <2>1, Appended DEF PmusFrame, EventTypes
    <2> QED BY <1>0, <1>9, <2>2 DEF PmusFrame
  <1>10. ASSUME NEW v \in Venues, Takes(v)
         PROVE  /\ ChannelTypes'
                /\ Head(updates[v]).add \subseteq Keys(v) /\ Head(updates[v]).del \subseteq Keys(v)
    <2>1. /\ OfVenues(updates') /\ updates'[v] = Tail(updates[v])
          /\ \A w \in Venues : w # v => updates'[w] = updates[w]
      BY <1>10 DEF OfVenues, Takes, ChannelTypes
    <2>2. Tail(updates[v]) \in Seq(SubUpdate(v)) /\ Head(updates[v]) \in SubUpdate(v)
      BY <1>10, Popped DEF Takes, ChannelTypes
    <2> QED BY <2>1, <2>2 DEF ChannelTypes, SubUpdate
  <1>11. ASSUME KalshiUpdate PROVE StreamTypes'
    <2> DEFINE u == Head(updates[Kalshi])
    <2>1. ChannelTypes' /\ u.add \subseteq Tickers /\ u.del \subseteq Tickers
      BY <1>10, <1>11, KeysOfVenues DEF KalshiUpdate
    <2>2. /\ OfVenues(wire') /\ wire'[Kalshi] = (wire[Kalshi] \cup u.add) \ u.del
          /\ \A w \in Venues : w # Kalshi => wire'[w] = wire[w]
          /\ owed' = (owed \cup (u.add \ wire[Kalshi])) \ u.del
      BY <1>11, KeysOfVenues DEF OfVenues, KalshiUpdate, LinkTypes
    <2> HIDE DEF u
    <2>3. LinkTypes'
      BY <1>11, <2>1, <2>2, KeysOfVenues DEF KalshiUpdate, LinkTypes
    <2> QED BY <1>0, <1>11, <2>1, <2>3 DEF KalshiUpdate
  <1>12. ASSUME KalshiUpdateCycles PROVE StreamTypes'
    <2>1. ChannelTypes'
      BY <1>10, <1>12, KeysOfVenues DEF KalshiUpdateCycles
    <2>2. LinkTypes' /\ EventTypes'
      BY <1>12, EndsTyped, KeysOfVenues DEF KalshiUpdateCycles
    <2> QED BY <1>0, <1>12, <2>1, <2>2 DEF KalshiUpdateCycles
  <1>13. ASSUME PmusUpdate PROVE StreamTypes'
    <2> DEFINE u == Head(updates[Pmus])
    <2>1. ChannelTypes' /\ u.add \subseteq Slugs
      BY <1>10, <1>13, KeysOfVenues DEF PmusUpdate
    <2>2. /\ OfVenues(wire') /\ wire'[Pmus] \in {wire[Pmus], wire[Pmus] \cup u.add}
          /\ \A w \in Venues : w # Pmus => wire'[w] = wire[w]
      BY <1>13, KeysOfVenues DEF OfVenues, PmusUpdate, LinkTypes
    <2>3. OfVenues(link') /\ \A w \in Venues : link'[w] \in {"broken", link[w]}
      BY <1>13, KeysOfVenues DEF OfVenues, PmusUpdate, LinkTypes
    <2> HIDE DEF u
    <2>4. LinkTypes'
      BY <1>13, <2>1, <2>2, <2>3, KeysOfVenues DEF PmusUpdate, LinkTypes
    <2>5. Fault \/ UNCHANGED faults
      BY <1>13 DEF PmusUpdate
    <2> QED BY <1>0, <1>13, <2>1, <2>4, <2>5 DEF PmusUpdate
  <1> QED BY <1>1, <1>2, <1>3, <1>4, <1>5, <1>6, <1>7, <1>8, <1>9, <1>11, <1>12, <1>13 DEF StreamStep

\* A step of the loop keeps the types.
LEMMA HandleTyped ==
  ASSUME StreamTypes, Handle
  PROVE  StreamTypes'
  <1> USE DEF StreamTypes
  <1>0. /\ UNCHANGED pairVars => PairTypes'
        /\ UNCHANGED linkVars => LinkTypes'
        /\ UNCHANGED kBooks => BookTypes'
        /\ UNCHANGED updates => ChannelTypes'
        /\ UNCHANGED faults => FaultTypes'
    BY DEF PairTypes, LinkTypes, BookTypes, ChannelTypes, FaultTypes, pairVars, linkVars
  <1>1. ASSUME NEW type, NEW v \in Venues, Pops(type, v)
        PROVE  EventTypes' /\ Head(events).conn \in Nat
    BY <1>1, Popped, EventFields DEF Pops, EventTypes
  <1>2. ASSUME NEW v \in Venues, NEW b \in BOOLEAN, NEW S \in SUBSET Keys(v), NEW n \in Nat,
               rebuild' = [rebuild EXCEPT ![v] = b], fresh' = [fresh EXCEPT ![v] = S],
               told' = [told EXCEPT ![v] = n], pmBooks' \in [Slugs -> Nat]
        PROVE  LoopTypes'
    BY <1>2 DEF LoopTypes, OfVenues
  <1>3. told = [told EXCEPT ![Kalshi] = told[Kalshi]] /\ told = [told EXCEPT ![Pmus] = told[Pmus]]
        /\ fresh = [fresh EXCEPT ![Pmus] = fresh[Pmus]] /\ told[Kalshi] \in Nat /\ told[Pmus] \in Nat
    BY KeysOfVenues DEF LoopTypes, OfVenues
  <1>5. ASSUME NEW t \in Tickers, HandleKalshi(t) PROVE StreamTypes'
    <2>1. EventTypes'
      BY <1>1, <1>5, KeysOfVenues DEF HandleKalshi
    <2> DEFINE S == fresh[Kalshi] \cup {t}
               n == told[Kalshi]
    <2>2. S \in SUBSET Keys(Kalshi) /\ n \in Nat
      BY KeysOfVenues DEF LoopTypes
    <2>3. /\ rebuild' = [rebuild EXCEPT ![Kalshi] = FALSE] /\ fresh' = [fresh EXCEPT ![Kalshi] = S]
          /\ told' = [told EXCEPT ![Kalshi] = n] /\ pmBooks' \in [Slugs -> Nat]
      BY <1>3, <1>5 DEF HandleKalshi, LoopTypes
    <2> HIDE DEF S, n
    <2>4. LoopTypes'
      BY <1>2, <2>2, <2>3, KeysOfVenues
    <2> QED BY <1>0, <1>5, <2>1, <2>4 DEF HandleKalshi
  <1>6. ASSUME NEW s \in Slugs, HandlePmus(s) PROVE StreamTypes'
    <2>1. EventTypes' /\ Head(events).conn \in Nat
      BY <1>1, <1>6, KeysOfVenues DEF HandlePmus
    <2> DEFINE S == IF s \in tracked[Pmus] THEN fresh[Pmus] \cup {s} ELSE fresh[Pmus]
               n == told[Pmus]
    <2>2. S \in SUBSET Keys(Pmus) /\ n \in Nat
      BY KeysOfVenues DEF LoopTypes
    <2>3. /\ rebuild' = [rebuild EXCEPT ![Pmus] = FALSE] /\ fresh' = [fresh EXCEPT ![Pmus] = S]
          /\ told' = [told EXCEPT ![Pmus] = n]
      BY <1>3, <1>6 DEF HandlePmus
    <2>4. pmBooks' \in [Slugs -> Nat]
      BY <1>6, <2>1 DEF HandlePmus, LoopTypes
    <2> HIDE DEF S, n
    <2>5. LoopTypes'
      BY <1>2, <2>2, <2>3, <2>4, KeysOfVenues
    <2> QED BY <1>0, <1>6, <2>1, <2>5 DEF HandlePmus
  <1>7. ASSUME NEW v \in Venues, HandleReconnect(v) PROVE StreamTypes'
    <2>1. EventTypes' /\ Head(events).conn \in Nat
      BY <1>1, <1>7 DEF HandleReconnect
    <2>2. pmBooks' \in [Slugs -> Nat]
      BY <1>7 DEF HandleReconnect, LoopTypes
    <2>3. LoopTypes'
      BY <1>2, <1>7, <2>1, <2>2 DEF HandleReconnect
    <2> QED BY <1>0, <1>7, <2>1, <2>3 DEF HandleReconnect
  <1>8. ASSUME HandleSeqGap PROVE StreamTypes'
    <2>1. EventTypes' /\ Head(events).conn \in Nat
      BY <1>1, <1>8, KeysOfVenues DEF HandleSeqGap
    <2>2. LoopTypes'
      BY <1>2, <1>8, <2>1, KeysOfVenues DEF HandleSeqGap, LoopTypes
    <2> QED BY <1>0, <1>8, <2>1, <2>2 DEF HandleSeqGap
  <1> QED BY <1>5, <1>6, <1>7, <1>8 DEF Handle

RefreshTypes ==
  /\ StreamTypes
  /\ absent \in [Slugs -> 0..Threshold]
  /\ stage \in {"pull", "apply", "free", "send"}
  /\ change \in [add : SUBSET Slugs, del : SUBSET Slugs]
  /\ cycles \in Nat /\ entries \in Nat
  /\ pending \subseteq Slugs /\ held \subseteq Slugs

\* What a venue is sent is a sequence of at most one update.
LEMMA UpdateTyped ==
  ASSUME change \in [add : SUBSET Slugs, del : SUBSET Slugs], NEW v \in Venues
  PROVE  /\ KeysOf(v, change.add) \subseteq Keys(v) /\ KeysOf(v, change.del) \subseteq Keys(v)
         /\ Update(v) \in Seq(SubUpdate(v))
  <1>1. KeysOf(v, change.add) \subseteq Keys(v) /\ KeysOf(v, change.del) \subseteq Keys(v)
    BY KeysOfVenues
  <1> DEFINE del == IF v = Kalshi THEN KeysOf(v, change.del) ELSE {}
             u == [add |-> KeysOf(v, change.add), del |-> del]
  <1>2. u \in SubUpdate(v)
    BY <1>1 DEF SubUpdate
  <1>3. Update(v) \in {<<>>, <<u>>}
    BY DEF Update
  <1> HIDE DEF u
  <1>4. <<>> \in Seq(SubUpdate(v)) /\ <<u>> \in Seq(SubUpdate(v))
    BY <1>2
  <1> QED BY <1>1, <1>3, <1>4

\* The types hold before the streams have connected.
LEMMA InitTyped == Init => RefreshTypes
  <1> SUFFICES ASSUME Init PROVE RefreshTypes
    OBVIOUS
  <1>1. StreamTypes
    <2>1. PairTypes
      BY KeysOfVenues, RefreshAssumption DEF Init, InitWith, PairTypes, OfVenues
    <2>2. LinkTypes /\ LoopTypes
      BY DEF Init, InitWith, LinkTypes, LoopTypes, OfVenues
    <2>3. BookTypes /\ ChannelTypes /\ EventTypes /\ FaultTypes
      BY DEF Init, InitWith, BookTypes, ChannelTypes, EventTypes, FaultTypes, OfVenues
    <2> QED BY <2>1, <2>2, <2>3 DEF StreamTypes
  <1> QED BY <1>1 DEF Init, NoChange, RefreshTypes, Threshold

\* Every step keeps the types.
LEMMA NextTyped == RefreshTypes /\ [Next]_allVars => RefreshTypes'
  <1> SUFFICES ASSUME RefreshTypes, [Next]_allVars PROVE RefreshTypes'
    OBVIOUS
  <1> USE DEF RefreshTypes
  <1>1. UNCHANGED vars => StreamTypes'
    BY DEF StreamTypes, PairTypes, LinkTypes, BookTypes, ChannelTypes, EventTypes, LoopTypes,
           FaultTypes, vars, pairVars, linkVars, loopVars, OfVenues
  <1>2. CASE UNCHANGED allVars
    BY <1>1, <1>2 DEF allVars, refreshVars, entryVars
  <1>3. CASE StreamStep /\ UNCHANGED <<refreshVars, entryVars>>
    BY <1>3, StreamStepTyped DEF refreshVars, entryVars
  <1>4. CASE Step
    <2>1. StreamTypes' /\ UNCHANGED refreshVars
      BY <1>4, HandleTyped DEF Step
    <2>2. pending' \subseteq Slugs /\ held' \subseteq Slugs /\ entries' \in Nat
      BY <1>4 DEF Step, entryVars
    <2> QED BY <2>1, <2>2 DEF refreshVars
  <1>5. ASSUME NEW listed \in SUBSET Slugs, NEW truncated \in BOOLEAN, Pull(listed, truncated)
        PROVE  RefreshTypes'
    <2>1. Misses(listed) \in [Slugs -> 0..Threshold]
      BY DEF Misses, Threshold
    <2>2. absent' \in [Slugs -> 0..Threshold]
      BY <1>5, <2>1 DEF Pull
    <2>3. \A m : Pruned(m, listed) \subseteq Slugs
      BY DEF Pruned, StreamTypes, PairTypes
    <2>4. change' \in [add : SUBSET Slugs, del : SUBSET Slugs]
      BY <1>5, <2>3 DEF Pull
    <2> QED BY <1>1, <1>5, <2>2, <2>4 DEF Pull, entryVars
  <1>6. CASE Apply
    <2>1. OfVenues(tracked') /\ \A v \in Venues : tracked'[v] \subseteq Keys(v)
      BY <1>6, UpdateTyped DEF Apply, StreamTypes, PairTypes, OfVenues
    <2>2. PairTypes'
      BY <1>6, <2>1 DEF Apply, StreamTypes, PairTypes
    <2>3. StreamTypes'
      BY <1>6, <2>2 DEF Apply, StreamTypes, LinkTypes, BookTypes, ChannelTypes, EventTypes, LoopTypes,
                        FaultTypes, linkVars, loopVars, OfVenues
    <2>4. absent' \in [Slugs -> 0..Threshold]
      BY <1>6 DEF Apply, Threshold
    <2> QED BY <1>6, <2>3, <2>4 DEF Apply, entryVars
  <1>7. CASE Free
    <2>1. BookTypes'
      BY <1>7 DEF Free, StreamTypes, BookTypes
    <2>2. StreamTypes'
      BY <1>7, <2>1 DEF Free, StreamTypes, PairTypes, LinkTypes, ChannelTypes, EventTypes, LoopTypes,
                        FaultTypes, pairVars, linkVars, loopVars, OfVenues
    <2> QED BY <1>7, <2>2 DEF Free, entryVars
  <1>8. CASE Send
    <2>1. ChannelTypes'
      BY <1>8, UpdateTyped DEF Send, StreamTypes, ChannelTypes, OfVenues
    <2>2. StreamTypes'
      BY <1>8, <2>1 DEF Send, StreamTypes, PairTypes, LinkTypes, BookTypes, EventTypes, LoopTypes,
                        FaultTypes, pairVars, linkVars, loopVars, OfVenues
    <2> QED BY <1>8, <2>2 DEF Send, entryVars, NoChange
  <1>9. ASSUME NEW s \in Slugs, Resolve(s) \/ Unwind(s) PROVE RefreshTypes'
    BY <1>1, <1>9 DEF Resolve, Unwind, refreshVars
  <1> QED BY <1>2, <1>3, <1>4, <1>5, <1>6, <1>7, <1>8, <1>9 DEF Next

\* Every variable of the streams, the loop and the refresh keeps its type.
THEOREM RefreshTypeCorrect == Spec => []RefreshTypeOK
  <1>1. RefreshTypes => RefreshTypeOK
    BY StreamTypesAreTypes DEF RefreshTypes, RefreshTypeOK
  <1> QED BY <1>1, InitTyped, NextTyped, PTL DEF Spec

(***************************************************************************)
(* The books of the loop                                                   *)
(***************************************************************************)

\* A book is of the connection that is open, or it is not used: Kalshi's are emptied when one opens, and the loop empties
\* those of pmus and forgets the fresh legs when it reads that one has ended.
BooksCurrent ==
  /\ \A t \in Tickers : kBooks[t] \in {0, conn[Kalshi]}
  /\ fresh[Kalshi] # {} => told[Kalshi] < conn[Kalshi]
  /\ \A s \in Slugs : pmBooks[s] # 0 => told[Pmus] < pmBooks[s]

StreamsOrdered == QueueOrdered /\ BooksCurrent

\* The counters of connections of a typed state.
LEMMA CountersTyped ==
  ASSUME StreamTypes
  PROVE  /\ conn \in Counters /\ told \in Counters /\ events \in Seq(Event)
         /\ conn[Kalshi] \in Nat /\ conn[Pmus] \in Nat /\ told[Kalshi] \in Nat /\ told[Pmus] \in Nat
  <1>1. conn = [v \in Venues |-> conn[v]] /\ told = [v \in Venues |-> told[v]]
    BY DEF StreamTypes, LinkTypes, LoopTypes, OfVenues
  <1>2. \A v \in Venues : conn[v] \in Nat /\ told[v] \in Nat
    BY DEF StreamTypes, LinkTypes, LoopTypes
  <1> QED BY <1>1, <1>2, KeysOfVenues DEF Counters, StreamTypes, EventTypes

\* A step of the stream tasks keeps the queue in order and the books of their connections.
LEMMA StreamStepOrdered ==
  ASSUME StreamTypes, StreamsOrdered, StreamStep
  PROVE  StreamsOrdered'
  <1>0. /\ conn \in Counters /\ told \in Counters /\ events \in Seq(Event) /\ Ordered(events, conn, link, told)
        /\ conn[Kalshi] \in Nat /\ conn[Pmus] \in Nat /\ told[Kalshi] \in Nat /\ told[Pmus] \in Nat
        /\ BooksCurrent
    BY CountersTyped DEF StreamsOrdered, QueueOrdered
  <1>1. /\ UNCHANGED <<events, conn, link, told>> => QueueOrdered'
        /\ UNCHANGED <<kBooks, conn, loopVars>> => BooksCurrent'
    BY <1>0 DEF QueueOrdered, Ordered, BooksCurrent, loopVars
  <1>2. ASSUME NEW v \in Venues, Ends(v), UNCHANGED <<conn, told>> PROVE QueueOrdered'
    <2>1. /\ Reconnect(v, conn[v]) \in Event /\ Ended(Reconnect(v, conn[v]))
          /\ Reconnect(v, conn[v]).venue = v /\ Reconnect(v, conn[v]).conn = conn[v]
      BY <1>0, EventsTyped DEF Reconnect, Counters
    <2>2. link'[v] = "down" /\ \A w \in Venues : w # v => link'[w] = link[w]
      BY <1>2 DEF Ends, StreamTypes, LinkTypes, OfVenues
    <2>3. Ordered(Append(events, Reconnect(v, conn[v])), conn, link', told)
      BY <1>0, <2>1, <2>2, EndKeepsOrder
    <2>4. events' = Append(events, Reconnect(v, conn[v])) /\ conn' = conn /\ told' = told
      BY <1>2 DEF Ends
    <2> QED BY <2>3, <2>4 DEF QueueOrdered
  <1>3. ASSUME NEW v \in Venues, NEW k \in Tickers \cup Slugs, link[v] # "down",
               events' = Append(events, Frame(v, k, conn[v])), UNCHANGED <<conn, link, told>>
        PROVE  QueueOrdered'
    <2>1. /\ Frame(v, k, conn[v]) \in Event /\ ~ Ended(Frame(v, k, conn[v]))
          /\ Frame(v, k, conn[v]).venue = v /\ Frame(v, k, conn[v]).conn = conn[v]
      BY <1>0, EventsTyped DEF Frame, Counters
    <2>2. Ordered(Append(events, Frame(v, k, conn[v])), conn, link, told)
      BY <1>0, <1>3, <2>1, FrameKeepsOrder
    <2> QED BY <1>3, <2>2 DEF QueueOrdered
  <1>4. ASSUME NEW v \in Venues, Connect(v) PROVE StreamsOrdered'
    <2>1. /\ conn'[v] = conn[v] + 1 /\ \A w \in Venues \ {v} : conn'[w] = conn[w]
          /\ \A w \in Venues \ {v} : link'[w] = link[w]
          /\ told' = told /\ events' = events /\ fresh' = fresh /\ pmBooks' = pmBooks
      BY <1>4 DEF Connect, StreamTypes, LinkTypes, OfVenues, loopVars
    <2>2. conn' \in Counters
      BY <1>0, <1>4 DEF Connect, Counters
    <2>3. Ordered(events, conn', link', told)
      BY <1>0, <2>1, <2>2, ConnectKeepsOrder
    <2>4. kBooks' = [t \in Tickers |-> 0] \/ (kBooks' = kBooks /\ conn'[Kalshi] = conn[Kalshi])
      BY <1>4, <2>1, KeysOfVenues DEF Connect, Emptied
    <2>5. told[Kalshi] < conn[Kalshi] => told[Kalshi] < conn'[Kalshi]
      BY <1>0, <2>1, KeysOfVenues
    <2>6. BooksCurrent'
      BY <1>0, <2>1, <2>4, <2>5 DEF BooksCurrent
    <2> QED BY <2>1, <2>3, <2>6 DEF StreamsOrdered, QueueOrdered
  <1>5. ASSUME NEW v \in Venues, SubscribeFails(v) PROVE StreamsOrdered'
    <2>1. kBooks' = [t \in Tickers |-> 0] \/ kBooks' = kBooks
      BY <1>5 DEF SubscribeFails, Emptied
    <2>2. BooksCurrent'
      BY <1>0, <1>5, <2>1 DEF SubscribeFails, BooksCurrent, linkVars, loopVars
    <2> QED BY <1>1, <1>5, <2>2 DEF SubscribeFails, StreamsOrdered, linkVars, loopVars
  <1>6. ASSUME NEW v \in Venues, ConnectFails(v) \/ Drop(v) \/ (KalshiUpdateCycles /\ v = Kalshi)
        PROVE  StreamsOrdered'
    <2>1. Ends(v) /\ UNCHANGED <<conn, kBooks, loopVars>>
      BY <1>6 DEF ConnectFails, Drop, KalshiUpdateCycles
    <2> QED BY <1>1, <1>2, <2>1 DEF StreamsOrdered, loopVars
  <1>7. CASE Acked \/ FrameLost \/ KalshiUpdate
    BY <1>1, <1>7 DEF Acked, FrameLost, KalshiUpdate, StreamsOrdered, loopVars
  <1>8. CASE GapSeen
    <2> DEFINE e == SeqGap(conn[Kalshi])
               f == Reconnect(Kalshi, conn[Kalshi])
    <2>1. /\ e \in Event /\ Ended(e) /\ e.venue = Kalshi /\ e.conn = conn[Kalshi]
          /\ f \in Event /\ Ended(f) /\ f.venue = Kalshi /\ f.conn = conn[Kalshi]
      BY <1>0, EventsTyped, KeysOfVenues DEF Reconnect, SeqGap
    <2>2. /\ link'[Kalshi] = "down" /\ \A w \in Venues : w # Kalshi => link'[w] = link[w]
          /\ conn' = conn /\ told' = told /\ kBooks' = kBooks /\ UNCHANGED loopVars
          /\ events' = events \o <<e, f>>
      BY <1>8, KeysOfVenues DEF GapSeen, StreamTypes, LinkTypes, OfVenues, loopVars
    <2> HIDE DEF e, f
    <2>3. Append(events, e) \in Seq(Event) /\ events \o <<e, f>> = Append(Append(events, e), f)
      BY <1>0, <2>1
    <2>4. Ordered(Append(events, e), conn, link', told)
      BY <1>0, <2>1, <2>2, EndKeepsOrder
    <2>5. Ordered(Append(Append(events, e), f), conn, link', told)
      BY <1>0, <2>1, <2>2, <2>3, <2>4, EndKeepsOrder
    <2>6. QueueOrdered'
      BY <2>2, <2>3, <2>5 DEF QueueOrdered
    <2> QED BY <1>1, <2>2, <2>6 DEF StreamsOrdered
  <1>9. ASSUME NEW t \in Tickers, KalshiSnapshot(t) PROVE StreamsOrdered'
    <2>1. QueueOrdered'
      BY <1>3, <1>9, KeysOfVenues DEF KalshiSnapshot, loopVars
    <2>2. kBooks' = [kBooks EXCEPT ![t] = conn[Kalshi]] /\ UNCHANGED <<conn, loopVars>>
      BY <1>9 DEF KalshiSnapshot
    <2>3. BooksCurrent'
      BY <1>0, <2>2 DEF BooksCurrent, StreamTypes, BookTypes, loopVars
    <2> QED BY <2>1, <2>3 DEF StreamsOrdered
  <1>10. ASSUME NEW t \in Tickers, KalshiDelta(t) PROVE StreamsOrdered'
    <2>1. QueueOrdered'
      BY <1>3, <1>10, KeysOfVenues DEF KalshiDelta, loopVars, linkVars
    <2> QED BY <1>1, <1>10, <2>1 DEF StreamsOrdered, KalshiDelta, linkVars
  <1>11. ASSUME NEW s \in Slugs, PmusFrame(s) PROVE StreamsOrdered'
    <2>1. QueueOrdered'
      BY <1>3, <1>11, KeysOfVenues DEF PmusFrame, loopVars, linkVars
    <2> QED BY <1>1, <1>11, <2>1 DEF StreamsOrdered, PmusFrame, linkVars
  <1>12. CASE PmusUpdate
    <2>1. \A w \in Venues : link'[w] # "down" => link[w] # "down"
      BY <1>12, KeysOfVenues DEF PmusUpdate, StreamTypes, LinkTypes, OfVenues
    <2>2. Ordered(events, conn, link', told)
      BY <1>0, <2>1, BreakKeepsOrder
    <2> QED BY <1>1, <1>12, <2>2 DEF PmusUpdate, StreamsOrdered, QueueOrdered, loopVars
  <1> QED BY <1>4, <1>5, <1>6, <1>7, <1>8, <1>9, <1>10, <1>11, <1>12, KeysOfVenues DEF StreamStep

\* What reading an event does to the connections the loop knows to have ended and to the Kalshi books.
LEMMA HandleReads ==
  ASSUME Handle
  PROVE  events # <<>> /\ events' = Tail(events) /\ kBooks' = kBooks /\ conn' = conn /\ link' = link
         /\ (Head(events).type = "Frame" => told' = told)
  BY DEF Handle, HandleKalshi, HandlePmus, HandleReconnect, HandleSeqGap, Pops, linkVars

\* A step of the loop does: an end is read before the frames of the next connection.
LEMMA HandleOrdered ==
  ASSUME StreamTypes, StreamsOrdered, Handle
  PROVE  StreamsOrdered'
  <1>0. /\ conn \in Counters /\ told \in Counters /\ events \in Seq(Event) /\ Ordered(events, conn, link, told)
        /\ conn[Kalshi] \in Nat /\ conn[Pmus] \in Nat /\ told[Kalshi] \in Nat /\ told[Pmus] \in Nat
        /\ BooksCurrent
    BY CountersTyped DEF StreamsOrdered, QueueOrdered
  <1>1. events # <<>> /\ events' = Tail(events) /\ kBooks' = kBooks /\ conn' = conn /\ link' = link
    BY HandleReads
  <1> DEFINE e == Head(events)
  <1>2. e \in Event /\ e.venue \in Venues /\ e.conn \in Nat /\ e.conn <= conn[e.venue]
        /\ (~ Ended(e) => told[e.venue] < e.conn)
    <2>1. e \in Event /\ e = events[1] /\ 1 \in 1..Len(events)
      BY <1>0, <1>1, Popped
    <2> HIDE DEF e
    <2> QED BY <1>0, <2>1, EventFields DEF Ordered
  <1> HIDE DEF e
  <1>3. \A t \in Tickers : kBooks'[t] \in {0, conn'[Kalshi]}
    BY <1>0, <1>1 DEF BooksCurrent
  <1>4. ASSUME NEW t \in Tickers, HandleKalshi(t) PROVE StreamsOrdered'
    <2>1. e.venue = Kalshi /\ ~ Ended(e) /\ told' = told /\ pmBooks' = pmBooks
      BY <1>4 DEF HandleKalshi, Pops, Ended, e
    <2>2. QueueOrdered'
      BY <1>0, <1>1, <2>1, FrameReadKeepsOrder DEF QueueOrdered
    <2>3. BooksCurrent'
      BY <1>0, <1>1, <1>2, <1>3, <2>1 DEF BooksCurrent
    <2> QED BY <2>2, <2>3 DEF StreamsOrdered
  <1>5. ASSUME NEW s \in Slugs, HandlePmus(s) PROVE StreamsOrdered'
    <2>1. e.venue = Pmus /\ ~ Ended(e) /\ told' = told /\ fresh'[Kalshi] = fresh[Kalshi]
      BY <1>5, KeysOfVenues DEF HandlePmus, Pops, Ended, e, StreamTypes, LoopTypes, OfVenues
    <2>2. \A u \in Slugs : pmBooks'[u] \in {0, pmBooks[u], e.conn}
      BY <1>5 DEF HandlePmus, e, StreamTypes, LoopTypes
    <2>3. QueueOrdered'
      BY <1>0, <1>1, <2>1, FrameReadKeepsOrder DEF QueueOrdered
    <2>4. BooksCurrent'
      BY <1>0, <1>1, <1>2, <1>3, <2>1, <2>2 DEF BooksCurrent
    <2> QED BY <2>3, <2>4 DEF StreamsOrdered
  <1>6. ASSUME NEW v \in Venues, HandleReconnect(v) \/ (HandleSeqGap /\ v = Kalshi) PROVE StreamsOrdered'
    <2>1. e.venue = v /\ Ended(e) /\ told'[v] = e.conn /\ \A w \in Venues : w # v => told'[w] = told[w]
      BY <1>6 DEF HandleReconnect, HandleSeqGap, Pops, Ended, e, StreamTypes, LoopTypes, OfVenues
    <2>2. fresh'[v] = {} /\ \A w \in Venues : w # v => fresh'[w] = fresh[w]
      BY <1>6 DEF HandleReconnect, HandleSeqGap, StreamTypes, LoopTypes, OfVenues
    <2>3. pmBooks' = pmBooks \/ pmBooks' = [s \in Slugs |-> 0]
      BY <1>6 DEF HandleReconnect, HandleSeqGap
    <2>4. v = Pmus => pmBooks' = [s \in Slugs |-> 0]
      BY <1>6, KeysOfVenues DEF HandleReconnect
    <2>5. Ordered(Tail(events), conn, link, told')
      BY <1>0, <1>1, <2>1, EndReadKeepsOrder DEF e
    <2>6. QueueOrdered'
      BY <1>1, <2>5 DEF QueueOrdered
    <2>7. BooksCurrent'
      BY <1>0, <1>1, <1>3, <2>1, <2>2, <2>3, <2>4, KeysOfVenues DEF BooksCurrent
    <2> QED BY <2>6, <2>7 DEF StreamsOrdered
  <1> QED BY <1>4, <1>5, <1>6, KeysOfVenues DEF Handle

RefreshOrdered == RefreshTypes /\ StreamsOrdered

\* The queue is empty and no book is built before the streams have connected.
LEMMA InitOrdered == Init => StreamsOrdered
  <1> SUFFICES ASSUME Init PROVE StreamsOrdered
    OBVIOUS
  <1>1. QueueOrdered
    BY DEF Init, InitWith, QueueOrdered, Ordered
  <1>2. BooksCurrent
    BY KeysOfVenues DEF Init, InitWith, BooksCurrent
  <1> QED BY <1>1, <1>2 DEF StreamsOrdered

\* Every step keeps the queue in order and the books of their connections.
LEMMA NextOrdered == RefreshOrdered /\ [Next]_allVars => StreamsOrdered'
  <1> SUFFICES ASSUME RefreshTypes, StreamsOrdered, [Next]_allVars PROVE StreamsOrdered'
    BY DEF RefreshOrdered
  <1>0. StreamTypes
    BY DEF RefreshTypes
  <1>1. UNCHANGED <<linkVars, kBooks, events, loopVars>> => StreamsOrdered'
    BY DEF StreamsOrdered, QueueOrdered, Ordered, BooksCurrent, linkVars, loopVars
  <1>2. CASE UNCHANGED allVars
    BY <1>1, <1>2 DEF allVars, vars
  <1>3. CASE StreamStep
    BY <1>0, <1>3, StreamStepOrdered
  <1>4. CASE Step
    BY <1>0, <1>4, HandleOrdered DEF Step
  <1>5. CASE Free
    <2>1. \A t \in Tickers : kBooks'[t] \in {0, kBooks[t]}
      BY <1>5 DEF Free
    <2>2. BooksCurrent'
      BY <1>5, <2>1 DEF Free, StreamsOrdered, BooksCurrent, linkVars, loopVars
    <2>3. QueueOrdered'
      BY <1>5 DEF Free, StreamsOrdered, QueueOrdered, Ordered, linkVars, loopVars
    <2> QED BY <2>2, <2>3 DEF StreamsOrdered
  <1>6. CASE Apply \/ Send
    BY <1>1, <1>6 DEF Apply, Send
  <1>7. ASSUME NEW listed, NEW truncated, Pull(listed, truncated) PROVE StreamsOrdered'
    BY <1>1, <1>7 DEF Pull, vars
  <1>8. ASSUME NEW s, Resolve(s) \/ Unwind(s) PROVE StreamsOrdered'
    BY <1>1, <1>8 DEF Resolve, Unwind, vars
  <1> QED BY <1>2, <1>3, <1>4, <1>5, <1>6, <1>7, <1>8 DEF Next

\* The order of the queue is an invariant of the specification.
LEMMA AlwaysOrdered == Spec => []RefreshOrdered
  <1>1. Init => RefreshOrdered
    BY InitTyped, InitOrdered DEF RefreshOrdered
  <1>2. RefreshOrdered /\ [Next]_allVars => RefreshOrdered'
    BY NextTyped, NextOrdered DEF RefreshOrdered
  <1> QED BY <1>1, <1>2, PTL DEF Spec

\* Only the loop takes an event off the queue.
LEMMA OnlyHandlePops ==
  ASSUME EventTypes, [Next]_allVars, events # <<>>, events' = Tail(events)
  PROVE  Handle
  <1>1. Len(events) \in Nat \ {0} /\ Len(Tail(events)) = Len(events) - 1 /\ events' # events
    BY Popped DEF EventTypes
  <1>2. ASSUME NEW q, NEW n \in Nat, Len(q) = Len(events) + n PROVE q # Tail(events)
    <2> DEFINE p == Tail(events)
               k == Len(events)
    <2>1. k \in Nat /\ Len(p) = k - 1 /\ Len(q) = k + n
      BY <1>1, <1>2
    <2> HIDE DEF p, k
    <2>2. k + n # k - 1
      BY <2>1
    <2>3. Len(q) # Len(p)
      BY <2>1, <2>2, Zenon
    <2> QED BY <2>3, Zenon DEF p
  <1>3. ASSUME NEW e PROVE Append(events, e) # Tail(events)
    <2>1. events \in Seq(Event \cup {e})
      BY SeqMonotonic DEF EventTypes
    <2>2. Len(Append(events, e)) = Len(events) + 1
      BY <2>1
    <2> QED BY <1>2, <2>2
  <1>0. ASSUME NEW e, NEW f PROVE events \o <<e, f>> # Tail(events)
    <2>1. events \in Seq(Event \cup {e, f}) /\ <<e, f>> \in Seq(Event \cup {e, f})
      BY SeqMonotonic DEF EventTypes
    <2>2. Len(events \o <<e, f>>) = Len(events) + 2
      BY <2>1, ConcatProperties
    <2> QED BY <1>2, <2>2
  <1>4. ~ StreamStep
    BY <1>0, <1>1, <1>3 DEF StreamStep, Connect, SubscribeFails, ConnectFails, Drop, Acked, FrameLost,
         GapSeen, KalshiSnapshot, KalshiDelta, PmusFrame, KalshiUpdate, KalshiUpdateCycles, PmusUpdate, Ends
  <1>5. ~ UNCHANGED allVars /\ ~ Apply /\ ~ Free /\ ~ Send
    BY <1>1 DEF allVars, vars, Apply, Free, Send
  <1>6. \A listed, truncated : ~ Pull(listed, truncated)
    BY <1>1 DEF Pull, vars
  <1>7. \A s : ~ Resolve(s) /\ ~ Unwind(s)
    BY <1>1 DEF Resolve, Unwind, vars
  <1> QED BY <1>4, <1>5, <1>6, <1>7 DEF Next, Step

\* What a frame turns into a quote was rebuilt since the last end of a connection the loop has read, at both venues: whatever
\* still waits in its queue, whatever the refresh frees, and whichever venues drop meanwhile (live.rs 573-585).
THEOREM QuotesAlwaysRebuilt == Spec => QuotesRebuilt
  <1> DEFINE Rebuilt == \A s \in Slugs :
               Touches(s) /\ events' = Tail(events) /\ Quotable(s)' =>
                 /\ pmBooks'[s] > told[Pmus]
                 /\ \A t \in TickersOf[s] : kBooks[t] > told[Kalshi]
  <1>1. RefreshOrdered /\ RefreshOrdered' /\ [Next]_allVars => [Rebuilt]_allVars
    <2> SUFFICES ASSUME RefreshOrdered, RefreshOrdered', [Next]_allVars,
                        NEW s \in Slugs, Touches(s), events' = Tail(events), Quotable(s)'
                 PROVE  /\ pmBooks'[s] > told[Pmus]
                        /\ \A t \in TickersOf[s] : kBooks[t] > told[Kalshi]
      OBVIOUS
    <2>1. Handle
      BY OnlyHandlePops DEF Touches, RefreshOrdered, RefreshTypes, StreamTypes
    <2>2. told' = told /\ kBooks' = kBooks /\ conn' = conn
      BY <2>1, HandleReads DEF Touches
    <2>3. TickersOf[s] # {} /\ TickersOf[s] \subseteq Tickers
      BY StreamsAssumption
    <2>4. /\ TickersOf[s] \subseteq fresh'[Kalshi] /\ pmBooks'[s] # 0 /\ \A t \in TickersOf[s] : kBooks'[t] # 0
      BY DEF Quotable, AllLegsFresh
    <2>5. /\ \A t \in Tickers : kBooks'[t] \in {0, conn'[Kalshi]}
          /\ fresh'[Kalshi] # {} => told'[Kalshi] < conn'[Kalshi]
          /\ pmBooks'[s] # 0 => told'[Pmus] < pmBooks'[s]
      BY DEF RefreshOrdered, StreamsOrdered, BooksCurrent
    <2>6. pmBooks'[s] \in Nat /\ conn[Kalshi] \in Nat /\ told[Kalshi] \in Nat /\ told[Pmus] \in Nat
      BY CountersTyped DEF RefreshOrdered, RefreshTypes, StreamTypes, LoopTypes
    <2> QED BY <2>2, <2>3, <2>4, <2>5, <2>6
  <1> QED BY <1>1, AlwaysOrdered, PTL DEF Spec, QuotesRebuilt

(***************************************************************************)
(* What the connections carry                                              *)
(*                                                                         *)
(* The updates still to come of a venue are those in its channel and, from *)
(* the change of the tracked sets until it is sent, the one of the refresh *)
(* under way.  The last of them that speaks of a ticker has the last word: *)
(* it is an add exactly when the ticker is tracked.  Of a ticker no update *)
(* speaks of, the connection already carries what is tracked.              *)
(***************************************************************************)

Coming(v) == IF stage \in {"free", "send"} THEN updates[v] \o Update(v) ELSE updates[v]

Says(u, k) == k \in u.add \cup u.del

Unsaid(q, k) == \A i \in 1..Len(q) : ~ Says(q[i], k)

\* The last update that speaks of the ticker k.
LastWord(q, k, i) == Says(q[i], k) /\ \A j \in 1..Len(q) : i < j => ~ Says(q[j], k)

LastWordHolds(q, tr) == \A k \in Tickers, i \in 1..Len(q) : LastWord(q, k, i) => (k \in tr <=> k \notin q[i].del)

Carries(q, w, tr) == \A k \in Tickers : Unsaid(q, k) => (k \in w <=> k \in tr)

\* Pmus is never unsubscribed: what is tracked is on the connection or still to be added.
Covers(q, w, tr) == \A k \in tr : k \in w \/ \E i \in 1..Len(q) : k \in q[i].add

WireCatchesUp ==
  /\ LastWordHolds(Coming(Kalshi), tracked[Kalshi])
  /\ link[Kalshi] = "up" => Carries(Coming(Kalshi), wire[Kalshi], tracked[Kalshi])
  /\ link[Pmus] = "up" => Covers(Coming(Pmus), wire[Pmus], tracked[Pmus])

\* An update is taken: the last word of the others stands.
LEMMA TakenKeepsLastWord ==
  ASSUME NEW T, NEW q \in Seq(T), q # <<>>, NEW tr, LastWordHolds(q, tr)
  PROVE  LastWordHolds(Tail(q), tr)
  <1>1. /\ Len(q) \in Nat \ {0} /\ Len(Tail(q)) = Len(q) - 1
        /\ \A i \in 1..Len(Tail(q)) : Tail(q)[i] = q[i + 1] /\ i + 1 \in 1..Len(q)
    BY Popped
  <1> DEFINE r == Tail(q)
  <1> SUFFICES ASSUME NEW k \in Tickers, NEW i \in 1..Len(r), LastWord(r, k, i)
               PROVE  k \in tr <=> k \notin r[i].del
    BY DEF LastWordHolds
  <1> HIDE DEF r
  <1>2. r[i] = q[i + 1] /\ i + 1 \in 1..Len(q)
    BY <1>1 DEF r
  <1>3. ASSUME NEW j \in 1..Len(q), i + 1 < j PROVE ~ Says(q[j], k)
    <2>1. j - 1 \in 1..Len(r) /\ i < j - 1
      BY <1>1, <1>3 DEF r
    <2>2. r[j - 1] = q[j]
      BY <1>1, <2>1 DEF r
    <2> QED BY <2>1, <2>2 DEF LastWord
  <1>4. LastWord(q, k, i + 1)
    BY <1>2, <1>3 DEF LastWord
  <1> QED BY <1>2, <1>4 DEF LastWordHolds

\* Kalshi takes an update: of the tickers the others do not speak of, its connection carries what is tracked.
LEMMA TakenCarries ==
  ASSUME NEW T, NEW q \in Seq(T), q # <<>>, NEW tr, NEW w, LastWordHolds(q, tr), Carries(q, w, tr)
  PROVE  Carries(Tail(q), (w \cup Head(q).add) \ Head(q).del, tr)
  <1>1. /\ Len(q) \in Nat \ {0} /\ Len(Tail(q)) = Len(q) - 1 /\ Head(q) = q[1]
        /\ \A i \in 1..Len(Tail(q)) : Tail(q)[i] = q[i + 1]
    BY Popped
  <1> SUFFICES ASSUME NEW k \in Tickers, Unsaid(Tail(q), k)
               PROVE  k \in (w \cup q[1].add) \ q[1].del <=> k \in tr
    BY <1>1 DEF Carries
  <1>2. ASSUME NEW j \in 1..Len(q), 1 < j PROVE ~ Says(q[j], k)
    <2>1. j - 1 \in 1..Len(Tail(q)) /\ (j - 1) + 1 = j
      BY <1>1, <1>2
    <2>2. Tail(q)[j - 1] = q[j]
      BY <1>1, <2>1
    <2> QED BY <2>1, <2>2 DEF Unsaid
  <1>3. 1 \in 1..Len(q)
    BY <1>1
  <1>4. CASE Says(q[1], k)
    <2>1. LastWord(q, k, 1)
      BY <1>2, <1>4 DEF LastWord
    <2>2. k \in tr <=> k \notin q[1].del
      BY <1>3, <2>1 DEF LastWordHolds
    <2> QED BY <1>4, <2>2 DEF Says
  <1>5. CASE ~ Says(q[1], k)
    <2>1. Unsaid(q, k)
      <3>1. \A j \in 1..Len(q) : j = 1 \/ 1 < j
        BY <1>1
      <3> QED BY <1>2, <1>5, <3>1 DEF Unsaid
    <2> QED BY <1>5, <2>1 DEF Carries, Says
  <1> QED BY <1>4, <1>5

\* Pmus takes an update.
LEMMA TakenCovers ==
  ASSUME NEW T, NEW q \in Seq(T), q # <<>>, NEW tr, NEW w, Covers(q, w, tr)
  PROVE  Covers(Tail(q), w \cup Head(q).add, tr)
  <1>1. /\ Len(q) \in Nat \ {0} /\ Len(Tail(q)) = Len(q) - 1 /\ Head(q) = q[1]
        /\ \A i \in 1..Len(Tail(q)) : Tail(q)[i] = q[i + 1]
    BY Popped
  <1> SUFFICES ASSUME NEW k \in tr, k \notin w, k \notin q[1].add
               PROVE  \E i \in 1..Len(Tail(q)) : k \in Tail(q)[i].add
    BY <1>1 DEF Covers
  <1>2. PICK j \in 1..Len(q) : k \in q[j].add
    BY DEF Covers
  <1>3. j # 1
    BY <1>2
  <1>4. j - 1 \in 1..Len(Tail(q)) /\ (j - 1) + 1 = j
    BY <1>1, <1>3
  <1>5. Tail(q)[j - 1] = q[j]
    BY <1>1, <1>4
  <1> QED BY <1>2, <1>4, <1>5

\* The tracked tickers change, and the update that says so is the last to come.
LEMMA ChangeKeepsLastWord ==
  ASSUME NEW T, NEW q \in Seq(T), NEW u \in T, NEW tr, LastWordHolds(q, tr)
  PROVE  LastWordHolds(Append(q, u), (tr \cup u.add) \ u.del)
  <1> DEFINE r == Append(q, u)
             n == Len(q) + 1
  <1>1. Len(q) \in Nat /\ Len(r) = n /\ r[n] = u /\ \A i \in 1..Len(q) : r[i] = q[i]
    BY Appended
  <1> SUFFICES ASSUME NEW k \in Tickers, NEW i \in 1..Len(r), LastWord(r, k, i)
               PROVE  k \in (tr \cup u.add) \ u.del <=> k \notin r[i].del
    BY DEF LastWordHolds
  <1> HIDE DEF r
  <1>2. CASE i = n
    BY <1>1, <1>2 DEF LastWord, Says
  <1>3. CASE i \in 1..Len(q)
    <2>1. n \in 1..Len(r) /\ i < n
      BY <1>1, <1>3
    <2>2. ~ Says(u, k)
      BY <1>1, <2>1 DEF LastWord
    <2>3. LastWord(q, k, i)
      <3>1. \A j \in 1..Len(q) : j \in 1..Len(r) /\ r[j] = q[j]
        BY <1>1
      <3> QED BY <1>3, <3>1 DEF LastWord
    <2> QED BY <1>1, <1>3, <2>2, <2>3 DEF LastWordHolds, Says
  <1> QED BY <1>1, <1>2, <1>3

\* The tracked keys change: what the connection carries is unchanged, and the update to come makes up for it.
LEMMA ChangeCarries ==
  ASSUME NEW T, NEW q \in Seq(T), NEW u \in T, NEW tr, NEW w
  PROVE  /\ Carries(q, w, tr) => Carries(Append(q, u), w, (tr \cup u.add) \ u.del)
         /\ \A S : Covers(q, w, tr) => Covers(Append(q, u), w, (tr \cup u.add) \ S)
  <1> DEFINE r == Append(q, u)
             n == Len(q) + 1
  <1>1. Len(q) \in Nat /\ Len(r) = n /\ r[n] = u /\ \A i \in 1..Len(q) : r[i] = q[i]
    BY Appended
  <1>2. n \in 1..Len(r) /\ \A i \in 1..Len(q) : i \in 1..Len(r)
    BY <1>1
  <1> HIDE DEF r, n
  <1>3. Carries(q, w, tr) => Carries(r, w, (tr \cup u.add) \ u.del)
    BY <1>1, <1>2 DEF Carries, Unsaid, Says
  <1>4. \A S : Covers(q, w, tr) => Covers(r, w, (tr \cup u.add) \ S)
    BY <1>1, <1>2 DEF Covers
  <1> QED BY <1>3, <1>4 DEF r

\* The update of the refresh under way is a queue of at most one, behind the others.
LEMMA ComingTyped ==
  ASSUME StreamTypes, change \in [add : SUBSET Slugs, del : SUBSET Slugs], NEW v \in Venues
  PROVE  /\ updates[v] \in Seq(SubUpdate(v)) /\ Coming(v) \in Seq(SubUpdate(v))
         /\ updates[v] # <<>> =>
              Coming(v) # <<>> /\ Head(Coming(v)) = Head(updates[v])
              /\ (UNCHANGED <<stage, change>> /\ updates'[v] = Tail(updates[v]) => Coming(v)' = Tail(Coming(v)))
  <1> DEFINE q == updates[v]
             u == [add |-> KeysOf(v, change.add), del |-> IF v = Kalshi THEN KeysOf(v, change.del) ELSE {}]
  <1>1. q \in Seq(SubUpdate(v))
    BY DEF StreamTypes, ChannelTypes
  <1>2. u \in SubUpdate(v)
    BY UpdateTyped DEF SubUpdate
  <1>3. Update(v) \in {<<>>, <<u>>}
    BY DEF Update
  <1>4. Coming(v) \in {q, q \o <<u>>}
    <2>1. q \o <<>> = q
      BY <1>1
    <2> QED BY <1>3, <2>1, Zenon DEF Coming
  <1>5. UNCHANGED <<stage, change>> => Coming(v)' = IF stage \in {"free", "send"} THEN updates'[v] \o Update(v)
                                                    ELSE updates'[v]
    BY DEF Coming, Update
  <1> HIDE DEF q, u
  <1>6. q \o <<u>> = Append(q, u) /\ Append(q, u) \in Seq(SubUpdate(v))
    BY <1>1, <1>2
  <1>7. ASSUME q # <<>>
        PROVE  /\ Append(q, u) # <<>> /\ Head(Append(q, u)) = Head(q) /\ Tail(Append(q, u)) = Append(Tail(q), u)
               /\ Tail(q) \o <<u>> = Append(Tail(q), u) /\ Tail(q) \o <<>> = Tail(q) /\ q \o <<>> = q
    <2>1. Tail(q) \in Seq(SubUpdate(v))
      BY <1>1, <1>7
    <2>2. Append(q, u) # <<>> /\ Tail(q) \o <<u>> = Append(Tail(q), u) /\ Tail(q) \o <<>> = Tail(q) /\ q \o <<>> = q
      BY <1>1, <1>2, <2>1
    <2> QED BY <1>1, <1>7, <2>2, HeadTailAppend
  <1>8. ASSUME q # <<>>, UNCHANGED <<stage, change>>, updates'[v] = Tail(q) PROVE Coming(v)' = Tail(Coming(v))
    <2>1. CASE stage \in {"free", "send"}
      <3>1. Coming(v)' = Tail(q) \o Update(v) /\ Coming(v) = q \o Update(v)
        BY <1>5, <1>8, <2>1 DEF Coming, q
      <3> QED BY <1>3, <1>6, <1>7, <1>8, <3>1
    <2>2. CASE stage \notin {"free", "send"}
      BY <1>5, <1>8, <2>2 DEF Coming, q
    <2> QED BY <2>1, <2>2
  <1> QED BY <1>1, <1>4, <1>6, <1>7, <1>8 DEF q

\* A step of the stream tasks takes what it is told, or will subscribe to all of it again.
LEMMA StreamStepCatchesUp ==
  ASSUME RefreshTypes, WireCatchesUp, StreamStep, UNCHANGED <<refreshVars, entryVars>>
  PROVE  WireCatchesUp'
  <1>0. /\ StreamTypes /\ change \in [add : SUBSET Slugs, del : SUBSET Slugs] /\ UNCHANGED <<stage, change>>
        /\ OfVenues(link) /\ OfVenues(wire)
    BY DEF RefreshTypes, StreamTypes, LinkTypes, refreshVars
  <1> DEFINE K == Coming(Kalshi)
             P == Coming(Pmus)
  <1>1. ASSUME NEW v \in Venues, updates'[v] = updates[v] PROVE Coming(v)' = Coming(v)
    BY <1>0, <1>1 DEF Coming, Update
  <1>2. UNCHANGED updates => Coming(Kalshi)' = Coming(Kalshi) /\ Coming(Pmus)' = Coming(Pmus)
    BY <1>1, KeysOfVenues
  <1>3. ASSUME NEW v \in Venues, Takes(v)
        PROVE  /\ updates[v] # <<>> /\ Coming(v) # <<>> /\ Head(Coming(v)) = Head(updates[v])
               /\ Coming(v)' = Tail(Coming(v)) /\ Coming(v) \in Seq(SubUpdate(v))
               /\ \A w \in Venues : w # v => Coming(w)' = Coming(w)
    <2>1. updates[v] # <<>> /\ updates'[v] = Tail(updates[v]) /\ \A w \in Venues : w # v => updates'[w] = updates[w]
      BY <1>0, <1>3 DEF Takes, StreamTypes, ChannelTypes, OfVenues
    <2> QED BY <1>0, <1>1, <2>1, ComingTyped
  \* Every step but two of Kalshi's and one of pmus leaves the channels alone, and breaks no more than links.
  <1>4. ASSUME UNCHANGED <<tracked, updates>>,
               \A v \in Venues : link'[v] = "up" => wire'[v] = tracked[v] \/ (link[v] = "up" /\ wire'[v] = wire[v])
        PROVE  WireCatchesUp'
    <2>1. LastWordHolds(Coming(Kalshi), tracked[Kalshi])'
      BY <1>2, <1>4 DEF WireCatchesUp, LastWordHolds, LastWord, Says
    <2>2. link'[Kalshi] = "up" => Carries(Coming(Kalshi), wire[Kalshi], tracked[Kalshi])'
      BY <1>2, <1>4, KeysOfVenues DEF WireCatchesUp, Carries, Unsaid, Says
    <2>3. link'[Pmus] = "up" => Covers(Coming(Pmus), wire[Pmus], tracked[Pmus])'
      BY <1>2, <1>4, KeysOfVenues DEF WireCatchesUp, Covers
    <2> QED BY <2>1, <2>2, <2>3 DEF WireCatchesUp
  <1>5. ASSUME NEW v \in Venues, Connect(v) PROVE WireCatchesUp'
    <2>1. UNCHANGED <<tracked, updates>>
      BY <1>5 DEF Connect, pairVars
    <2>2. /\ link' = [link EXCEPT ![v] = "up"] /\ wire' = [wire EXCEPT ![v] = tracked[v]]
      BY <1>5 DEF Connect, Subscribes
    <2>3. \A w \in Venues : link'[w] = "up" => wire'[w] = tracked[w] \/ (link[w] = "up" /\ wire'[w] = wire[w])
      BY <1>0, <2>2 DEF OfVenues
    <2> QED BY <1>4, <2>1, <2>3
  <1>6. ASSUME NEW v \in Venues, ConnectFails(v) \/ Drop(v) PROVE WireCatchesUp'
    <2>1. UNCHANGED <<tracked, updates, wire>> /\ link' = [link EXCEPT ![v] = "down"]
      BY <1>6 DEF ConnectFails, Drop, Ends, pairVars
    <2>2. \A w \in Venues : link'[w] = "up" => wire'[w] = tracked[w] \/ (link[w] = "up" /\ wire'[w] = wire[w])
      BY <1>0, <2>1 DEF OfVenues
    <2> QED BY <1>4, <2>1, <2>2
  <1>7. CASE GapSeen
    <2>1. UNCHANGED <<tracked, updates, wire>> /\ link' = [link EXCEPT ![Kalshi] = "down"]
      BY <1>7 DEF GapSeen, pairVars
    <2>2. \A w \in Venues : link'[w] = "up" => wire'[w] = tracked[w] \/ (link[w] = "up" /\ wire'[w] = wire[w])
      BY <1>0, <2>1, KeysOfVenues DEF OfVenues
    <2> QED BY <1>4, <2>1, <2>2
  <1>8. ASSUME UNCHANGED <<tracked, updates, wire, link>> PROVE WireCatchesUp'
    BY <1>4, <1>8
  <1>9. ASSUME NEW v \in Venues, SubscribeFails(v) PROVE WireCatchesUp'
    BY <1>8, <1>9 DEF SubscribeFails, pairVars, linkVars
  <1>10. CASE Acked \/ FrameLost
    BY <1>8, <1>10 DEF Acked, FrameLost, pairVars
  <1>11. ASSUME NEW t \in Tickers, KalshiSnapshot(t) \/ KalshiDelta(t) PROVE WireCatchesUp'
    BY <1>8, <1>11 DEF KalshiSnapshot, KalshiDelta, pairVars, linkVars
  <1>12. ASSUME NEW s \in Slugs, PmusFrame(s) PROVE WireCatchesUp'
    BY <1>8, <1>12 DEF PmusFrame, pairVars, linkVars
  <1>13. CASE KalshiUpdate
    <2>1. /\ tracked' = tracked /\ link' = link /\ link[Kalshi] = "up" /\ Takes(Kalshi)
          /\ wire'[Kalshi] = (wire[Kalshi] \cup Head(updates[Kalshi]).add) \ Head(updates[Kalshi]).del
          /\ wire'[Pmus] = wire[Pmus]
      BY <1>0, <1>13, KeysOfVenues DEF KalshiUpdate, pairVars, OfVenues
    <2>2. /\ K # <<>> /\ Head(K) = Head(updates[Kalshi]) /\ K' = Tail(K) /\ K \in Seq(SubUpdate(Kalshi)) /\ P' = P
      BY <1>3, <2>1, KeysOfVenues
    <2>3. LastWordHolds(K, tracked[Kalshi]) /\ Carries(K, wire[Kalshi], tracked[Kalshi])
      BY <2>1 DEF WireCatchesUp
    <2>4. LastWordHolds(Tail(K), tracked[Kalshi]) /\ Carries(Tail(K), wire'[Kalshi], tracked[Kalshi])
      BY <2>1, <2>2, <2>3, TakenKeepsLastWord, TakenCarries
    <2>5. link[Pmus] = "up" => Covers(P, wire[Pmus], tracked[Pmus])
      BY DEF WireCatchesUp
    <2> QED BY <2>1, <2>2, <2>4, <2>5 DEF WireCatchesUp, LastWordHolds, LastWord, Says, Carries, Unsaid, Covers
  <1>14. CASE KalshiUpdateCycles
    <2>1. /\ tracked' = tracked /\ wire' = wire /\ link'[Kalshi] = "down" /\ link'[Pmus] = link[Pmus] /\ Takes(Kalshi)
      BY <1>0, <1>14, KeysOfVenues DEF KalshiUpdateCycles, Ends, pairVars, OfVenues
    <2>2. /\ K # <<>> /\ K' = Tail(K) /\ K \in Seq(SubUpdate(Kalshi)) /\ P' = P
      BY <1>3, <2>1, KeysOfVenues
    <2>3. LastWordHolds(Tail(K), tracked[Kalshi])
      BY <2>2, TakenKeepsLastWord DEF WireCatchesUp
    <2>4. link[Pmus] = "up" => Covers(P, wire[Pmus], tracked[Pmus])
      BY DEF WireCatchesUp
    <2> QED BY <2>1, <2>2, <2>3, <2>4 DEF WireCatchesUp, LastWordHolds, LastWord, Says, Covers
  <1>15. CASE PmusUpdate
    <2>1. /\ tracked' = tracked /\ Takes(Pmus) /\ link'[Kalshi] = link[Kalshi] /\ wire'[Kalshi] = wire[Kalshi]
          /\ link'[Pmus] = "up" => link[Pmus] = "up" /\ wire'[Pmus] = wire[Pmus] \cup Head(updates[Pmus]).add
      BY <1>0, <1>15, KeysOfVenues DEF PmusUpdate, pairVars, OfVenues
    <2>2. /\ P # <<>> /\ Head(P) = Head(updates[Pmus]) /\ P' = Tail(P) /\ P \in Seq(SubUpdate(Pmus)) /\ K' = K
      BY <1>3, <2>1, KeysOfVenues
    <2>3. link'[Pmus] = "up" => Covers(Tail(P), wire'[Pmus], tracked[Pmus])
      BY <2>1, <2>2, TakenCovers DEF WireCatchesUp
    <2>4. /\ LastWordHolds(K, tracked[Kalshi])
          /\ link[Kalshi] = "up" => Carries(K, wire[Kalshi], tracked[Kalshi])
      BY DEF WireCatchesUp
    <2> QED BY <2>1, <2>2, <2>3, <2>4 DEF WireCatchesUp, LastWordHolds, LastWord, Says, Carries, Unsaid, Covers
  <1> QED BY <1>5, <1>6, <1>7, <1>9, <1>10, <1>11, <1>12, <1>13, <1>14, <1>15 DEF StreamStep

\* The update a venue's stream is sent unless it says nothing.
Sent(v) == [add |-> KeysOf(v, change.add), del |-> IF v = Kalshi THEN KeysOf(v, change.del) ELSE {}]

\* What is sent of a change is an update of the venue's keys, or nothing.
LEMMA SentTyped ==
  ASSUME change \in [add : SUBSET Slugs, del : SUBSET Slugs], NEW v \in Venues
  PROVE  Sent(v) \in SubUpdate(v) /\ Update(v) = (IF Sent(v).add \cup Sent(v).del = {} THEN <<>> ELSE <<Sent(v)>>)
  <1>1. Sent(v) \in SubUpdate(v)
    BY UpdateTyped DEF Sent, SubUpdate
  <1>2. Sent(v).add = KeysOf(v, change.add) /\ Sent(v).del = IF v = Kalshi THEN KeysOf(v, change.del) ELSE {}
    BY DEF Sent
  <1>3. Update(v) = (IF Sent(v).add \cup Sent(v).del = {} THEN <<>> ELSE <<Sent(v)>>)
    BY <1>2, Zenon DEF Update, Sent
  <1> QED BY <1>1, <1>3

\* What the change of the tracked sets and the update that will tell a stream of it have in common.
LEMMA ApplyCatchesUp ==
  ASSUME RefreshTypes, WireCatchesUp, Apply
  PROVE  WireCatchesUp'
  <1>0. /\ change \in [add : SUBSET Slugs, del : SUBSET Slugs] /\ StreamTypes
        /\ \A v \in Venues : tracked'[v] = (tracked[v] \cup KeysOf(v, change.add)) \ KeysOf(v, change.del)
        /\ UNCHANGED <<updates, wire, link, change>> /\ stage = "apply" /\ stage' = "free"
    BY DEF RefreshTypes, Apply, linkVars
  <1>1. ASSUME NEW v \in Venues
        PROVE  /\ Coming(v) = updates[v] /\ updates[v] \in Seq(SubUpdate(v))
               /\ Coming(v)' = updates[v] \o Update(v)
    BY <1>0, ComingTyped DEF Coming, Update
  <1>2. ASSUME NEW v \in Venues
        PROVE  \/ Coming(v)' = updates[v] /\ Sent(v).add = {} /\ Sent(v).del = {}
               \/ Coming(v)' = Append(updates[v], Sent(v))
    <2> DEFINE w == Sent(v)
               q == updates[v]
    <2>1. w \in SubUpdate(v) /\ Update(v) = (IF w.add \cup w.del = {} THEN <<>> ELSE <<w>>)
      BY <1>0, SentTyped
    <2>2. Coming(v)' = q \o Update(v) /\ q \in Seq(SubUpdate(v))
      BY <1>1
    <2> HIDE DEF w, q
    <2>3. q \o <<>> = q /\ q \o <<w>> = Append(q, w)
      BY <2>1, <2>2
    <2>4. CASE w.add \cup w.del = {}
      <3>1. w.add = {} /\ w.del = {}
        BY <2>4
      <3> QED BY <2>1, <2>2, <2>3, <2>4, <3>1, Zenon DEF w, q
    <2>5. CASE w.add \cup w.del # {}
      BY <2>1, <2>2, <2>3, <2>5, Zenon DEF w, q
    <2> QED BY <2>4, <2>5
  <1>3. LastWordHolds(updates[Kalshi], tracked[Kalshi])
    BY <1>1, KeysOfVenues DEF WireCatchesUp
  <1>4. /\ link[Kalshi] = "up" => Carries(updates[Kalshi], wire[Kalshi], tracked[Kalshi])
        /\ link[Pmus] = "up" => Covers(updates[Pmus], wire[Pmus], tracked[Pmus])
    BY <1>1, KeysOfVenues DEF WireCatchesUp
  <1> DEFINE K == Coming(Kalshi)'
             P == Coming(Pmus)'
  <1>5. /\ LastWordHolds(K, tracked'[Kalshi])
        /\ link[Kalshi] = "up" => Carries(K, wire[Kalshi], tracked'[Kalshi])
    <2> DEFINE w == Sent(Kalshi)
               q == updates[Kalshi]
    <2>1. tracked'[Kalshi] = (tracked[Kalshi] \cup w.add) \ w.del
      BY <1>0, KeysOfVenues DEF Sent
    <2>2. w \in SubUpdate(Kalshi) /\ q \in Seq(SubUpdate(Kalshi))
      BY <1>0, <1>1, SentTyped, KeysOfVenues
    <2>3. (K = q /\ w.add = {} /\ w.del = {}) \/ K = Append(q, w)
      BY <1>2, KeysOfVenues
    <2> HIDE DEF w, q, K
    <2>4. CASE K = q /\ w.add = {} /\ w.del = {}
      <3>1. tracked'[Kalshi] = tracked[Kalshi]
        BY <2>1, <2>4
      <3> QED BY <1>3, <1>4, <2>4, <3>1 DEF q
    <2>5. CASE K = Append(q, w)
      <3>1. LastWordHolds(Append(q, w), (tracked[Kalshi] \cup w.add) \ w.del)
        BY <1>3, <2>2, ChangeKeepsLastWord DEF q
      <3>2. link[Kalshi] = "up" => Carries(Append(q, w), wire[Kalshi], (tracked[Kalshi] \cup w.add) \ w.del)
        BY <1>4, <2>2, ChangeCarries DEF q
      <3> QED BY <2>1, <2>5, <3>1, <3>2
    <2> QED BY <2>3, <2>4, <2>5
  <1>6. link[Pmus] = "up" => Covers(P, wire[Pmus], tracked'[Pmus])
    <2> DEFINE w == Sent(Pmus)
               q == updates[Pmus]
               S == KeysOf(Pmus, change.del)
    <2>1. tracked'[Pmus] = (tracked[Pmus] \cup w.add) \ S
      BY <1>0, KeysOfVenues DEF Sent
    <2>2. w \in SubUpdate(Pmus) /\ q \in Seq(SubUpdate(Pmus))
      BY <1>0, <1>1, SentTyped, KeysOfVenues
    <2>3. (P = q /\ w.add = {}) \/ P = Append(q, w)
      BY <1>2, KeysOfVenues
    <2> HIDE DEF w, q, P, S
    <2>4. CASE P = q /\ w.add = {}
      <3>1. tracked'[Pmus] \subseteq tracked[Pmus]
        BY <2>1, <2>4
      <3> QED BY <1>4, <2>4, <3>1 DEF Covers, q
    <2>5. CASE P = Append(q, w)
      <3>1. link[Pmus] = "up" => Covers(Append(q, w), wire[Pmus], (tracked[Pmus] \cup w.add) \ S)
        BY <1>4, <2>2, ChangeCarries DEF q
      <3> QED BY <2>1, <2>5, <3>1
    <2> QED BY <2>3, <2>4, <2>5
  <1> HIDE DEF K, P
  <1>7. /\ LastWordHolds(K, tracked'[Kalshi])
        /\ link'[Kalshi] = "up" => Carries(K, wire'[Kalshi], tracked'[Kalshi])
        /\ link'[Pmus] = "up" => Covers(P, wire'[Pmus], tracked'[Pmus])
    BY <1>0, <1>5, <1>6
  <1> QED BY <1>7 DEF WireCatchesUp, LastWordHolds, LastWord, Says, Carries, Unsaid, Covers, K, P

\* Every step leaves the connections with what is tracked, or with updates that will say the rest.
LEMMA NextCatchesUp == RefreshTypes /\ WireCatchesUp /\ [Next]_allVars => WireCatchesUp'
  <1> SUFFICES ASSUME RefreshTypes, WireCatchesUp, [Next]_allVars PROVE WireCatchesUp'
    OBVIOUS
  <1>1. ASSUME UNCHANGED <<tracked, wire, link>>, Coming(Kalshi)' = Coming(Kalshi), Coming(Pmus)' = Coming(Pmus)
        PROVE  WireCatchesUp'
    BY <1>1 DEF WireCatchesUp, LastWordHolds, LastWord, Says, Carries, Unsaid, Covers
  <1>2. ASSUME UNCHANGED <<tracked, wire, link, updates, stage, change>> PROVE WireCatchesUp'
    BY <1>1, <1>2 DEF Coming, Update
  <1>3. CASE UNCHANGED allVars
    BY <1>2, <1>3 DEF allVars, vars, pairVars, linkVars, refreshVars
  <1>4. CASE StreamStep /\ UNCHANGED <<refreshVars, entryVars>>
    BY <1>4, StreamStepCatchesUp
  <1>5. CASE Step
    <2>1. UNCHANGED <<pairVars, linkVars, updates>>
      BY <1>5 DEF Step, Handle, HandleKalshi, HandlePmus, HandleReconnect, HandleSeqGap
    <2> QED BY <1>2, <1>5, <2>1 DEF Step, refreshVars, pairVars, linkVars
  <1>6. ASSUME NEW listed, NEW truncated, Pull(listed, truncated) PROVE WireCatchesUp'
    <2>1. UNCHANGED <<tracked, wire, link, updates>> /\ stage = "pull" /\ stage' = "apply"
      BY <1>6 DEF Pull, vars, pairVars, linkVars
    <2> QED BY <1>1, <2>1 DEF Coming
  <1>7. CASE Apply
    BY <1>7, ApplyCatchesUp
  <1>8. CASE Free
    <2>1. UNCHANGED <<tracked, wire, link, updates, change>> /\ stage = "free" /\ stage' = "send"
      BY <1>8 DEF Free, pairVars, linkVars
    <2> QED BY <1>1, <2>1 DEF Coming, Update
  <1>9. CASE Send
    <2>1. UNCHANGED <<tracked, wire, link>> /\ stage = "send" /\ stage' = "pull"
          /\ \A v \in Venues : updates'[v] = updates[v] \o Update(v)
      BY <1>9 DEF Send, pairVars, linkVars
    <2>2. \A v \in Venues : Coming(v)' = Coming(v)
      BY <2>1 DEF Coming
    <2> QED BY <1>1, <2>1, <2>2, KeysOfVenues
  <1>10. ASSUME NEW s, Resolve(s) \/ Unwind(s) PROVE WireCatchesUp'
    BY <1>2, <1>10 DEF Resolve, Unwind, vars, pairVars, linkVars, refreshVars
  <1> QED BY <1>3, <1>4, <1>5, <1>6, <1>7, <1>8, <1>9, <1>10 DEF Next

\* No add or prune is lost to a reconnect, whatever order the refresh, the streams and the venues take their steps in: once
\* a stream has taken its updates, its connection carries what is tracked (venue.rs 272-275).
THEOREM RefreshAlways == Spec => []RefreshInv
  <1>1. Init => RefreshTypes /\ WireCatchesUp
    <2>1. Init => WireCatchesUp
      BY KeysOfVenues DEF Init, InitWith, WireCatchesUp, Coming, LastWordHolds
    <2> QED BY <2>1, InitTyped
  <1>2. RefreshTypes /\ WireCatchesUp /\ [Next]_allVars => (RefreshTypes /\ WireCatchesUp)'
    BY NextTyped, NextCatchesUp
  <1>3. RefreshTypes /\ WireCatchesUp => RefreshInv
    <2> SUFFICES ASSUME RefreshTypes, WireCatchesUp PROVE RefreshInv
      OBVIOUS
    <2>1. RefreshTypeOK
      BY StreamTypesAreTypes DEF RefreshTypes, RefreshTypeOK
    <2>2. tracked[Kalshi] \subseteq Tickers /\ wire[Kalshi] \subseteq Tickers
      BY KeysOfVenues DEF RefreshTypes, StreamTypes, PairTypes, LinkTypes
    <2>3. ASSUME stage = "pull", updates[Kalshi] = <<>>, link[Kalshi] = "up" PROVE wire[Kalshi] = tracked[Kalshi]
      <3>1. Coming(Kalshi) = <<>>
        BY <2>3 DEF Coming
      <3>2. \A k \in Tickers : k \in wire[Kalshi] <=> k \in tracked[Kalshi]
        BY <2>3, <3>1 DEF WireCatchesUp, Carries, Unsaid
      <3> QED BY <2>2, <3>2
    <2>4. ASSUME stage = "pull", updates[Pmus] = <<>>, link[Pmus] = "up" PROVE tracked[Pmus] \subseteq wire[Pmus]
      <3>1. Coming(Pmus) = <<>>
        BY <2>4 DEF Coming
      <3> QED BY <2>4, <3>1 DEF WireCatchesUp, Covers
    <2> QED BY <2>1, <2>3, <2>4 DEF RefreshInv, WireFollowsTracked
  <1> QED BY <1>1, <1>2, <1>3, PTL DEF Spec
=============================================================================
