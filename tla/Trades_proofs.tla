--------------------------- MODULE Trades_proofs ---------------------------
(***************************************************************************)
(* Theorems about the second log of the monitor: for any tickers, prints,  *)
(* ladders, periods, pages and fee changes, and without a bound on how     *)
(* many polls fail, processes stop and tickers come back.                  *)
(***************************************************************************)
EXTENDS Makers, SumTheorems, TLAPS

(***************************************************************************)
(* Seconds                                                                 *)
(***************************************************************************)

\* t is so old that a cursor at x has passed it for good: not even the second of overlap reaches it.
Behind(t, x) == t <= (Floor(x) - 1) * TicksPerSecond

\* A second begins at or before the moment, and ends after it.
LEMMA FloorOf ==
  ASSUME NEW t \in Nat
  PROVE  Floor(t) \in Nat /\ Floor(t) * TicksPerSecond <= t /\ t < Floor(t) * TicksPerSecond + TicksPerSecond
  BY TradesAssumption DEF Floor

\* Of two moments the later is in no earlier second.
LEMMA FloorGrows ==
  ASSUME NEW s \in Nat, NEW t \in Nat, s <= t
  PROVE  Floor(s) <= Floor(t)
  <1> DEFINE a == Floor(s)
             b == Floor(t)
             d == TicksPerSecond
  <1>1. a \in Nat /\ b \in Nat /\ d \in Nat \ {0} /\ a * d <= s /\ t < b * d + d
    BY FloorOf, TradesAssumption
  <1> HIDE DEF a, b, d
  <1>2. a * d < (b + 1) * d
    BY <1>1
  <1>3. a < b + 1
    BY <1>1, <1>2
  <1> QED BY <1>1, <1>3 DEF a, b

\* What is behind is more than a second older.
LEMMA BehindIsOld ==
  ASSUME NEW t \in Nat, NEW x \in Nat, Behind(t, x)
  PROVE  t + TicksPerSecond <= x
  <1> DEFINE b == Floor(x)
             d == TicksPerSecond
  <1>1. b \in Nat /\ d \in Nat \ {0} /\ b * d <= x /\ t <= (b - 1) * d
    BY FloorOf, TradesAssumption DEF Behind
  <1> HIDE DEF b, d
  <1>2. (b - 1) * d = b * d - d
    BY <1>1
  <1>3. t + d <= x
    BY <1>1, <1>2
  <1> QED BY <1>3 DEF d

Cursor == [max_ts : Nat, ids : SUBSET Nat]

\* What a poll asks for reaches back to the second before the cursor's, and what it does not ask for is behind.
LEMMA MinTsReaches ==
  ASSUME NEW st \in Cursor, NEW t \in Nat
  PROVE  /\ MinTs(st) \in Nat
         /\ t >= MinTs(st) * TicksPerSecond => Floor(t) >= Floor(st.max_ts) - 1
         /\ t > 0 /\ t <= MinTs(st) * TicksPerSecond => Behind(t, st.max_ts)
  <1> DEFINE x == Floor(st.max_ts) - 1
             m == MinTs(st)
             d == TicksPerSecond
             s == Floor(t)
  <1>1. Floor(st.max_ts) \in Nat /\ s \in Nat /\ d \in Nat \ {0} /\ s * d <= t /\ t < s * d + d
    BY FloorOf, TradesAssumption DEF Cursor
  <1>2. x \in Int
    BY <1>1
  <1>3. m = IF x > 0 THEN x ELSE 0
    <2>1. m = Max({0, x})
      BY DEF MinTs
    <2> HIDE DEF x, m
    <2>2. Max({0, x}) = CHOOSE y \in {0, x} : \A z \in {0, x} : y >= z
      BY DEF Max
    <2>3. \E y \in {0, x} : \A z \in {0, x} : y >= z
      BY <1>2
    <2> QED BY <1>2, <2>1, <2>2, <2>3
  <1>4. Behind(t, st.max_ts) <=> t <= x * d
    BY DEF Behind
  <1> HIDE DEF x, m, d, s
  <1>5. m \in Nat /\ m >= x
    BY <1>2, <1>3
  <1>6. ASSUME t >= m * d PROVE s >= x
    <2>1. m * d < (s + 1) * d
      BY <1>1, <1>5, <1>6
    <2>2. m < s + 1
      BY <1>1, <1>5, <2>1
    <2> QED BY <1>1, <1>2, <1>5, <2>2
  <1>7. ASSUME t > 0, t <= m * d PROVE t <= x * d
    <2>1. m # 0
      BY <1>1, <1>7
    <2> QED BY <1>2, <1>3, <1>7, <2>1
  <1>8. /\ m \in Nat
        /\ t >= m * d => s >= x
        /\ t > 0 /\ t <= m * d => Behind(t, st.max_ts)
    BY <1>4, <1>5, <1>6, <1>7
  <1> QED BY <1>8 DEF x, m, d, s

(***************************************************************************)
(* A print and a cursor                                                    *)
(***************************************************************************)
Made == [tk : Tickers, ts : Nat, vis : Nat, px : Prices, taker : Takers]
Row   == [id : Nat, t : Nat, contact : Nat]

PrintsInv ==
  /\ now \in Nat /\ Start <= now
  /\ prints \in Seq(Made)
  /\ \A i \in DOMAIN prints : /\ Start <= prints[i].ts /\ prints[i].ts <= now
                              /\ prints[i].ts <= prints[i].vis /\ prints[i].vis <= prints[i].ts + Late

LEMMA PrintTyped ==
  ASSUME PrintsInv, NEW i \in DOMAIN prints
  PROVE  /\ prints[i].tk \in Tickers /\ prints[i].ts \in Nat /\ prints[i].vis \in Nat /\ prints[i].ts > 0
         /\ i \in Nat
  <1>1. prints[i] \in Made /\ i \in Nat
    BY ElementOfSeq, LenProperties DEF PrintsInv
  <1>2. Start \in Nat /\ Start > 0
    BY TradesAssumption DEF Start, Lookback
  <1> QED BY <1>1, <1>2 DEF PrintsInv, Made

\* The cursor goes to a later print, remembers it, and forgets only what is then out of reach.
LEMMA AddedMoves ==
  ASSUME PrintsInv, NEW st \in Cursor, NEW i \in DOMAIN prints, st.ids \subseteq DOMAIN prints, NEW new, new = Added(st, i)
  PROVE  /\ new \in Cursor /\ i \in new.ids /\ new.ids \subseteq st.ids \cup {i}
         /\ st.max_ts <= new.max_ts /\ prints[i].ts <= new.max_ts
         /\ new.max_ts \in {st.max_ts, prints[i].ts}
         /\ \A j \in st.ids : j \in new.ids \/ Floor(prints[j].ts) < Floor(new.max_ts) - 1
  <1> DEFINE ts == prints[i].ts
             kept == {j \in st.ids : Floor(prints[j].ts) >= Floor(ts) - 1}
  <1>1. ts \in Nat /\ i \in Nat
    BY PrintTyped
  <1>2. st.max_ts \in Nat /\ st.ids \in SUBSET Nat
    BY DEF Cursor
  <1>3. CASE ts > st.max_ts
    <2>1. new = [max_ts |-> ts, ids |-> {i} \cup kept]
      BY <1>3 DEF Added
    <2>2. \A j \in st.ids : j \in kept \/ Floor(prints[j].ts) < Floor(ts) - 1
      <3>1. \A j \in st.ids : Floor(prints[j].ts) \in Nat
        BY PrintTyped, FloorOf
      <3>2. Floor(ts) \in Nat
        BY <1>1, FloorOf
      <3> QED BY <3>1, <3>2
    <2>3. kept \subseteq st.ids
      OBVIOUS
    <2>4. new.max_ts = ts /\ new.ids = {i} \cup kept
      BY <2>1
    <2>5. new \in Cursor
      BY <1>1, <1>2, <2>1, <2>3 DEF Cursor
    <2> QED BY <1>1, <1>2, <1>3, <2>2, <2>3, <2>4, <2>5
  <1>4. CASE ~ (ts > st.max_ts)
    <2>1. new = [max_ts |-> st.max_ts, ids |-> st.ids \cup {i}]
      BY <1>4 DEF Added
    <2> QED BY <1>1, <1>2, <1>4, <2>1 DEF Cursor
  <1> QED BY <1>3, <1>4

(***************************************************************************)
(* What the log and a cursor say of each other                             *)
(***************************************************************************)
In(q, i) == \E n \in DOMAIN q : q[n].id = i

\* Row n of the log is of ticker k.
Own(q, n, k) == prints[q[n].id].tk = k

\* Everything made since the cursor first looked and out of a cursor's reach at x is in the log, but for what was cut.
BehindLogged(q, k, x) ==
  \A i \in DOMAIN prints :
    prints[i].tk = k /\ from[k] <= prints[i].ts /\ i \notin cut /\ Behind(prints[i].ts, x) => In(q, i)

RowsTyped(q) ==
  /\ q \in Seq(Row) /\ unread \subseteq DOMAIN q
  /\ \A n \in DOMAIN q : /\ q[n].id \in DOMAIN prints /\ q[n].contact <= contact[prints[q[n].id].tk]
                         /\ prints[q[n].id].ts <= q[n].t

Once(q) == \A m, n \in DOMAIN q : m < n /\ q[m].id = q[n].id => q[m].contact # q[n].contact \/ m \in unread

\* A row is not ahead of what a cursor that stands at it can no longer reach.
InOrder(q) == \A n \in DOMAIN q : BehindLogged(q, prints[q[n].id].tk, prints[q[n].id].ts)

LogSound(q) == RowsTyped(q) /\ Once(q) /\ InOrder(q)

\* The cursor st of ticker k, against the first N rows: where it stands, what it remembers, and that what it has
\* forgotten is out of its reach.
StandsAtRow(k, st, q, N) == \E n \in 1..N : Own(q, n, k) /\ prints[q[n].id].ts = st.max_ts

CursorTyped(k, st, q) ==
  /\ st \in Cursor /\ st.ids \subseteq DOMAIN prints /\ st.max_ts <= now
  /\ \A i \in st.ids : prints[i].tk = k /\ In(q, i)

Remembers(k, st, q, N) ==
  \A n \in (1..N) \ unread : Own(q, n, k) /\ q[n].contact = contact[k]
                              => q[n].id \in st.ids \/ Floor(prints[q[n].id].ts) < Floor(st.max_ts) - 1

CursorSound(k, st, q, N) ==
  /\ CursorTyped(k, st, q)
  /\ st.max_ts = from[k] \/ StandsAtRow(k, st, q, N)
  /\ Remembers(k, st, q, N)

TypesOfPolls == 
  /\ from \in [Tickers -> Nat] /\ contact \in [Tickers -> Nat] /\ upto \in [Tickers -> Nat]
  /\ cut \subseteq DOMAIN prints

\* What is out of the cursor's reach is in the log.
LEMMA BehindTheCursor ==
  ASSUME PrintsInv, TypesOfPolls, NEW k \in Tickers, NEW q, RowsTyped(q), InOrder(q), NEW st, CursorSound(k, st, q, Len(q))
  PROVE  BehindLogged(q, k, st.max_ts)
  <1>1. CASE st.max_ts = from[k]
    <2> SUFFICES ASSUME NEW i \in DOMAIN prints, prints[i].tk = k, from[k] <= prints[i].ts, Behind(prints[i].ts, st.max_ts)
                 PROVE FALSE
      BY DEF BehindLogged
    <2>1. prints[i].ts \in Nat /\ from[k] \in Nat /\ TicksPerSecond \in Nat \ {0}
      BY PrintTyped, TradesAssumption DEF TypesOfPolls
    <2>2. prints[i].ts + TicksPerSecond <= from[k]
      BY <1>1, <2>1, BehindIsOld
    <2> QED BY <2>1, <2>2
  <1>2. CASE StandsAtRow(k, st, q, Len(q))
    <2>1. PICK n \in 1..Len(q) : Own(q, n, k) /\ prints[q[n].id].ts = st.max_ts
      BY <1>2 DEF StandsAtRow
    <2>2. n \in DOMAIN q
      BY LenProperties DEF RowsTyped
    <2> QED BY <2>1, <2>2 DEF InOrder, Own
  <1> QED BY <1>1, <1>2 DEF CursorSound

\* A print that cannot be served later than the start of a poll, and is more than a second older than one that was
\* served by it.
LEMMA OlderIsServed ==
  ASSUME PrintsInv, NEW i \in DOMAIN prints, NEW j \in DOMAIN prints, Behind(prints[i].ts, prints[j].ts)
  PROVE  prints[i].vis < prints[j].vis /\ prints[i].ts < prints[j].ts
  <1>1. /\ prints[i].ts \in Nat /\ prints[i].vis \in Nat /\ prints[j].ts \in Nat /\ prints[j].vis \in Nat
        /\ TicksPerSecond \in Nat \ {0} /\ Late \in Nat /\ Late < TicksPerSecond
    BY PrintTyped, TradesAssumption
  <1>2. prints[i].ts + TicksPerSecond <= prints[j].ts
    BY <1>1, BehindIsOld
  <1>3. prints[i].vis <= prints[i].ts + Late /\ prints[j].ts <= prints[j].vis
    BY DEF PrintsInv
  <1> QED BY <1>1, <1>2, <1>3

\* What a log says stays said when a row is added.
LEMMA RowsStay ==
  ASSUME NEW q \in Seq(Row), NEW row \in Row, NEW new, new = Append(q, row)
  PROVE  /\ new \in Seq(Row) /\ Len(new) = Len(q) + 1 /\ Len(q) \in Nat
         /\ DOMAIN new = DOMAIN q \cup {Len(q) + 1} /\ DOMAIN q = 1..Len(q)
         /\ \A n \in DOMAIN q : new[n] = q[n]
         /\ new[Len(q) + 1] = row
         /\ In(new, row.id)
         /\ \A i : In(q, i) => In(new, i)
  <1>1. /\ new \in Seq(Row) /\ Len(new) = Len(q) + 1 /\ Len(q) \in Nat
        /\ new[Len(q) + 1] = row /\ \A n \in 1..Len(q) : new[n] = q[n]
        /\ DOMAIN q = 1..Len(q) /\ DOMAIN new = 1..Len(new)
    BY AppendProperties, LenProperties
  <1>2. DOMAIN new = DOMAIN q \cup {Len(q) + 1}
    BY <1>1
  <1>3. In(new, row.id)
    BY <1>1, <1>2 DEF In
  <1>4. ASSUME NEW i, In(q, i) PROVE In(new, i)
    BY <1>1, <1>2, <1>4 DEF In
  <1> QED BY <1>1, <1>2, <1>3, <1>4

\* A print that a sound cursor does not know, and has not passed, has not been logged in this contact, in a row
\* that every boot could read.
LEMMA UnknownIsNew ==
  ASSUME PrintsInv, NEW k \in Tickers, NEW q, RowsTyped(q), NEW st, CursorSound(k, st, q, Len(q)),
         NEW i \in DOMAIN prints, prints[i].tk = k, i \notin st.ids, Floor(prints[i].ts) >= Floor(st.max_ts) - 1
  PROVE  \A n \in DOMAIN q : q[n].id = i => q[n].contact # contact[k] \/ n \in unread
  <1> SUFFICES ASSUME NEW n \in DOMAIN q, q[n].id = i, q[n].contact = contact[k], n \notin unread PROVE FALSE
    OBVIOUS
  <1>1. n \in 1..Len(q)
    BY LenProperties DEF RowsTyped
  <1>2. Own(q, n, k)
    BY DEF Own
  <1>3. Floor(prints[i].ts) < Floor(st.max_ts) - 1
    BY <1>1, <1>2 DEF CursorSound, Remembers
  <1>4. Floor(prints[i].ts) \in Nat /\ st.max_ts \in Nat
    BY PrintTyped, FloorOf DEF CursorSound, CursorTyped, Cursor
  <1>5. Floor(st.max_ts) \in Nat
    BY <1>4, FloorOf
  <1> QED BY <1>3, <1>4, <1>5

\* The log and the cursor after one print of the batch: both are sound, and the print is in the log.
LEMMA TakenSound ==
  ASSUME PrintsInv, TypesOfPolls, NEW k \in Tickers, NEW q, LogSound(q), NEW st, CursorSound(k, st, q, Len(q)),
         NEW i \in DOMAIN prints, prints[i].tk = k, i \notin st.ids, Floor(prints[i].ts) >= Floor(st.max_ts) - 1,
         BehindLogged(q, k, prints[i].ts),
         NEW new, new = Added(st, i), NEW more, more = Append(q, [id |-> i, t |-> now, contact |-> contact[k]])
  PROVE  LogSound(more) /\ CursorSound(k, new, more, Len(more))
  <1> DEFINE row == [id |-> i, t |-> now, contact |-> contact[k]]
  <1>1. row \in Row /\ q \in Seq(Row) /\ contact[k] \in Nat
    BY PrintTyped DEF Row, PrintsInv, TypesOfPolls, LogSound, RowsTyped
  <1>0. more = Append(q, row)
    OBVIOUS
  <1>3. row.id = i /\ row.contact = contact[k] /\ row.t = now
    OBVIOUS
  <1> HIDE DEF row
  <1>2. /\ more \in Seq(Row) /\ Len(more) = Len(q) + 1 /\ Len(q) \in Nat
        /\ DOMAIN more = DOMAIN q \cup {Len(q) + 1} /\ DOMAIN q = 1..Len(q)
        /\ \A n \in DOMAIN q : more[n] = q[n]
        /\ more[Len(q) + 1] = row
        /\ In(more, row.id)
        /\ \A j : In(q, j) => In(more, j)
    BY <1>0, <1>1, RowsStay
  <1>4. st \in Cursor /\ st.ids \subseteq DOMAIN prints /\ st.max_ts <= now
    BY DEF CursorSound, CursorTyped
  <1>5. /\ new \in Cursor /\ i \in new.ids /\ new.ids \subseteq st.ids \cup {i}
        /\ st.max_ts <= new.max_ts /\ prints[i].ts <= new.max_ts
        /\ new.max_ts \in {st.max_ts, prints[i].ts}
        /\ \A j \in st.ids : j \in new.ids \/ Floor(prints[j].ts) < Floor(new.max_ts) - 1
    BY <1>4, AddedMoves
  <1>6. RowsTyped(more)
    <2>1. ASSUME NEW n \in DOMAIN more
          PROVE  /\ more[n].id \in DOMAIN prints /\ more[n].contact <= contact[prints[more[n].id].tk]
                 /\ prints[more[n].id].ts <= more[n].t
      BY <1>1, <1>2, <1>3 DEF LogSound, RowsTyped, PrintsInv
    <2>2. unread \subseteq DOMAIN more
      BY <1>2 DEF LogSound, RowsTyped
    <2> QED BY <1>2, <2>1, <2>2 DEF RowsTyped
  <1>7. Once(more)
    <2>1. \A n \in DOMAIN q : q[n].id = i => q[n].contact # contact[k] \/ n \in unread
      BY UnknownIsNew DEF LogSound
    <2> SUFFICES ASSUME NEW m \in DOMAIN more, NEW n \in DOMAIN more, m < n, more[m].id = more[n].id
                 PROVE  more[m].contact # more[n].contact \/ m \in unread
      BY DEF Once
    <2>2. CASE m \in DOMAIN q /\ n \in DOMAIN q
      BY <1>2, <2>2 DEF LogSound, Once
    <2>3. CASE m = Len(q) + 1
      BY <1>2, <1>3, <2>1, <2>3
    <2>4. CASE n = Len(q) + 1
      BY <1>2, <1>3, <2>1, <2>4
    <2> QED BY <1>2, <2>2, <2>3, <2>4
  <1>8. \A j, x : BehindLogged(q, j, x) => BehindLogged(more, j, x)
    BY <1>2 DEF BehindLogged
  <1>9. InOrder(more)
    <2>1. ASSUME NEW n \in DOMAIN more PROVE BehindLogged(more, prints[more[n].id].tk, prints[more[n].id].ts)
      BY <1>2, <1>3, <1>8 DEF LogSound, InOrder
    <2> QED BY <2>1 DEF InOrder
  <1>10. CursorTyped(k, new, more)
    <2>1. new.max_ts <= now
      BY <1>4, <1>5 DEF PrintsInv
    <2>2. \A j \in new.ids : prints[j].tk = k /\ In(more, j)
      BY <1>2, <1>3, <1>5 DEF CursorSound, CursorTyped
    <2>3. new.ids \subseteq DOMAIN prints
      BY <1>4, <1>5
    <2> QED BY <1>5, <2>1, <2>2, <2>3 DEF CursorTyped
  <1>11. new.max_ts = from[k] \/ StandsAtRow(k, new, more, Len(more))
    <2>1. CASE new.max_ts = prints[i].ts
      <3>1. Len(q) + 1 \in 1..Len(more) /\ Own(more, Len(q) + 1, k) /\ prints[more[Len(q) + 1].id].ts = new.max_ts
        BY <1>2, <1>3, <2>1 DEF Own
      <3> QED BY <3>1 DEF StandsAtRow
    <2>2. CASE new.max_ts = st.max_ts /\ StandsAtRow(k, st, q, Len(q))
      <3>1. PICK n \in 1..Len(q) : Own(q, n, k) /\ prints[q[n].id].ts = st.max_ts
        BY <2>2 DEF StandsAtRow
      <3>2. n \in 1..Len(more) /\ more[n] = q[n]
        BY <1>2
      <3> QED BY <2>2, <3>1, <3>2 DEF StandsAtRow, Own
    <2>3. CASE new.max_ts = st.max_ts /\ st.max_ts = from[k]
      BY <2>3
    <2> QED BY <1>5, <2>1, <2>2, <2>3 DEF CursorSound
  <1>12. Remembers(k, new, more, Len(more))
    <2> SUFFICES ASSUME NEW n \in (1..Len(more)) \ unread, Own(more, n, k), more[n].contact = contact[k]
                 PROVE  more[n].id \in new.ids \/ Floor(prints[more[n].id].ts) < Floor(new.max_ts) - 1
      BY DEF Remembers
    <2>1. CASE n = Len(q) + 1
      BY <1>2, <1>3, <1>5, <2>1
    <2>2. CASE n \in 1..Len(q)
      <3>1. more[n] = q[n] /\ Own(q, n, k) /\ q[n].contact = contact[k] /\ q[n].id \in DOMAIN prints
        BY <1>2, <2>2 DEF Own, LogSound, RowsTyped
      <3>2. CASE q[n].id \in st.ids
        BY <1>5, <3>1, <3>2
      <3>3. CASE Floor(prints[q[n].id].ts) < Floor(st.max_ts) - 1
        <4>1. Floor(st.max_ts) <= Floor(new.max_ts)
          <5>1. st.max_ts \in Nat /\ new.max_ts \in Nat
            BY <1>4, <1>5 DEF Cursor
          <5> QED BY <1>5, <5>1, FloorGrows
        <4>2. Floor(st.max_ts) \in Nat /\ Floor(new.max_ts) \in Nat /\ Floor(prints[q[n].id].ts) \in Nat
          <5>1. st.max_ts \in Nat /\ new.max_ts \in Nat /\ prints[q[n].id].ts \in Nat
            BY <1>4, <1>5, <3>1, PrintTyped DEF Cursor
          <5> QED BY <5>1, FloorOf
        <4> QED BY <3>1, <3>3, <4>1, <4>2
      <3> QED BY <2>2, <3>1, <3>2, <3>3 DEF CursorSound, Remembers
    <2> QED BY <1>2, <2>1, <2>2
  <1> QED BY <1>6, <1>7, <1>9, <1>10, <1>11, <1>12 DEF LogSound, CursorSound

(***************************************************************************)
(* A batch                                                                 *)
(***************************************************************************)
BatchSound(k, st, at) ==
  /\ batch \in Seq(DOMAIN prints)
  /\ \A n \in DOMAIN batch : /\ prints[batch[n]].tk = k /\ prints[batch[n]].vis <= at
                             /\ Floor(prints[batch[n]].ts) >= Floor(st.max_ts) - 1
  /\ \A m, n \in DOMAIN batch : m < n => prints[batch[m]].ts <= prints[batch[n]].ts
  /\ \A i \in DOMAIN prints :
       prints[i].tk = k /\ prints[i].vis < at /\ i \notin cut
         => Behind(prints[i].ts, st.max_ts) \/ \E n \in DOMAIN batch : batch[n] = i

\* q is the log with rows of ticker k after it.
Extends(k, q) ==
  /\ Len(log) <= Len(q)
  /\ \A n \in 1..Len(log) : q[n] = log[n]
  /\ \A n \in (Len(log) + 1)..Len(q) : Own(q, n, k)

\* After the first n prints of the batch.
Progress(k, st, q, n) ==
  /\ LogSound(q) /\ CursorSound(k, st, q, Len(q)) /\ Extends(k, q)
  /\ \A m \in 1..n : In(q, batch[m])
  /\ \A m \in (n + 1)..Len(batch) : Floor(prints[batch[m]].ts) >= Floor(st.max_ts) - 1

\* What is behind a print of the batch is in the log by then.
LEMMA BehindTheNext ==
  ASSUME PrintsInv, TypesOfPolls, NEW k \in Tickers, LogSound(log), CursorSound(k, tstate[k], log, Len(log)),
         NEW at \in Nat, BatchSound(k, tstate[k], at),
         NEW st, NEW q, NEW n \in 0..(Len(batch) - 1), Progress(k, st, q, n)
  PROVE  BehindLogged(q, k, prints[batch[n + 1]].ts)
  <1> DEFINE i == batch[n + 1]
  <1>1. Len(batch) \in Nat /\ DOMAIN batch = 1..Len(batch)
    BY LenProperties DEF BatchSound
  <1>2. n + 1 \in DOMAIN batch /\ n \in Nat
    BY <1>1
  <1>3. i \in DOMAIN prints /\ prints[i].vis <= at
    <2>1. batch[n + 1] \in DOMAIN prints
      BY <1>1, <1>2, ElementOfSeq DEF BatchSound
    <2> QED BY <1>2, <2>1 DEF BatchSound
  <1> SUFFICES ASSUME NEW j \in DOMAIN prints, prints[j].tk = k, from[k] <= prints[j].ts, j \notin cut,
                      Behind(prints[j].ts, prints[i].ts)
               PROVE  In(q, j)
    BY DEF BehindLogged
  <1>4. prints[j].vis < prints[i].vis /\ prints[j].ts < prints[i].ts
    BY <1>3, OlderIsServed
  <1>5. prints[j].vis < at
    <2>1. prints[j].vis \in Nat /\ prints[i].vis \in Nat
      BY <1>3, PrintTyped
    <2> QED BY <1>3, <1>4, <2>1
  <1>6. CASE Behind(prints[j].ts, tstate[k].max_ts)
    <2>1. BehindLogged(log, k, tstate[k].max_ts)
      <3> DEFINE c == tstate[k]
      <3>1. CursorSound(k, c, log, Len(log)) /\ RowsTyped(log) /\ InOrder(log)
        BY DEF LogSound
      <3> HIDE DEF c
      <3>2. BehindLogged(log, k, c.max_ts)
        BY <3>1, BehindTheCursor
      <3> QED BY <3>2 DEF c
    <2>2. In(log, j)
      BY <1>6, <2>1 DEF BehindLogged
    <2>3. PICK m \in DOMAIN log : log[m].id = j
      BY <2>2 DEF In
    <2>4. m \in 1..Len(log) /\ Len(log) \in Nat /\ Len(log) <= Len(q) /\ q[m] = log[m] /\ DOMAIN q = 1..Len(q) /\ Len(q) \in Nat
      BY LenProperties DEF LogSound, RowsTyped, Progress, Extends
    <2> QED BY <2>3, <2>4 DEF In
  <1>7. CASE \E m \in DOMAIN batch : batch[m] = j
    <2>1. PICK m \in DOMAIN batch : batch[m] = j
      BY <1>7
    <2>2. ~ (n + 1 < m)
      <3>1. prints[j].ts \in Nat /\ prints[i].ts \in Nat
        BY <1>3, PrintTyped
      <3>2. n + 1 < m => prints[i].ts <= prints[j].ts
        BY <1>2, <2>1 DEF BatchSound
      <3> QED BY <1>4, <3>1, <3>2
    <2>3. m # n + 1
      <3>1. prints[j].ts \in Nat /\ prints[i].ts \in Nat
        BY <1>3, PrintTyped
      <3> QED BY <1>4, <2>1, <3>1
    <2>4. m \in 1..n
      BY <1>1, <1>2, <2>1, <2>2, <2>3
    <2> QED BY <2>1, <2>4 DEF Progress
  <1> QED BY <1>5, <1>6, <1>7 DEF BatchSound

\* One more print of the batch.
LEMMA ProgressGoes ==
  ASSUME PrintsInv, TypesOfPolls, NEW k \in Tickers, LogSound(log), CursorSound(k, tstate[k], log, Len(log)),
         NEW at \in Nat, BatchSound(k, tstate[k], at),
         NEW st, NEW q, NEW n \in 0..(Len(batch) - 1), Progress(k, st, q, n), NEW acc, acc.st = st, acc.log = q,
         NEW new, new = Taken(k, acc, batch[n + 1])
  PROVE  Progress(k, new.st, new.log, n + 1)
  <1> DEFINE i == batch[n + 1]
  <1>1. Len(batch) \in Nat /\ DOMAIN batch = 1..Len(batch)
    BY LenProperties DEF BatchSound
  <1>2. n + 1 \in DOMAIN batch /\ n \in Nat /\ n + 1 \in (n + 1)..Len(batch)
    BY <1>1
  <1>3. i \in DOMAIN prints /\ prints[i].tk = k /\ Floor(prints[i].ts) >= Floor(st.max_ts) - 1
    <2>1. batch[n + 1] \in DOMAIN prints
      BY <1>1, <1>2, ElementOfSeq DEF BatchSound
    <2> QED BY <1>2, <2>1 DEF BatchSound, Progress
  <1>4. \A m \in (n + 2)..Len(batch) : m \in (n + 1)..Len(batch) /\ m \in DOMAIN batch /\ n + 1 < m
    BY <1>1, <1>2
  <1>5. \A m \in 1..(n + 1) : m \in 1..n \/ m = n + 1
    BY <1>2
  <1>6. (n + 1) + 1 = n + 2
    BY <1>2
  <1>7. CASE i \in st.ids
    <2>1. new.st = st /\ new.log = q
      BY <1>7 DEF Taken
    <2>2. In(q, i)
      BY <1>7 DEF Progress, CursorSound, CursorTyped
    <2>3. \A m \in 1..(n + 1) : In(q, batch[m])
      BY <1>5, <2>2 DEF Progress
    <2>4. \A m \in ((n + 1) + 1)..Len(batch) : Floor(prints[batch[m]].ts) >= Floor(st.max_ts) - 1
      BY <1>4, <1>6 DEF Progress
    <2> QED BY <2>1, <2>3, <2>4 DEF Progress
  <1>8. CASE i \notin st.ids
    <2> DEFINE row == [id |-> i, t |-> now, contact |-> contact[k]]
               more == Append(q, row)
               moved == Added(st, i)
    <2>1. new = [st |-> moved, log |-> more]
      BY <1>8 DEF Taken
    <2>2. new.st = moved /\ new.log = more
      BY <2>1
    <2>3. BehindLogged(q, k, prints[i].ts)
      BY BehindTheNext
    <2>4. LogSound(q) /\ CursorSound(k, st, q, Len(q)) /\ Extends(k, q)
      BY DEF Progress
    <2>5. LogSound(more) /\ CursorSound(k, moved, more, Len(more))
      <3>1. \A c, p : c = Added(st, i) /\ p = Append(q, [id |-> i, t |-> now, contact |-> contact[k]])
                        => LogSound(p) /\ CursorSound(k, c, p, Len(p))
        BY <1>3, <1>8, <2>3, <2>4, TakenSound
      <3> QED BY <3>1
    <2>6. row \in Row /\ q \in Seq(Row) /\ row.id = i
      BY <1>3, PrintTyped, <2>4 DEF Row, PrintsInv, TypesOfPolls, LogSound, RowsTyped
    <2>7. /\ more \in Seq(Row) /\ Len(more) = Len(q) + 1 /\ Len(q) \in Nat
          /\ DOMAIN more = DOMAIN q \cup {Len(q) + 1} /\ DOMAIN q = 1..Len(q)
          /\ \A m \in DOMAIN q : more[m] = q[m]
          /\ more[Len(q) + 1] = row
          /\ In(more, row.id)
          /\ \A j : In(q, j) => In(more, j)
      <3> HIDE DEF row, more, moved, i
      <3>1. more = Append(q, row)
        BY DEF more
      <3>2. q \in Seq(Row) /\ row \in Row
        BY <2>6
      <3>3. /\ more \in Seq(Row) /\ Len(more) = Len(q) + 1 /\ Len(q) \in Nat
            /\ DOMAIN more = DOMAIN q \cup {Len(q) + 1} /\ DOMAIN q = 1..Len(q)
            /\ \A m \in DOMAIN q : more[m] = q[m]
            /\ more[Len(q) + 1] = row
        BY ONLY <3>1, <3>2, RowsStay
      <3>4. In(more, row.id) /\ \A j : In(q, j) => In(more, j)
        BY ONLY <3>1, <3>2, RowsStay
      <3> QED BY <3>3, <3>4
    <2> HIDE DEF row, more, moved
    <2>8. Extends(k, more)
      <3>1. Len(log) \in Nat
        BY LenProperties DEF LogSound, RowsTyped
      <3>2. Len(log) <= Len(q) /\ (\A m \in 1..Len(log) : q[m] = log[m]) /\ (\A m \in (Len(log) + 1)..Len(q) : Own(q, m, k))
        BY <2>4 DEF Extends
      <3>3. \A m \in 1..Len(log) : more[m] = log[m]
        BY <2>7, <3>1, <3>2
      <3>4. ASSUME NEW m \in (Len(log) + 1)..Len(more) PROVE Own(more, m, k)
        <4>1. CASE m = Len(q) + 1
          BY <1>3, <2>6, <2>7, <4>1 DEF Own
        <4>2. CASE m # Len(q) + 1
          <5>1. m \in (Len(log) + 1)..Len(q) /\ m \in DOMAIN q
            BY <2>7, <3>1, <4>2
          <5> QED BY <2>7, <3>2, <5>1 DEF Own
        <4> QED BY <4>1, <4>2
      <3> QED BY <2>7, <3>1, <3>2, <3>3, <3>4 DEF Extends
    <2>9. \A m \in 1..(n + 1) : In(more, batch[m])
      BY <1>5, <2>6, <2>7 DEF Progress
    <2>10. \A m \in ((n + 1) + 1)..Len(batch) : Floor(prints[batch[m]].ts) >= Floor(moved.max_ts) - 1
      <3> SUFFICES ASSUME NEW m \in (n + 2)..Len(batch) PROVE Floor(prints[batch[m]].ts) >= Floor(moved.max_ts) - 1
        BY <1>6
      <3>1. m \in (n + 1)..Len(batch) /\ m \in DOMAIN batch /\ n + 1 < m
        BY <1>4
      <3>2. st \in Cursor /\ st.ids \subseteq DOMAIN prints
        BY <2>4 DEF CursorSound, CursorTyped
      <3>3. moved.max_ts \in {st.max_ts, prints[i].ts}
        <4>1. moved = Added(st, i)
          BY DEF moved
        <4> QED BY <1>3, <3>2, <4>1, AddedMoves
      <3>4. CASE moved.max_ts = st.max_ts
        BY <3>1, <3>4 DEF Progress
      <3>5. CASE moved.max_ts = prints[i].ts
        <4>1. batch[m] \in DOMAIN prints
          BY <1>1, <3>1, ElementOfSeq DEF BatchSound
        <4>2. prints[i].ts <= prints[batch[m]].ts
          BY <1>2, <3>1 DEF BatchSound
        <4>3. Floor(prints[i].ts) <= Floor(prints[batch[m]].ts)
          <5>1. prints[i].ts \in Nat /\ prints[batch[m]].ts \in Nat
            BY <1>3, <4>1, PrintTyped
          <5> QED BY <4>2, <5>1, FloorGrows
        <4>4. Floor(prints[i].ts) \in Nat /\ Floor(prints[batch[m]].ts) \in Nat
          <5>1. prints[i].ts \in Nat /\ prints[batch[m]].ts \in Nat
            BY <1>3, <4>1, PrintTyped
          <5> QED BY <5>1, FloorOf
        <4> QED BY <3>5, <4>3, <4>4
      <3> QED BY <3>3, <3>4, <3>5
    <2> QED BY <2>2, <2>5, <2>8, <2>9, <2>10 DEF Progress
  <1> QED BY <1>7, <1>8

\* The recursion of IngestTrades, given what it returns for the prints before.
IngestStep(k, f, n) == IF n = 0 THEN [st |-> tstate[k], log |-> log] ELSE Taken(k, f[n - 1], batch[n])

\* f solves it up to N.
Ingests(k, f, N) == f = [n \in 0..N |-> IngestStep(k, f, n)]

\* The recursion has a solution up to any number.
LEMMA IngestsExist == ASSUME NEW k, NEW N \in Nat PROVE \E f : Ingests(k, f, N)
  <1> DEFINE G == {n \in 0..N : \E f : Ingests(k, f, n)}
  <1>1. 0 \in G
    <2> DEFINE f == [n \in 0..0 |-> [st |-> tstate[k], log |-> log]]
    <2>1. \A n \in 0..0 : IngestStep(k, f, n) = [st |-> tstate[k], log |-> log]
      BY DEF IngestStep
    <2>2. f = [n \in 0..0 |-> IngestStep(k, f, n)]
      BY <2>1
    <2>3. Ingests(k, f, 0)
      BY <2>2 DEF Ingests
    <2> QED BY <2>3
  <1>2. ASSUME NEW n \in 0..(N - 1), n \in G PROVE n + 1 \in G
    <2>1. PICK f : Ingests(k, f, n)
      BY <1>2
    <2> DEFINE h == [m \in 0..(n + 1) |-> IngestStep(k, f, m)]
    <2>2. \A m \in 0..n : h[m] = f[m]
      BY <2>1 DEF Ingests
    <2>3. ASSUME NEW m \in 0..(n + 1) PROVE IngestStep(k, h, m) = IngestStep(k, f, m)
      <3>1. m = 0 \/ m - 1 \in 0..n
        OBVIOUS
      <3> HIDE DEF h
      <3> QED BY <2>2, <3>1 DEF IngestStep
    <2>4. h = [m \in 0..(n + 1) |-> IngestStep(k, h, m)]
      BY <2>3
    <2>5. Ingests(k, h, n + 1)
      BY <2>4 DEF Ingests
    <2>6. n + 1 \in 0..N
      OBVIOUS
    <2> QED BY <2>5, <2>6
  <1>3. N \in G
    <2> HIDE DEF G
    <2> QED BY <1>1, <1>2, Climb
  <1> QED BY <1>3

\* An empty prefix of a batch: nothing has happened.
LEMMA ProgressStarts ==
  ASSUME NEW k, LogSound(log), CursorSound(k, tstate[k], log, Len(log)), NEW at, BatchSound(k, tstate[k], at)
  PROVE  Progress(k, tstate[k], log, 0)
  <1>1. Len(log) \in Nat /\ Len(batch) \in Nat /\ DOMAIN batch = 1..Len(batch)
    BY LenProperties DEF LogSound, RowsTyped, BatchSound
  <1>2. Extends(k, log)
    BY <1>1 DEF Extends
  <1>3. \A m \in (0 + 1)..Len(batch) : Floor(prints[batch[m]].ts) >= Floor(tstate[k].max_ts) - 1
    BY <1>1 DEF BatchSound
  <1> QED BY <1>1, <1>2, <1>3 DEF Progress

\* What ingest_trades leaves, however far it gets.
LEMMA IngestSound ==
  ASSUME PrintsInv, TypesOfPolls, NEW k \in Tickers, LogSound(log), CursorSound(k, tstate[k], log, Len(log)),
         NEW at \in Nat, BatchSound(k, tstate[k], at), NEW N \in 0..Len(batch), IngestTrades(k, N)
  PROVE  \E st : tstate' = [tstate EXCEPT ![k] = st] /\ Progress(k, st, log', N)
  <1> DEFINE f == CHOOSE g : Ingests(k, g, N)
  <1>1. Len(batch) \in Nat /\ N \in Nat
    BY LenProperties DEF BatchSound
  <1>2. log' = f[N].log /\ tstate' = [tstate EXCEPT ![k] = f[N].st]
    BY DEF IngestTrades, Ingests, IngestStep
  <1>3. Ingests(k, f, N)
    <2>1. \E g : Ingests(k, g, N)
      BY <1>1, IngestsExist
    <2> QED BY <2>1
  <1> HIDE DEF f
  <1>4. \A n \in 0..N : f[n] = IngestStep(k, f, n)
    BY <1>3 DEF Ingests
  <1> DEFINE G == {n \in 0..N : Progress(k, f[n].st, f[n].log, n)}
  <1>5. 0 \in G
    <2>1. f[0] = [st |-> tstate[k], log |-> log]
      BY <1>1, <1>4 DEF IngestStep
    <2>2. f[0].st = tstate[k] /\ f[0].log = log
      BY <2>1
    <2>3. Progress(k, tstate[k], log, 0)
      BY ProgressStarts
    <2> QED BY <1>1, <2>2, <2>3
  <1>6. ASSUME NEW n \in 0..(N - 1), n \in G PROVE n + 1 \in G
    <2>1. n \in Nat /\ n + 1 \in 0..N /\ n + 1 # 0 /\ (n + 1) - 1 = n /\ n \in 0..(Len(batch) - 1)
      BY <1>1
    <2>2. f[n + 1] = Taken(k, f[n], batch[n + 1])
      BY <1>4, <2>1 DEF IngestStep
    <2>3. Progress(k, f[n].st, f[n].log, n)
      BY <1>6
    <2> DEFINE new == f[n + 1]
               st == f[n].st
               q == f[n].log
               acc == f[n]
    <2>4. Progress(k, st, q, n) /\ acc.st = st /\ acc.log = q /\ new = Taken(k, acc, batch[n + 1])
      BY <2>2, <2>3
    <2> HIDE DEF new, st, q, acc
    <2>5. Progress(k, new.st, new.log, n + 1)
      BY <2>1, <2>4, ProgressGoes
    <2> QED BY <2>1, <2>5 DEF new
  <1>7. N \in G
    <2>1. N \in Nat /\ N \in 0..N
      BY <1>1
    <2>2. \A n \in 0..(N - 1) : n \in G => n + 1 \in G
      BY <1>6
    <2> HIDE DEF G
    <2>3. \A n \in 0..N : n \in G
      BY ONLY <1>5, <2>1, <2>2, Climb
    <2> QED BY <2>1, <2>3
  <1> QED BY <1>2, <1>7

(***************************************************************************)
(* The cursors are read back                                               *)
(***************************************************************************)

\* The rows of these that are a ticker's have their ids in its cursor, or out of its reach.
RemembersRead(k, st, S) ==
  \A n \in S : Own(log, n, k) => log[n].id \in st.ids \/ Floor(prints[log[n].id].ts) < Floor(st.max_ts) - 1

\* What can be read of the first N rows leaves of the cursor of k.
SeededTo(k, read, st, N) ==
  \/ st = None /\ \A n \in (1..N) \cap read : ~ Own(log, n, k)
  \/ st # None /\ CursorTyped(k, st, log) /\ StandsAtRow(k, st, log, N) /\ RemembersRead(k, st, (1..N) \cap read)

SeedStep(k, read, f, n) ==
  IF n = 0 THEN None
  ELSE IF n \in read /\ prints[log[n].id].tk = k THEN Reread(f[n - 1], log[n].id) ELSE f[n - 1]

Seeds(k, read, f, N) == f = [n \in 0..N |-> SeedStep(k, read, f, n)]

LEMMA SeedsExist == ASSUME NEW k, NEW read, NEW N \in Nat PROVE \E f : Seeds(k, read, f, N)
  <1> DEFINE G == {n \in 0..N : \E f : Seeds(k, read, f, n)}
  <1>1. 0 \in G
    <2> DEFINE f == [n \in 0..0 |-> None]
    <2>1. \A n \in 0..0 : SeedStep(k, read, f, n) = None
      BY DEF SeedStep
    <2>2. f = [n \in 0..0 |-> SeedStep(k, read, f, n)]
      BY <2>1
    <2>3. Seeds(k, read, f, 0)
      BY <2>2 DEF Seeds
    <2> QED BY <2>3
  <1>2. ASSUME NEW n \in 0..(N - 1), n \in G PROVE n + 1 \in G
    <2>1. PICK f : Seeds(k, read, f, n)
      BY <1>2
    <2> DEFINE h == [m \in 0..(n + 1) |-> SeedStep(k, read, f, m)]
    <2>2. \A m \in 0..n : h[m] = f[m]
      BY <2>1 DEF Seeds
    <2>3. ASSUME NEW m \in 0..(n + 1) PROVE SeedStep(k, read, h, m) = SeedStep(k, read, f, m)
      <3>1. m = 0 \/ m - 1 \in 0..n
        OBVIOUS
      <3> HIDE DEF h
      <3> QED BY <2>2, <3>1 DEF SeedStep
    <2>4. h = [m \in 0..(n + 1) |-> SeedStep(k, read, h, m)]
      BY <2>3
    <2>5. Seeds(k, read, h, n + 1)
      BY <2>4 DEF Seeds
    <2>6. n + 1 \in 0..N
      OBVIOUS
    <2> QED BY <2>5, <2>6
  <1>3. N \in G
    <2>1. N \in 0..N
      OBVIOUS
    <2> HIDE DEF G
    <2>2. \A n \in 0..N : n \in G
      BY ONLY N \in Nat, <1>1, <1>2, Climb
    <2> QED BY <2>1, <2>2
  <1> QED BY <1>3

\* A row of the ticker is read back.
LEMMA RereadSound ==
  ASSUME PrintsInv, NEW k \in Tickers, RowsTyped(log), NEW read, NEW n \in 0..(Len(log) - 1), NEW st, SeededTo(k, read, st, n),
         Own(log, n + 1, k), NEW new, new = Reread(st, log[n + 1].id)
  PROVE  SeededTo(k, read, new, n + 1)
  <1> DEFINE i == log[n + 1].id
  <1>1. Len(log) \in Nat /\ DOMAIN log = 1..Len(log) /\ n \in Nat /\ n + 1 \in DOMAIN log
    BY LenProperties DEF RowsTyped
  <1>2. i \in DOMAIN prints /\ prints[i].tk = k /\ In(log, i)
    BY <1>1 DEF RowsTyped, Own, In
  <1>3. \A m \in 1..(n + 1) : m \in 1..n \/ m = n + 1
    BY <1>1
  <1>4. \A m \in 1..n : m \in 1..(n + 1) /\ m \in DOMAIN log
    BY <1>1
  <1>5. n + 1 \in 1..(n + 1)
    BY <1>1
  <1>6. CASE st # None /\ i \in st.ids
    <2>1. new = st
      BY <1>6 DEF Reread
    <2>2. CursorTyped(k, st, log) /\ StandsAtRow(k, st, log, n) /\ RemembersRead(k, st, (1..n) \cap read)
      BY <1>6 DEF SeededTo
    <2>3. StandsAtRow(k, st, log, n + 1)
      BY <1>4, <2>2 DEF StandsAtRow
    <2>4. RemembersRead(k, st, (1..(n + 1)) \cap read)
      BY <1>3, <1>6, <2>2 DEF RemembersRead
    <2> QED BY <1>6, <2>1, <2>2, <2>3, <2>4 DEF SeededTo
  <1>7. CASE ~ (st # None /\ i \in st.ids)
    <2> DEFINE base == IF st = None THEN [max_ts |-> 0, ids |-> {}] ELSE st
    <2>1. new = Added(base, i)
      BY <1>7 DEF Reread
    <2>2. base \in Cursor /\ base.ids \subseteq DOMAIN prints /\ base.max_ts <= now
          /\ \A j \in base.ids : prints[j].tk = k /\ In(log, j)
      <3>1. CASE st = None
        BY <3>1 DEF Cursor, PrintsInv
      <3>2. CASE st # None
        BY <3>2 DEF SeededTo, CursorTyped
      <3> QED BY <3>1, <3>2
    <2>3. st # None => base = st
      OBVIOUS
    <2>4. st = None => base.max_ts = 0
      OBVIOUS
    <2> HIDE DEF base, i
    <2>5. /\ new \in Cursor /\ i \in new.ids /\ new.ids \subseteq base.ids \cup {i}
          /\ base.max_ts <= new.max_ts /\ prints[i].ts <= new.max_ts
          /\ new.max_ts \in {base.max_ts, prints[i].ts}
          /\ \A j \in base.ids : j \in new.ids \/ Floor(prints[j].ts) < Floor(new.max_ts) - 1
      BY <1>2, <2>1, <2>2, AddedMoves
    <2>6. new # None
      BY <2>5, TradesAssumption DEF Cursor
    <2>7. CursorTyped(k, new, log)
      <3>1. new.max_ts <= now
        BY <1>2, <2>2, <2>5 DEF PrintsInv
      <3>2. new.ids \subseteq DOMAIN prints
        BY <1>2, <2>2, <2>5
      <3>3. \A j \in new.ids : prints[j].tk = k /\ In(log, j)
        BY <1>2, <2>2, <2>5
      <3> QED BY <2>5, <3>1, <3>2, <3>3 DEF CursorTyped
    <2>8. StandsAtRow(k, new, log, n + 1)
      <3>1. CASE new.max_ts = prints[i].ts
        BY <1>5, <3>1 DEF StandsAtRow, i
      <3>2. CASE new.max_ts = base.max_ts /\ st # None
        <4>1. StandsAtRow(k, st, log, n)
          BY <3>2 DEF SeededTo
        <4>2. PICK m \in 1..n : Own(log, m, k) /\ prints[log[m].id].ts = st.max_ts
          BY <4>1 DEF StandsAtRow
        <4> QED BY <1>4, <2>3, <3>2, <4>2 DEF StandsAtRow
      <3>3. CASE new.max_ts = base.max_ts /\ st = None
        <4>1. prints[i].ts \in Nat /\ prints[i].ts > 0
          BY <1>2, PrintTyped
        <4> QED BY <2>4, <2>5, <3>3, <4>1
      <3> QED BY <2>5, <3>1, <3>2, <3>3
    <2>9. RemembersRead(k, new, (1..(n + 1)) \cap read)
      <3> SUFFICES ASSUME NEW m \in (1..(n + 1)) \cap read, Own(log, m, k)
                   PROVE  log[m].id \in new.ids \/ Floor(prints[log[m].id].ts) < Floor(new.max_ts) - 1
        BY DEF RemembersRead
      <3>1. CASE m = n + 1
        BY <2>5, <3>1 DEF i
      <3>2. CASE m \in 1..n
        <4>1. st # None
          BY <3>2 DEF SeededTo
        <4>2. log[m].id \in base.ids \/ Floor(prints[log[m].id].ts) < Floor(base.max_ts) - 1
          BY <2>3, <3>2, <4>1 DEF SeededTo, RemembersRead
        <4>3. CASE log[m].id \in base.ids
          BY <2>5, <4>3
        <4>4. CASE Floor(prints[log[m].id].ts) < Floor(base.max_ts) - 1
          <5>1. base.max_ts \in Nat /\ new.max_ts \in Nat /\ prints[log[m].id].ts \in Nat
            BY <1>4, <2>2, <2>5, <3>2, PrintTyped DEF Cursor, RowsTyped
          <5>2. Floor(base.max_ts) <= Floor(new.max_ts)
            BY <2>5, <5>1, FloorGrows
          <5>3. Floor(base.max_ts) \in Nat /\ Floor(new.max_ts) \in Nat /\ Floor(prints[log[m].id].ts) \in Nat
            BY <5>1, FloorOf
          <5> QED BY <4>4, <5>2, <5>3
        <4> QED BY <4>2, <4>3, <4>4
      <3> QED BY <1>3, <3>1, <3>2
    <2> QED BY <2>6, <2>7, <2>8, <2>9 DEF SeededTo
  <1> QED BY <1>6, <1>7

\* What seed_trade_state makes of what it can read of the log.
LEMMA SeededSound ==
  ASSUME PrintsInv, NEW k \in Tickers, NEW read, RowsTyped(log)
  PROVE  SeededTo(k, read, Seeded(k, read), Len(log))
  <1> DEFINE N == Len(log)
             f == CHOOSE g : Seeds(k, read, g, N)
  <1>1. N \in Nat
    BY LenProperties DEF RowsTyped
  <1>2. Seeded(k, read) = f[N]
    BY DEF Seeded, Seeds, SeedStep
  <1>3. Seeds(k, read, f, N)
    <2>1. \E g : Seeds(k, read, g, N)
      BY <1>1, SeedsExist
    <2> QED BY <2>1
  <1> HIDE DEF f
  <1>4. \A n \in 0..N : f[n] = SeedStep(k, read, f, n)
    BY <1>3 DEF Seeds
  <1> DEFINE G == {n \in 0..N : SeededTo(k, read, f[n], n)}
  <1>5. 0 \in G
    <2>1. f[0] = None
      BY <1>1, <1>4 DEF SeedStep
    <2> QED BY <1>1, <2>1 DEF SeededTo
  <1>6. ASSUME NEW n \in 0..(N - 1), n \in G PROVE n + 1 \in G
    <2>1. n \in Nat /\ n + 1 \in 0..N /\ n + 1 # 0 /\ (n + 1) - 1 = n
      BY <1>1
    <2>2. f[n + 1] = IF n + 1 \in read /\ Own(log, n + 1, k) THEN Reread(f[n], log[n + 1].id) ELSE f[n]
      BY <1>4, <2>1 DEF SeedStep, Own
    <2> DEFINE new == f[n + 1]
               st == f[n]
    <2>3. SeededTo(k, read, st, n)
      BY <1>6
    <2>4. CASE n + 1 \in read /\ Own(log, n + 1, k)
      <3>1. new = Reread(st, log[n + 1].id)
        BY <2>2, <2>4
      <3> HIDE DEF new, st
      <3>2. SeededTo(k, read, new, n + 1)
        BY <2>3, <2>4, <3>1, RereadSound
      <3> QED BY <2>1, <3>2 DEF new
    <2>5. CASE ~ (n + 1 \in read /\ Own(log, n + 1, k))
      <3>1. new = st
        BY <2>2, <2>5
      <3>2. \A m \in 1..(n + 1) : m \in 1..n \/ m = n + 1
        BY <2>1
      <3>3. \A m \in 1..n : m \in 1..(n + 1)
        BY <2>1
      <3> HIDE DEF new, st
      <3>4. SeededTo(k, read, st, n + 1)
        BY <2>3, <2>5, <3>2, <3>3 DEF SeededTo, StandsAtRow, RemembersRead
      <3> QED BY <2>1, <3>1, <3>4 DEF new
    <2> QED BY <2>4, <2>5
  <1>7. N \in G
    <2>1. N \in 0..N
      BY <1>1
    <2>2. \A n \in 0..(N - 1) : n \in G => n + 1 \in G
      BY <1>6
    <2> HIDE DEF G, N
    <2>3. \A n \in 0..N : n \in G
      BY ONLY <1>1, <1>5, <2>2, Climb
    <2> QED BY <2>1, <2>3
  <1> QED BY <1>2, <1>7

(***************************************************************************)
(* The invariant of the poll                                               *)
(***************************************************************************)
CoreTyped ==
  /\ up \in BOOLEAN /\ awake \in BOOLEAN /\ due \in Nat /\ listed \subseteq Tickers /\ todo \subseteq Tickers
  /\ awake => up
  /\ tstate \in [Tickers -> Cursor \cup {None}]
  /\ TypesOfPolls

\* A cursor never looked further ahead than a look back, and no poll ended in the future.
Clock == \A k \in Tickers : from[k] + Lookback <= now /\ upto[k] <= now

CursorsSound == \A k \in Tickers : tstate[k] # None => CursorSound(k, tstate[k], log, Len(log))

\* What has no cursor has no row in this contact, of those that every boot could read.
Fresh ==
  up => \A k \in Tickers : tstate[k] = None => \A n \in DOMAIN log \ unread : Own(log, n, k) => log[n].contact < contact[k]

\* What the last poll that ended could be served, made since the cursor first looked, is in the log, but for what was cut.
Complete ==
  \A i \in DOMAIN prints :
    from[prints[i].tk] <= prints[i].ts /\ prints[i].vis < upto[prints[i].tk] /\ i \notin cut => In(log, i)

PolledSound ==
  \/ polled = None /\ batch = <<>>
  \/ /\ polled \in [tk : Tickers, at : Nat] /\ awake /\ polled.at <= now /\ tstate[polled.tk] # None
     /\ BatchSound(polled.tk, tstate[polled.tk], polled.at)

PollInv == PrintsInv /\ CoreTyped /\ Clock /\ LogSound(log) /\ CursorsSound /\ Fresh /\ Complete /\ PolledSound

\* A look back does not reach the beginning of the clock.
LEMMA LooksBack ==
  ASSUME now \in Nat, Start <= now
  PROVE  Lookback \in Nat /\ Max({0, now - Lookback}) = now - Lookback /\ now - Lookback \in Nat /\ Start \in Nat
  <1>1. Lookback \in Nat /\ Start \in Nat /\ Lookback <= Start
    BY TradesAssumption DEF Start, Lookback
  <1> DEFINE x == now - Lookback
  <1>2. x \in Nat
    BY <1>1
  <1> HIDE DEF x
  <1>3. Max({0, x}) = CHOOSE y \in {0, x} : \A z \in {0, x} : y >= z
    BY DEF Max
  <1>4. Max({0, x}) = x
    BY <1>2, <1>3
  <1> QED BY <1>1, <1>2, <1>4 DEF x

LEMMA PollInit == Init => PollInv
  <1> SUFFICES ASSUME Init PROVE PollInv
    OBVIOUS
  <1>1. now = Start /\ Start \in Nat /\ Lookback \in Nat /\ Lookback <= Start /\ PollTicks \in Nat
    <2>1. now = Start
      BY DEF Init
    <2>2. Start \in Nat /\ Lookback \in Nat /\ Lookback <= Start /\ PollTicks \in Nat
      BY TradesAssumption DEF Start, Lookback
    <2> QED BY <2>1, <2>2
  <1>2. PrintsInv
    <2>1. prints = <<>>
      BY DEF Init
    <2>2. DOMAIN prints = {} /\ prints \in Seq(Made) /\ now \in Nat /\ Start <= now
      BY <1>1, <2>1
    <2> QED BY <2>2 DEF PrintsInv
  <1>3. CoreTyped
    <2>1. up = TRUE /\ awake = FALSE /\ due = Start + PollTicks /\ listed = Tickers /\ todo = {} /\ cut = {}
      BY DEF Init
    <2>2. /\ tstate = [k \in Tickers |-> None] /\ from = [k \in Tickers |-> 0] /\ contact = [k \in Tickers |-> 0]
          /\ upto = [k \in Tickers |-> 0]
      BY DEF Init
    <2>3. due \in Nat
      BY <1>1, <2>1
    <2> QED BY <2>1, <2>2, <2>3 DEF CoreTyped, TypesOfPolls
  <1>4. Clock
    BY <1>1 DEF Init, Clock
  <1>5. log = <<>> /\ DOMAIN log = {} /\ log \in Seq(Row) /\ unread = {}
    BY DEF Init
  <1>6. LogSound(log) /\ Fresh
    <2>1. RowsTyped(log)
      BY <1>5 DEF RowsTyped
    <2> QED BY <1>5, <2>1 DEF LogSound, Once, InOrder, Fresh
  <1>7. CursorsSound /\ Complete /\ PolledSound
    BY DEF Init, CursorsSound, Complete, PolledSound
  <1> QED BY <1>2, <1>3, <1>4, <1>6, <1>7 DEF PollInv

\* What none of this is about.
LEMMA PollUnmoved ==
  ASSUME PollInv, UNCHANGED <<now, up, prints, awake, tstate, todo, batch, polled, log, contact, from, upto, cut, unread>>,
         listed' \subseteq Tickers, due' \in Nat
  PROVE  PollInv'
  <1>1. PrintsInv' /\ CoreTyped' /\ Clock'
    BY DEF PollInv, PrintsInv, CoreTyped, Clock, TypesOfPolls
  <1>2. (LogSound(log))'
    BY DEF PollInv, LogSound, RowsTyped, Once, InOrder, BehindLogged, In
  <1>3. CursorsSound'
    BY DEF PollInv, CursorsSound, CursorSound, CursorTyped, StandsAtRow, Remembers, Own, In
  <1>4. Fresh' /\ Complete'
    BY DEF PollInv, Fresh, Complete, Own, In
  <1>5. PolledSound'
    BY DEF PollInv, PolledSound, BatchSound
  <1> QED BY <1>1, <1>2, <1>3, <1>4, <1>5 DEF PollInv

LEMMA TickPolls == ASSUME PollInv, Tick PROVE PollInv'
  <1>1. now' = now + 1 /\ now \in Nat
        /\ UNCHANGED <<up, prints, awake, tstate, todo, batch, polled, log, contact, from, upto, cut, unread, listed, due>>
    BY DEF Tick, pollVars, PollInv, PrintsInv
  <1>2. PrintsInv'
    <2>1. \A i \in DOMAIN prints : prints[i].ts \in Nat
      BY PrintTyped DEF PollInv
    <2>2. Start \in Nat
      BY TradesAssumption DEF Start, Lookback
    <2> QED BY <1>1, <2>1, <2>2 DEF PollInv, PrintsInv
  <1>3. CoreTyped'
    BY <1>1 DEF PollInv, CoreTyped, TypesOfPolls
  <1>4. Clock'
    <2>1. Lookback \in Nat
      BY TradesAssumption DEF Lookback
    <2> QED BY <1>1, <2>1 DEF PollInv, Clock, CoreTyped, TypesOfPolls
  <1>5. (LogSound(log))'
    BY <1>1 DEF PollInv, LogSound, RowsTyped, Once, InOrder, BehindLogged, In
  <1>6. CursorsSound'
    BY <1>1 DEF PollInv, CursorsSound, CursorSound, CursorTyped, Cursor, StandsAtRow, Remembers, Own, In
  <1>7. Fresh' /\ Complete'
    BY <1>1 DEF PollInv, Fresh, Complete, Own, In
  <1>8. PolledSound'
    BY <1>1 DEF PollInv, PolledSound, BatchSound
  <1> QED BY <1>2, <1>3, <1>4, <1>5, <1>6, <1>7, <1>8 DEF PollInv

LEMMA CrashPolls == ASSUME PollInv, Crash PROVE PollInv'
  <1>1. /\ up' = FALSE /\ awake' = FALSE /\ tstate' = [k \in Tickers |-> None] /\ todo' = {} /\ batch' = <<>> /\ polled' = None
        /\ UNCHANGED <<now, prints, log, contact, from, upto, cut, unread, listed, due>>
    BY DEF Crash
  <1>2. PrintsInv' /\ CoreTyped' /\ Clock'
    BY <1>1 DEF PollInv, PrintsInv, CoreTyped, Clock, TypesOfPolls
  <1>3. (LogSound(log))'
    BY <1>1 DEF PollInv, LogSound, RowsTyped, Once, InOrder, BehindLogged, In
  <1>4. CursorsSound' /\ Fresh' /\ Complete' /\ PolledSound'
    BY <1>1 DEF PollInv, CursorsSound, Fresh, Complete, PolledSound, In
  <1> QED BY <1>2, <1>3, <1>4 DEF PollInv

LEMMA BootPolls == ASSUME PollInv, Boot PROVE PollInv'
  <1>0. PICK read \in SUBSET DOMAIN log :
          tstate' = [k \in Tickers |-> Seeded(k, read)] /\ unread' = unread \cup (DOMAIN log \ read)
    BY DEF Boot, Resumed
  <1>1. /\ ~ up /\ up' = TRUE /\ tstate' = [k \in Tickers |-> Seeded(k, read)] /\ due' = now + PollTicks
        /\ UNCHANGED <<now, prints, log, contact, from, upto, cut, listed, awake, todo, batch, polled>>
    BY <1>0 DEF Boot
  <1>2. ~ awake /\ polled = None
    BY <1>1 DEF PollInv, CoreTyped, PolledSound
  <1>3. \A k \in Tickers : SeededTo(k, read, Seeded(k, read), Len(log))
    BY SeededSound DEF PollInv, LogSound
  <1>4. \A k \in Tickers : Seeded(k, read) \in Cursor \cup {None}
    BY <1>3 DEF SeededTo, CursorTyped
  <1>5. PrintsInv' /\ CoreTyped' /\ Clock'
    BY <1>1, <1>4, TradesAssumption DEF PollInv, PrintsInv, CoreTyped, Clock, TypesOfPolls
  <1>6. (LogSound(log))'
    BY <1>0, <1>1 DEF PollInv, LogSound, RowsTyped, Once, InOrder, BehindLogged, In
  <1>7. CursorsSound'
    <2> SUFFICES ASSUME NEW k \in Tickers, tstate'[k] # None PROVE (CursorSound(k, tstate[k], log, Len(log)))'
      BY DEF CursorsSound
    <2> DEFINE st == Seeded(k, read)
    <2>1. tstate'[k] = st /\ st # None
      BY <1>1
    <2> HIDE DEF st
    <2>2. CursorTyped(k, st, log) /\ StandsAtRow(k, st, log, Len(log)) /\ RemembersRead(k, st, (1..Len(log)) \cap read)
      BY <1>3, <2>1 DEF SeededTo, st
    <2>3. \A n \in (1..Len(log)) \ unread' : n \in (1..Len(log)) \cap read
      BY <1>0, LenProperties DEF PollInv, LogSound, RowsTyped
    <2>4. (Remembers(k, tstate[k], log, Len(log)))'
      BY <1>1, <2>1, <2>2, <2>3 DEF RemembersRead, Remembers, Own
    <2> QED BY <1>1, <2>1, <2>2, <2>4 DEF CursorSound, CursorTyped, StandsAtRow, Own, In
  <1>8. Fresh'
    <2> SUFFICES ASSUME NEW k \in Tickers, tstate'[k] = None, NEW n \in DOMAIN log' \ unread', Own(log, n, k)'
                 PROVE  log'[n].contact < contact'[k]
      BY DEF Fresh
    <2>1. Seeded(k, read) = None /\ n \in (1..Len(log)) \cap read /\ Own(log, n, k)
      BY <1>0, <1>1, LenProperties DEF Own, PollInv, LogSound, RowsTyped
    <2>2. ~ Own(log, n, k)
      BY <1>3, <2>1 DEF SeededTo
    <2> QED BY <2>1, <2>2
  <1>9. Complete' /\ PolledSound'
    BY <1>1, <1>2 DEF PollInv, Complete, PolledSound, In
  <1> QED BY <1>5, <1>6, <1>7, <1>8, <1>9 DEF PollInv

\* A new print is made now, and so is out of no cursor's reach and in no poll that has begun.
LEMMA TradePolls == ASSUME PollInv, NEW k \in Tickers, Trade(k) PROVE PollInv'
  <1>1. PICK px \in Prices, taker \in Takers, vis \in now..(now + Late) :
          prints' = Append(prints, [tk |-> k, ts |-> now, vis |-> vis, px |-> px, taker |-> taker])
    BY DEF Trade
  <1>2. UNCHANGED <<now, up, log, contact, from, upto, cut, unread, listed, due, awake, todo, batch, polled, tstate>>
    BY DEF Trade, pollVars
  <1> DEFINE new == [tk |-> k, ts |-> now, vis |-> vis, px |-> px, taker |-> taker]
             N == Len(prints) + 1
  <1>3. now \in Nat /\ Late \in Nat /\ vis \in Nat /\ Start <= now /\ prints \in Seq(Made)
    BY TradesAssumption DEF PollInv, PrintsInv
  <1>4. new \in Made /\ new.tk = k /\ new.ts = now /\ new.vis = vis
    BY <1>3 DEF Made
  <1>5. prints' = Append(prints, new)
    BY <1>1
  <1>6. vis >= now /\ vis <= now + Late
    BY <1>3
  <1> HIDE DEF new
  <1>7. /\ prints' \in Seq(Made) /\ DOMAIN prints' = DOMAIN prints \cup {N} /\ DOMAIN prints = 1..Len(prints)
        /\ Len(prints) \in Nat /\ \A i \in DOMAIN prints : prints'[i] = prints[i]
        /\ prints'[N] = new
    <2>1. /\ prints' \in Seq(Made) /\ Len(prints') = Len(prints) + 1
          /\ \A i \in 1..Len(prints) : prints'[i] = prints[i]
          /\ prints'[Len(prints) + 1] = new
      BY <1>3, <1>4, <1>5, AppendProperties
    <2>2. Len(prints) \in Nat /\ DOMAIN prints = 1..Len(prints) /\ DOMAIN prints' = 1..Len(prints')
      BY <1>3, <2>1, LenProperties
    <2>3. DOMAIN prints' = DOMAIN prints \cup {N}
      BY <2>1, <2>2
    <2> QED BY <2>1, <2>2, <2>3
  <1> HIDE DEF N
  <1>8. \A i \in DOMAIN prints' : i \in DOMAIN prints \/ (prints'[i].tk = k /\ prints'[i].ts = now /\ prints'[i].vis >= now)
    BY <1>4, <1>6, <1>7
  <1>9. DOMAIN prints \subseteq DOMAIN prints'
    BY <1>7
  <1>10. \A n \in DOMAIN log : log[n].id \in DOMAIN prints
    BY DEF PollInv, LogSound, RowsTyped
  <1>11. log \in Seq(Row) /\ DOMAIN log = 1..Len(log) /\ Len(log) \in Nat
    BY LenProperties DEF PollInv, LogSound, RowsTyped
  <1>12. PrintsInv'
    <2> SUFFICES ASSUME NEW i \in DOMAIN prints'
                 PROVE /\ Start <= prints'[i].ts /\ prints'[i].ts <= now
                       /\ prints'[i].ts <= prints'[i].vis /\ prints'[i].vis <= prints'[i].ts + Late
      BY <1>2, <1>3, <1>7 DEF PrintsInv
    <2>1. CASE i \in DOMAIN prints
      BY <1>7, <2>1 DEF PollInv, PrintsInv
    <2>2. CASE i = N
      BY <1>3, <1>4, <1>6, <1>7, <2>2
    <2> QED BY <1>7, <2>1, <2>2
  <1>13. CoreTyped' /\ Clock'
    BY <1>2, <1>9 DEF PollInv, CoreTyped, TypesOfPolls, Clock
  <1>14. (LogSound(log))'
    <2>1. (RowsTyped(log))'
      BY <1>2, <1>7, <1>9, <1>10 DEF PollInv, LogSound, RowsTyped
    <2>2. (Once(log))'
      BY <1>2 DEF PollInv, LogSound, Once
    <2>3. (InOrder(log))'
      <3> SUFFICES ASSUME NEW n \in DOMAIN log', NEW i \in DOMAIN prints', prints'[i].tk = prints'[log'[n].id].tk,
                          from'[prints'[i].tk] <= prints'[i].ts, i \notin cut', Behind(prints'[i].ts, prints'[log'[n].id].ts)
                   PROVE  In(log', i)
        BY DEF InOrder, BehindLogged, Behind
      <3>1. n \in DOMAIN log /\ prints'[log'[n].id] = prints[log[n].id] /\ log[n].id \in DOMAIN prints
        BY <1>2, <1>7, <1>10
      <3>2. CASE i \in DOMAIN prints
        <4>1. prints'[i] = prints[i]
          BY <1>7, <3>2
        <4>2. BehindLogged(log, prints[log[n].id].tk, prints[log[n].id].ts)
          BY <3>1 DEF PollInv, LogSound, InOrder
        <4> QED BY <1>2, <3>1, <3>2, <4>1, <4>2 DEF BehindLogged
      <3>3. CASE prints'[i].ts = now
        <4> DEFINE x == prints[log[n].id].ts
        <4>1. x \in Nat /\ x <= now
          BY <3>1, PrintTyped DEF PollInv, PrintsInv
        <4>2. Behind(now, x)
          BY <3>1, <3>3
        <4> HIDE DEF x
        <4>3. now + TicksPerSecond <= x
          BY <1>3, <4>1, <4>2, BehindIsOld
        <4> QED BY <1>3, <4>1, <4>3, TradesAssumption
      <3> QED BY <1>8, <3>2, <3>3
    <2> QED BY <2>1, <2>2, <2>3 DEF LogSound
  <1>15. CursorsSound'
    <2> SUFFICES ASSUME NEW j \in Tickers, tstate'[j] # None PROVE (CursorSound(j, tstate[j], log, Len(log)))'
      BY DEF CursorsSound
    <2>1. CursorSound(j, tstate[j], log, Len(log)) /\ tstate'[j] = tstate[j]
      BY <1>2 DEF PollInv, CursorsSound
    <2>2. (CursorTyped(j, tstate[j], log))'
      BY <1>2, <1>7, <1>9, <2>1 DEF CursorSound, CursorTyped, In
    <2>3. (tstate[j].max_ts = from[j] \/ StandsAtRow(j, tstate[j], log, Len(log)))'
      BY <1>2, <1>7, <1>10, <1>11, <2>1 DEF CursorSound, StandsAtRow, Own
    <2>4. (Remembers(j, tstate[j], log, Len(log)))'
      BY <1>2, <1>7, <1>10, <1>11, <2>1 DEF CursorSound, Remembers, Own
    <2> QED BY <2>2, <2>3, <2>4 DEF CursorSound
  <1>16. Fresh'
    BY <1>2, <1>7, <1>10 DEF PollInv, Fresh, Own
  <1>17. Complete'
    <2> SUFFICES ASSUME NEW i \in DOMAIN prints', from[prints'[i].tk] <= prints'[i].ts,
                        prints'[i].vis < upto[prints'[i].tk], i \notin cut
                 PROVE  In(log, i)
      BY <1>2 DEF Complete, In
    <2>1. CASE i \in DOMAIN prints
      BY <1>7, <2>1 DEF PollInv, Complete
    <2>2. CASE i = N
      BY <1>3, <1>4, <1>6, <1>7, <2>2 DEF PollInv, Clock, CoreTyped, TypesOfPolls
    <2> QED BY <1>7, <2>1, <2>2
  <1>18. PolledSound'
    <2>1. CASE polled = None
      <3>1. batch' = <<>> /\ polled' = None
        BY <1>2, <2>1, TradesAssumption DEF PollInv, PolledSound
      <3> QED BY <3>1 DEF PolledSound
    <2>2. CASE polled # None
      <3> DEFINE j == polled.tk
                 st == tstate[j]
                 at == polled.at
      <3>1. polled \in [tk : Tickers, at : Nat] /\ awake /\ at <= now /\ st # None /\ BatchSound(j, st, at) /\ at \in Nat
        BY <2>2 DEF PollInv, PolledSound
      <3>2. st' = st /\ at' = at /\ j' = j
        BY <1>2
      <3>3. (BatchSound(j, st, at))'
        <4>1. batch' \in Seq(DOMAIN prints') /\ \A n \in DOMAIN batch : batch[n] \in DOMAIN prints
          <5>1. batch \in Seq(DOMAIN prints)
            BY <3>1 DEF BatchSound
          <5> QED BY <1>2, <1>9, <5>1, SeqMonotonic, ElementOfSeq, LenProperties
        <4>2. ASSUME NEW i \in DOMAIN prints', prints'[i].tk = j, prints'[i].vis < at, i \notin cut
              PROVE  i \in DOMAIN prints /\ prints'[i] = prints[i]
          <5>1. i # N
            BY <1>3, <1>4, <1>6, <1>7, <3>1, <4>2
          <5> QED BY <1>7, <5>1
        <4> HIDE DEF j, st, at
        <4> QED BY <1>2, <1>7, <3>1, <3>2, <4>1, <4>2 DEF BatchSound
      <3>4. polled' = polled /\ tstate' = tstate /\ awake' = awake /\ now' = now
        BY <1>2
      <3>5. /\ polled' \in [tk : Tickers, at : Nat] /\ awake' /\ polled'.at <= now'
            /\ tstate'[polled'.tk] # None
        BY <3>1, <3>4
      <3> QED BY <3>3, <3>5 DEF PolledSound
    <2> QED BY <2>1, <2>2
  <1> QED BY <1>12, <1>13, <1>14, <1>15, <1>16, <1>17, <1>18 DEF PollInv

\* The cursors of tickers that are gone are dropped, and with them a contact ends.
LEMMA WakePolls == ASSUME PollInv, Wake PROVE PollInv'
  <1>1. /\ up /\ ~ awake /\ awake' = TRUE /\ todo' = listed
        /\ tstate' = [k \in Tickers |-> IF k \in listed THEN tstate[k] ELSE None]
        /\ contact' = [k \in Tickers |-> IF k \in listed THEN contact[k] ELSE contact[k] + 1]
        /\ UNCHANGED <<now, up, prints, listed, due, batch, polled, log, from, upto, cut, unread>>
    BY DEF Wake
  <1>2. polled = None
    BY <1>1 DEF PollInv, PolledSound
  <1>3. \A k \in Tickers : contact[k] \in Nat /\ contact'[k] \in Nat /\ contact[k] <= contact'[k]
    BY <1>1 DEF PollInv, CoreTyped, TypesOfPolls
  <1>4. PrintsInv' /\ Clock'
    BY <1>1 DEF PollInv, PrintsInv, Clock
  <1>5. CoreTyped'
    BY <1>1 DEF PollInv, CoreTyped, TypesOfPolls
  <1>6. \A n \in DOMAIN log : /\ prints[log[n].id].tk \in Tickers /\ log[n].contact \in Nat
                              /\ log[n].contact <= contact[prints[log[n].id].tk]
    <2> SUFFICES ASSUME NEW n \in DOMAIN log
                 PROVE /\ prints[log[n].id].tk \in Tickers /\ log[n].contact \in Nat
                       /\ log[n].contact <= contact[prints[log[n].id].tk]
      OBVIOUS
    <2>1. log[n] \in Row
      BY ElementOfSeq, LenProperties DEF PollInv, LogSound, RowsTyped
    <2> QED BY <2>1, PrintTyped DEF PollInv, LogSound, RowsTyped, Row
  <1>7. (LogSound(log))'
    <2>1. (RowsTyped(log))'
      BY <1>1, <1>3, <1>6 DEF PollInv, LogSound, RowsTyped
    <2>2. (Once(log))' /\ (InOrder(log))'
      BY <1>1 DEF PollInv, LogSound, Once, InOrder, BehindLogged, In
    <2> QED BY <2>1, <2>2 DEF LogSound
  <1>8. CursorsSound'
    <2> SUFFICES ASSUME NEW k \in Tickers, tstate'[k] # None PROVE (CursorSound(k, tstate[k], log, Len(log)))'
      BY DEF CursorsSound
    <2>1. tstate'[k] = tstate[k] /\ contact'[k] = contact[k]
      BY <1>1
    <2>2. CursorSound(k, tstate[k], log, Len(log))
      BY <2>1 DEF PollInv, CursorsSound
    <2> QED BY <1>1, <2>1, <2>2 DEF CursorSound, CursorTyped, StandsAtRow, Remembers, Own, In
  <1>9. Fresh'
    <2> SUFFICES ASSUME NEW k \in Tickers, tstate'[k] = None, NEW n \in DOMAIN log \ unread, Own(log, n, k)
                 PROVE  log[n].contact < contact'[k]
      BY <1>1 DEF Fresh, Own
    <2>1. CASE k \in listed
      BY <1>1, <2>1 DEF PollInv, Fresh
    <2>2. CASE k \notin listed
      BY <1>1, <1>3, <1>6, <2>2 DEF Own
    <2> QED BY <2>1, <2>2
  <1>10. Complete' /\ PolledSound'
    BY <1>1, <1>2 DEF PollInv, Complete, PolledSound, In
  <1> QED BY <1>4, <1>5, <1>7, <1>8, <1>9, <1>10 DEF PollInv

LEMMA PassPolls == ASSUME PollInv, Asleep PROVE PollInv'
  <1>1. /\ polled = None /\ awake' = FALSE /\ due' = now + PollTicks
        /\ UNCHANGED <<now, up, prints, tstate, todo, batch, polled, log, contact, from, upto, cut, unread, listed>>
    BY DEF Asleep
  <1>2. PrintsInv' /\ Clock'
    BY <1>1 DEF PollInv, PrintsInv, Clock
  <1>6. CoreTyped'
    <2>1. due' \in Nat
      BY <1>1, TradesAssumption DEF PollInv, PrintsInv
    <2> QED BY <1>1, <2>1 DEF PollInv, CoreTyped, TypesOfPolls
  <1>3. (LogSound(log))'
    BY <1>1 DEF PollInv, LogSound, RowsTyped, Once, InOrder, BehindLogged, In
  <1>4. CursorsSound'
    BY <1>1 DEF PollInv, CursorsSound, CursorSound, CursorTyped, StandsAtRow, Remembers, Own, In
  <1>5. Fresh' /\ Complete'
    BY <1>1 DEF PollInv, Fresh, Complete, Own, In
  <1>7. PolledSound'
    <2>1. batch' = <<>> /\ polled' = None
      BY <1>1, TradesAssumption DEF PollInv, PolledSound
    <2> QED BY <2>1 DEF PolledSound
  <1> QED BY <1>2, <1>3, <1>4, <1>5, <1>6, <1>7 DEF PollInv

\* Where a poll begins: at the cursor, or one look back if there is none.
Begun(k) == IF tstate[k] = None THEN [max_ts |-> now - Lookback, ids |-> {}] ELSE tstate[k]

\* A poll of k begins, whatever it fetches: all but the batch.
LEMMA ContactSound ==
  ASSUME PollInv, NEW k \in Tickers, awake, NEW st, st = Begun(k), tstate' = [tstate EXCEPT ![k] = st],
         from' = IF tstate[k] = None THEN [from EXCEPT ![k] = now - Lookback] ELSE from,
         todo' = todo \ {k}, cut \subseteq cut', cut' \subseteq DOMAIN prints,
         UNCHANGED <<now, up, prints, listed, due, awake, log, contact, upto, unread>>
  PROVE  PrintsInv' /\ CoreTyped' /\ Clock' /\ (LogSound(log))' /\ CursorsSound' /\ Fresh' /\ Complete' /\ st \in Cursor
  <1>1. now - Lookback \in Nat /\ Lookback \in Nat /\ now \in Nat
    BY LooksBack DEF PollInv, PrintsInv
  <1>2. from \in [Tickers -> Nat] /\ tstate \in [Tickers -> Cursor \cup {None}]
    BY DEF PollInv, CoreTyped, TypesOfPolls
  <1>3. \A j \in Tickers : from[j] \in Nat /\ from'[j] \in Nat /\ from[j] <= from'[j] /\ from'[j] + Lookback <= now
    <2> SUFFICES ASSUME NEW j \in Tickers
                 PROVE  from[j] \in Nat /\ from'[j] \in Nat /\ from[j] <= from'[j] /\ from'[j] + Lookback <= now
      OBVIOUS
    <2>1. from[j] \in Nat /\ from[j] + Lookback <= now
      BY <1>2 DEF PollInv, Clock
    <2>2. from'[j] \in {from[j], now - Lookback}
      BY <1>2
    <2> QED BY <1>1, <2>1, <2>2
  <1>4. from' \in [Tickers -> Nat]
    BY <1>1, <1>2
  <1>5. st \in Cursor /\ st.max_ts <= now
    <2>1. CASE tstate[k] = None
      <3>1. st = [max_ts |-> now - Lookback, ids |-> {}]
        BY <2>1 DEF Begun
      <3>2. st.max_ts = now - Lookback
        BY <3>1
      <3> QED BY <1>1, <3>1, <3>2 DEF Cursor
    <2>2. CASE tstate[k] # None
      BY <2>2, <1>2 DEF Begun, PollInv, CursorsSound, CursorSound, CursorTyped
    <2> QED BY <2>1, <2>2
  <1>6. PrintsInv'
    BY DEF PollInv, PrintsInv
  <1>7. CoreTyped'
    <2>1. tstate' \in [Tickers -> Cursor \cup {None}]
      BY <1>2, <1>5
    <2> QED BY <1>4, <2>1 DEF PollInv, CoreTyped, TypesOfPolls
  <1>8. Clock'
    BY <1>3 DEF PollInv, Clock
  <1>9. \A i \in DOMAIN prints : prints[i].tk \in Tickers /\ prints[i].ts \in Nat
    BY PrintTyped DEF PollInv
  <1>10. \A i \in DOMAIN prints : from'[prints[i].tk] <= prints[i].ts => from[prints[i].tk] <= prints[i].ts
    BY <1>3, <1>9
  <1>11. (LogSound(log))'
    <2>1. (RowsTyped(log))' /\ (Once(log))'
      BY DEF PollInv, LogSound, RowsTyped, Once
    <2>2. (InOrder(log))'
      <3> SUFFICES ASSUME NEW n \in DOMAIN log, NEW i \in DOMAIN prints, prints[i].tk = prints[log[n].id].tk,
                          from'[prints[i].tk] <= prints[i].ts, i \notin cut', Behind(prints[i].ts, prints[log[n].id].ts)
                   PROVE  In(log, i)
        BY DEF InOrder, BehindLogged, Behind, In
      <3>1. from[prints[i].tk] <= prints[i].ts /\ i \notin cut
        BY <1>10
      <3>2. BehindLogged(log, prints[log[n].id].tk, prints[log[n].id].ts)
        BY DEF PollInv, LogSound, InOrder
      <3> QED BY <3>1, <3>2 DEF BehindLogged
    <2> QED BY <2>1, <2>2 DEF LogSound
  <1>12. CursorsSound'
    <2> SUFFICES ASSUME NEW j \in Tickers, tstate'[j] # None PROVE (CursorSound(j, tstate[j], log, Len(log)))'
      BY DEF CursorsSound
    <2>1. CASE tstate[j] # None
      <3>1. tstate'[j] = tstate[j] /\ from'[j] = from[j]
        BY <1>2, <2>1 DEF Begun
      <3>2. CursorSound(j, tstate[j], log, Len(log))
        BY <2>1 DEF PollInv, CursorsSound
      <3> QED BY <3>1, <3>2 DEF CursorSound, CursorTyped, StandsAtRow, Remembers, Own, In
    <2>2. CASE tstate[j] = None
      <3>1. j = k /\ tstate'[j] = st
        BY <1>2, <2>2
      <3>2. st = [max_ts |-> now - Lookback, ids |-> {}] /\ from'[j] = now - Lookback
        BY <1>2, <2>2, <3>1 DEF Begun
      <3>3. st.ids = {} /\ st.max_ts = from'[j]
        BY <3>2
      <3>4. up /\ DOMAIN log = 1..Len(log) /\ \A n \in DOMAIN log : log[n].contact \in Nat
        <4>1. log \in Seq(Row) /\ up
          BY DEF PollInv, CoreTyped, LogSound, RowsTyped
        <4>2. DOMAIN log = 1..Len(log)
          BY <4>1, LenProperties
        <4>3. ASSUME NEW n \in DOMAIN log PROVE log[n].contact \in Nat
          <5>1. log[n] \in Row
            BY <4>1, <4>2, ElementOfSeq
          <5> QED BY <5>1 DEF Row
        <4> QED BY <4>1, <4>2, <4>3
      <3>5. \A n \in (1..Len(log)) \ unread : Own(log, n, j) => log[n].contact < contact[j]
        BY <2>2, <3>4 DEF PollInv, Fresh
      <3>6. contact[j] \in Nat
        BY DEF PollInv, CoreTyped, TypesOfPolls
      <3>7. (CursorTyped(j, tstate[j], log))'
        BY <1>5, <3>1, <3>3 DEF CursorTyped
      <3>8. (Remembers(j, tstate[j], log, Len(log)))'
        BY <3>4, <3>5, <3>6 DEF Remembers, Own
      <3> QED BY <3>1, <3>3, <3>7, <3>8 DEF CursorSound
    <2> QED BY <2>1, <2>2
  <1>13. Fresh'
    <2>1. \A j \in Tickers : tstate'[j] = None => tstate[j] = None
      <3>1. None \notin Cursor
        BY TradesAssumption DEF Cursor
      <3> QED BY <1>2, <1>5, <3>1
    <2> QED BY <2>1 DEF PollInv, Fresh, Own
  <1>14. Complete'
    <2> SUFFICES ASSUME NEW i \in DOMAIN prints, from'[prints[i].tk] <= prints[i].ts,
                        prints[i].vis < upto[prints[i].tk], i \notin cut'
                 PROVE  In(log, i)
      BY DEF Complete, In
    <2>1. from[prints[i].tk] <= prints[i].ts /\ i \notin cut
      BY <1>10
    <2> QED BY <2>1 DEF PollInv, Complete
  <1> QED BY <1>5, <1>6, <1>7, <1>8, <1>11, <1>12, <1>13, <1>14

LEMMA FetchFailsPolls == ASSUME PollInv, NEW k \in Tickers, FetchFails(k) PROVE PollInv'
  <1>1. Max({0, now - Lookback}) = now - Lookback
    BY LooksBack DEF PollInv, PrintsInv
  <1> DEFINE st == Begun(k)
  <1>2. tstate \in [Tickers -> Cursor \cup {None}]
    BY DEF PollInv, CoreTyped
  <1>3. tstate' = [tstate EXCEPT ![k] = st]
    BY <1>1, <1>2 DEF FetchFails, Begun
  <1>4. from' = IF tstate[k] = None THEN [from EXCEPT ![k] = now - Lookback] ELSE from
    BY <1>1 DEF FetchFails
  <1>5. awake /\ polled = None /\ todo' = todo \ {k}
        /\ UNCHANGED <<now, up, prints, listed, due, awake, batch, polled, log, contact, upto, cut, unread>>
    BY DEF FetchFails
  <1>6. cut \subseteq cut' /\ cut' \subseteq DOMAIN prints
    BY <1>5 DEF PollInv, CoreTyped, TypesOfPolls
  <1> HIDE DEF st
  <1>7. st = Begun(k)
    BY DEF st
  <1>8. PrintsInv' /\ CoreTyped' /\ Clock' /\ (LogSound(log))' /\ CursorsSound' /\ Fresh' /\ Complete'
    BY <1>3, <1>4, <1>5, <1>6, <1>7, ContactSound
  <1>9. PolledSound'
    <2>1. batch' = <<>> /\ polled' = None
      BY <1>5, TradesAssumption DEF PollInv, PolledSound
    <2> QED BY <2>1 DEF PolledSound
  <1> QED BY <1>8, <1>9 DEF PollInv

\* What a poll asks for, and the newest of it.
Asked(k, st, inclusive) ==
  {i \in Served(k) : IF inclusive THEN prints[i].ts >= MinTs(st) * TicksPerSecond ELSE prints[i].ts > MinTs(st) * TicksPerSecond}

\* A page of it, oldest first, is a batch.
LEMMA PageIsBatch ==
  ASSUME PollInv, NEW k \in Tickers, NEW st \in Cursor, NEW inclusive \in BOOLEAN, NEW all, all = Asked(k, st, inclusive),
         NEW page, page \subseteq all, NEW q \in OldestFirst(page)
  PROVE  /\ q \in Seq(DOMAIN prints)
         /\ \A n \in DOMAIN q : /\ prints[q[n]].tk = k /\ prints[q[n]].vis <= now
                                /\ Floor(prints[q[n]].ts) >= Floor(st.max_ts) - 1
         /\ \A m, n \in DOMAIN q : m < n => prints[q[m]].ts <= prints[q[n]].ts
         /\ \A i \in DOMAIN prints :
              prints[i].tk = k /\ prints[i].vis <= now /\ i \notin all \ page
                => Behind(prints[i].ts, st.max_ts) \/ \E n \in DOMAIN q : q[n] = i
  <1>1. prints \in Seq(Made) /\ DOMAIN prints = 1..Len(prints) /\ Len(prints) \in Nat
    BY LenProperties DEF PollInv, PrintsInv
  <1>2. page \subseteq DOMAIN prints /\ all \subseteq DOMAIN prints
    BY DEF Asked, Served
  <1>3. IsFiniteSet(page) /\ Cardinality(page) \in Nat
    <2>1. IsFiniteSet(DOMAIN prints)
      BY <1>1, FS_Interval
    <2> QED BY <1>2, <2>1, FS_Subset, FS_CardinalityType
  <1>4. /\ q \in [1..Cardinality(page) -> page]
        /\ \A i \in page : \E n \in DOMAIN q : q[n] = i
        /\ \A m, n \in DOMAIN q : m < n => \/ prints[q[m]].ts < prints[q[n]].ts
                                          \/ (prints[q[m]].ts = prints[q[n]].ts /\ q[m] < q[n])
    BY DEF OldestFirst
  <1>5. q \in Seq(DOMAIN prints)
    <2>1. q \in Seq(page)
      BY <1>3, <1>4, SeqDef
    <2> QED BY <1>2, <2>1, SeqMonotonic
  <1>6. \A n \in DOMAIN q : q[n] \in page
    BY <1>4
  <1>7. ASSUME NEW i \in DOMAIN prints
        PROVE  /\ prints[i].ts \in Nat /\ prints[i].ts > 0 /\ MinTs(st) \in Nat /\ MinTs(st) * TicksPerSecond \in Nat
               /\ prints[i].ts >= MinTs(st) * TicksPerSecond => Floor(prints[i].ts) >= Floor(st.max_ts) - 1
               /\ prints[i].ts <= MinTs(st) * TicksPerSecond => Behind(prints[i].ts, st.max_ts)
    <2> DEFINE t == prints[i].ts
    <2>1. t \in Nat /\ t > 0
      BY PrintTyped DEF PollInv
    <2> HIDE DEF t
    <2>2. /\ MinTs(st) \in Nat
          /\ t >= MinTs(st) * TicksPerSecond => Floor(t) >= Floor(st.max_ts) - 1
          /\ t > 0 /\ t <= MinTs(st) * TicksPerSecond => Behind(t, st.max_ts)
      BY <2>1, MinTsReaches
    <2>3. MinTs(st) * TicksPerSecond \in Nat
      BY <2>2, TradesAssumption
    <2> QED BY <2>1, <2>2, <2>3 DEF t
  <1>8. ASSUME NEW i \in all PROVE prints[i].tk = k /\ prints[i].vis <= now /\ Floor(prints[i].ts) >= Floor(st.max_ts) - 1
    <2>1. i \in DOMAIN prints /\ prints[i].tk = k /\ prints[i].vis <= now
      BY DEF Asked, Served
    <2>2. IF inclusive THEN prints[i].ts >= MinTs(st) * TicksPerSecond ELSE prints[i].ts > MinTs(st) * TicksPerSecond
      BY DEF Asked
    <2>3. prints[i].ts >= MinTs(st) * TicksPerSecond
      BY <1>7, <2>1, <2>2
    <2> QED BY <1>7, <2>1, <2>3
  <1>9. ASSUME NEW n \in DOMAIN q
        PROVE prints[q[n]].tk = k /\ prints[q[n]].vis <= now /\ Floor(prints[q[n]].ts) >= Floor(st.max_ts) - 1
    BY <1>6, <1>8
  <1>10. ASSUME NEW m \in DOMAIN q, NEW n \in DOMAIN q, m < n PROVE prints[q[m]].ts <= prints[q[n]].ts
    <2>1. prints[q[m]].ts \in Nat /\ prints[q[n]].ts \in Nat
      BY <1>2, <1>6, <1>7
    <2> QED BY <1>4, <1>10, <2>1
  <1>11. ASSUME NEW i \in DOMAIN prints, prints[i].tk = k, prints[i].vis <= now, i \notin all \ page, ~ Behind(prints[i].ts, st.max_ts)
         PROVE  \E n \in DOMAIN q : q[n] = i
    <2>1. prints[i].ts > MinTs(st) * TicksPerSecond
      BY <1>7, <1>11
    <2>2. prints[i].ts >= MinTs(st) * TicksPerSecond
      BY <1>7, <2>1
    <2>3. i \in all
      BY <1>11, <2>1, <2>2 DEF Asked, Served
    <2> QED BY <1>4, <1>11, <2>3
  <1> QED BY <1>5, <1>9, <1>10, <1>11

LEMMA FetchPolls == ASSUME PollInv, NEW k \in Tickers, Fetch(k) PROVE PollInv'
  <1>1. Max({0, now - Lookback}) = now - Lookback
    BY LooksBack DEF PollInv, PrintsInv
  <1> DEFINE st == Begun(k)
  <1>2. PICK inclusive \in BOOLEAN :
          /\ batch' \in OldestFirst(Newest(Asked(k, st, inclusive), PageCap))
          /\ cut' = cut \cup (Asked(k, st, inclusive) \ Newest(Asked(k, st, inclusive), PageCap))
          /\ tstate' = [tstate EXCEPT ![k] = st]
          /\ from' = IF tstate[k] = None THEN [from EXCEPT ![k] = st.max_ts] ELSE from
    BY <1>1 DEF Fetch, Begun, Asked
  <1>3. /\ awake /\ polled = None /\ todo' = todo \ {k} /\ polled' = [tk |-> k, at |-> now]
        /\ UNCHANGED <<now, up, awake, prints, listed, due, log, contact, upto, unread>>
    BY DEF Fetch
  <1> DEFINE all == Asked(k, st, inclusive)
             page == Newest(all, PageCap)
  <1>4. page \subseteq all /\ all \subseteq DOMAIN prints
    BY DEF Newest, Asked, Served
  <1>5. from' = IF tstate[k] = None THEN [from EXCEPT ![k] = now - Lookback] ELSE from
    <2>1. tstate[k] = None => st.max_ts = now - Lookback
      BY DEF Begun
    <2> QED BY <1>2, <2>1
  <1>6. cut \subseteq cut' /\ cut' \subseteq DOMAIN prints /\ cut' = cut \cup (all \ page)
    BY <1>2, <1>4 DEF PollInv, CoreTyped, TypesOfPolls
  <1>7. tstate' = [tstate EXCEPT ![k] = st] /\ batch' \in OldestFirst(page) /\ st = Begun(k) /\ all = Asked(k, st, inclusive)
    BY <1>2
  <1> HIDE DEF st, all, page
  <1>8. PrintsInv' /\ CoreTyped' /\ Clock' /\ (LogSound(log))' /\ CursorsSound' /\ Fresh' /\ Complete' /\ st \in Cursor
    BY <1>3, <1>5, <1>6, <1>7, ContactSound
  <1>9. PolledSound'
    <2> DEFINE q == batch'
    <2>1. q \in OldestFirst(page)
      BY <1>7
    <2> HIDE DEF q
    <2>2. /\ q \in Seq(DOMAIN prints)
          /\ \A n \in DOMAIN q : /\ prints[q[n]].tk = k /\ prints[q[n]].vis <= now
                                 /\ Floor(prints[q[n]].ts) >= Floor(st.max_ts) - 1
          /\ \A m, n \in DOMAIN q : m < n => prints[q[m]].ts <= prints[q[n]].ts
          /\ \A i \in DOMAIN prints :
               prints[i].tk = k /\ prints[i].vis <= now /\ i \notin all \ page
                 => Behind(prints[i].ts, st.max_ts) \/ \E n \in DOMAIN q : q[n] = i
      BY <1>4, <1>7, <1>8, <2>1, PageIsBatch
    <2>3. ASSUME NEW i \in DOMAIN prints, prints[i].tk = k, prints[i].vis < now, i \notin cut'
          PROVE  Behind(prints[i].ts, st.max_ts) \/ \E n \in DOMAIN q : q[n] = i
      <3>1. prints[i].vis <= now /\ i \notin all \ page
        BY <1>6, <2>3, PrintTyped DEF PollInv, PrintsInv
      <3> QED BY <2>2, <2>3, <3>1
    <2>4. now \in Nat
      BY DEF PollInv, PrintsInv
    <2>5. polled'.tk = k /\ polled'.at = now /\ polled' \in [tk : Tickers, at : Nat]
      BY <1>3, <2>4
    <2>6. tstate'[k] = st /\ st # None
      BY <1>7, <1>8, TradesAssumption DEF PollInv, CoreTyped, Cursor
    <2>7. (BatchSound(polled.tk, tstate[polled.tk], polled.at))'
      <3>1. batch' = q /\ prints' = prints
        BY <1>3 DEF q
      <3> QED BY <2>2, <2>3, <2>5, <2>6, <3>1 DEF BatchSound, Behind, Floor
    <2> QED BY <1>3, <2>4, <2>5, <2>6, <2>7 DEF PolledSound
  <1> QED BY <1>8, <1>9 DEF PollInv

\* What ingest_trades leaves of the rest, however far it gets: the poll is over, and if it got to the end it is complete.
LEMMA IngestPolls ==
  ASSUME PollInv, polled # None, NEW k, k = polled.tk, NEW N \in 0..Len(batch), IngestTrades(k, N),
         batch' = <<>>, polled' = None, UNCHANGED <<now, up, prints, listed, due, awake, todo, contact, from, cut, unread>>,
         upto' = upto \/ (upto' = [upto EXCEPT ![k] = polled.at] /\ N = Len(batch))
  PROVE  PollInv'
  <1> DEFINE at == polled.at
             c == tstate[k]
  <1>1. k \in Tickers /\ at \in Nat /\ at <= now /\ c # None /\ BatchSound(k, c, at) /\ CursorSound(k, c, log, Len(log))
    BY DEF PollInv, PolledSound, CursorsSound
  <1>2. PICK st : tstate' = [tstate EXCEPT ![k] = st] /\ Progress(k, st, log', N)
    <2>1. PrintsInv /\ TypesOfPolls /\ LogSound(log) /\ CursorSound(k, tstate[k], log, Len(log)) /\ BatchSound(k, tstate[k], at)
      BY <1>1 DEF PollInv, CoreTyped
    <2> HIDE DEF at
    <2>2. \E st : tstate' = [tstate EXCEPT ![k] = st] /\ Progress(k, st, log', N)
      BY <1>1, <2>1, IngestSound
    <2> QED BY <2>2
  <1>3. LogSound(log') /\ CursorSound(k, st, log', Len(log')) /\ Extends(k, log') /\ \A m \in 1..N : In(log', batch[m])
    BY <1>2 DEF Progress
  <1>4. /\ log \in Seq(Row) /\ log' \in Seq(Row) /\ DOMAIN log = 1..Len(log) /\ DOMAIN log' = 1..Len(log')
        /\ Len(log) \in Nat /\ Len(log') \in Nat
    BY <1>3, LenProperties DEF PollInv, LogSound, RowsTyped
  <1>5. /\ Len(log) <= Len(log') /\ \A n \in 1..Len(log) : log'[n] = log[n] /\ n \in 1..Len(log')
        /\ \A n \in 1..Len(log') : n \in 1..Len(log) \/ Own(log', n, k)
    BY <1>3, <1>4 DEF Extends
  <1>6. \A i : In(log, i) => In(log', i)
    BY <1>4, <1>5 DEF In
  <1>7. st \in Cursor /\ None \notin Cursor
    BY <1>3, TradesAssumption DEF CursorSound, CursorTyped, Cursor
  <1>8. tstate \in [Tickers -> Cursor \cup {None}] /\ tstate'[k] = st /\ \A j \in Tickers \ {k} : tstate'[j] = tstate[j]
    BY <1>1, <1>2 DEF PollInv, CoreTyped
  <1>9. PrintsInv'
    BY DEF PollInv, PrintsInv
  <1>10. CoreTyped'
    <2>1. tstate' \in [Tickers -> Cursor \cup {None}]
      BY <1>2, <1>7, <1>8
    <2>2. upto' \in [Tickers -> Nat]
      BY <1>1 DEF PollInv, CoreTyped, TypesOfPolls
    <2> QED BY <2>1, <2>2 DEF PollInv, CoreTyped, TypesOfPolls
  <1>11. Clock'
    BY <1>1 DEF PollInv, Clock, CoreTyped, TypesOfPolls
  <1>12. (LogSound(log))'
    BY <1>3 DEF LogSound, RowsTyped, Once, InOrder, BehindLogged, In
  <1>13. CursorsSound'
    <2> SUFFICES ASSUME NEW j \in Tickers, tstate'[j] # None PROVE (CursorSound(j, tstate[j], log, Len(log)))'
      BY DEF CursorsSound
    <2>1. CASE j = k
      BY <1>3, <1>8, <2>1 DEF CursorSound, CursorTyped, StandsAtRow, Remembers, Own, In
    <2>2. CASE j # k
      <3>1. tstate'[j] = tstate[j] /\ CursorSound(j, tstate[j], log, Len(log))
        BY <1>8, <2>2 DEF PollInv, CursorsSound
      <3>2. (CursorTyped(j, tstate[j], log))'
        BY <1>6, <3>1 DEF CursorSound, CursorTyped, In
      <3>3. (tstate[j].max_ts = from[j] \/ StandsAtRow(j, tstate[j], log, Len(log)))'
        BY <1>5, <3>1 DEF CursorSound, StandsAtRow, Own
      <3>4. (Remembers(j, tstate[j], log, Len(log)))'
        BY <1>5, <2>2, <3>1 DEF CursorSound, Remembers, Own
      <3> QED BY <3>2, <3>3, <3>4 DEF CursorSound
    <2> QED BY <2>1, <2>2
  <1>14. Fresh'
    <2> SUFFICES ASSUME up, NEW j \in Tickers, tstate'[j] = None, NEW n \in DOMAIN log' \ unread, Own(log', n, j)
                 PROVE  log'[n].contact < contact[j]
      BY DEF Fresh, Own
    <2>1. j # k /\ tstate[j] = None
      BY <1>7, <1>8
    <2>2. n \in 1..Len(log) /\ log'[n] = log[n]
      BY <1>4, <1>5, <2>1 DEF Own
    <2> QED BY <1>4, <2>1, <2>2 DEF PollInv, Fresh, Own
  <1>15. Complete'
    <2> SUFFICES ASSUME NEW i \in DOMAIN prints, from[prints[i].tk] <= prints[i].ts, prints[i].vis < upto'[prints[i].tk], i \notin cut
                 PROVE  In(log', i)
      BY DEF Complete, In
    <2>1. CASE upto'[prints[i].tk] = upto[prints[i].tk]
      BY <1>6, <2>1 DEF PollInv, Complete
    <2>2. CASE upto'[prints[i].tk] # upto[prints[i].tk]
      <3>1. prints[i].tk = k /\ upto'[k] = at /\ N = Len(batch)
        <4>1. prints[i].tk \in Tickers /\ upto \in [Tickers -> Nat]
          BY PrintTyped DEF PollInv, CoreTyped, TypesOfPolls
        <4> QED BY <2>2, <4>1
      <3>2. CASE Behind(prints[i].ts, c.max_ts)
        <4> HIDE DEF c
        <4>1. BehindLogged(log, k, c.max_ts)
          BY <1>1, BehindTheCursor DEF PollInv, CoreTyped, LogSound
        <4> QED BY <1>6, <3>1, <3>2, <4>1 DEF BehindLogged
      <3>3. CASE \E n \in DOMAIN batch : batch[n] = i
        <4>1. DOMAIN batch = 1..Len(batch)
          BY <1>1, LenProperties DEF BatchSound
        <4> QED BY <1>3, <3>1, <3>3, <4>1
      <3> QED BY <1>1, <3>1, <3>2, <3>3 DEF BatchSound
    <2> QED BY <2>1, <2>2
  <1>16. PolledSound'
    BY DEF PolledSound
  <1> QED BY <1>9, <1>10, <1>11, <1>12, <1>13, <1>14, <1>15, <1>16 DEF PollInv

\* A step of the monitor keeps the invariant of the poll.
LEMMA PollStep == ASSUME PollInv, [Next]_vars PROVE PollInv'
  <1>1. CASE Wake
    BY <1>1, WakePolls
  <1>2. CASE Ingest
    <2> DEFINE k == polled.tk
               N == Len(batch)
    <2>1. /\ polled # None /\ IngestTrades(k, N) /\ upto' = [upto EXCEPT ![k] = polled.at] /\ batch' = <<>> /\ polled' = None
          /\ UNCHANGED <<now, up, prints, listed, due, awake, todo, contact, from, cut, unread>>
      BY <1>2 DEF Ingest
    <2>2. N \in Nat
      BY <2>1, LenProperties DEF PollInv, PolledSound, BatchSound
    <2> HIDE DEF k
    <2>3. k = polled.tk /\ N \in 0..Len(batch)
      BY <2>2 DEF k
    <2> HIDE DEF N
    <2>4. N = Len(batch)
      BY DEF N
    <2> QED BY <2>1, <2>3, <2>4, IngestPolls
  <1>3. CASE IngestFails
    <2>1. PICK N \in 0..(Len(batch) - 1) : IngestTrades(polled.tk, N)
      BY <1>3 DEF IngestFails
    <2>2. /\ batch' = <<>> /\ polled' = None
          /\ UNCHANGED <<now, up, prints, listed, due, awake, todo, contact, from, cut, unread, upto>>
      BY <1>3 DEF IngestFails
    <2>3. polled # None
      <3>1. CASE batch = <<>>
        BY <2>1, <3>1
      <3>2. polled = None => batch = <<>>
        BY TradesAssumption DEF PollInv, PolledSound
      <3> QED BY <3>1, <3>2
    <2>4. Len(batch) \in Nat
      BY <2>3, LenProperties DEF PollInv, PolledSound, BatchSound
    <2>5. N \in 0..Len(batch)
      BY <2>1, <2>4
    <2> DEFINE k == polled.tk
    <2>6. k = polled.tk /\ IngestTrades(k, N)
      BY <2>1
    <2> HIDE DEF k
    <2> QED BY <2>2, <2>3, <2>5, <2>6, IngestPolls
  <1>4. CASE Pass \/ PassFails
    <2>1. Asleep
      BY <1>4 DEF Pass, PassFails
    <2> QED BY <2>1, PassPolls
  <1>5. CASE Tick
    BY <1>5, TickPolls
  <1>6. CASE ScheduleFees
    BY <1>6, PollUnmoved DEF ScheduleFees, pollVars, PollInv, CoreTyped
  <1>7. CASE Crash
    BY <1>7, CrashPolls
  <1>8. CASE Boot
    BY <1>8, BootPolls
  <1>9. ASSUME NEW k \in Tickers, Trade(k) PROVE PollInv'
    BY <1>9, TradePolls
  <1>10. ASSUME NEW k \in Tickers, Fetch(k) PROVE PollInv'
    BY <1>10, FetchPolls
  <1>11. ASSUME NEW k \in Tickers, FetchFails(k) PROVE PollInv'
    BY <1>11, FetchFailsPolls
  <1>12. ASSUME NEW k \in Tickers, Frame(k) PROVE PollInv'
    BY <1>12, PollUnmoved DEF Frame, pollVars, PollInv, CoreTyped
  <1>13. ASSUME NEW k \in Tickers, Prune(k) PROVE PollInv'
    BY <1>13, PollUnmoved DEF Prune, pollVars, PollInv, CoreTyped
  <1>14. ASSUME NEW k \in Tickers, Register(k) PROVE PollInv'
    BY <1>14, PollUnmoved DEF Register, pollVars, PollInv, CoreTyped
  <1>15. CASE UNCHANGED vars
    BY <1>15, PollUnmoved DEF vars, pollVars, PollInv, CoreTyped
  <1>16. CASE WakeFails
    <2>1. due' \in Nat
      BY <1>16, TradesAssumption DEF WakeFails, PollInv, PrintsInv
    <2> QED BY <1>16, <2>1, PollUnmoved DEF WakeFails, pollVars, PollInv, CoreTyped
  <1> QED BY <1>1, <1>2, <1>3, <1>4, <1>5, <1>6, <1>7, <1>8, <1>9, <1>10, <1>11, <1>12, <1>13, <1>14, <1>15, <1>16 DEF Next

(***************************************************************************)
(* The ladders and the fees                                                *)
(***************************************************************************)
LadderRow == [t : Nat, tk : Tickers, k : {"tr", "hb"}, lad : Ladders, open : BOOLEAN]

LaddersTyped ==
  /\ books \in [Tickers -> Ladders] /\ hbLast \in [Tickers -> Ladders \cup {None}]
  /\ ladders \in Seq(LadderRow)

\* A listing of a finite set has its elements.
LEMMA ListedAre == ASSUME NEW S, IsFiniteSet(S) PROVE Cardinality(S) \in Nat /\ SetToSeq(S) \in [1..Cardinality(S) -> S]
  <1>1. Cardinality(S) \in Nat /\ ExistsBijection(1..Cardinality(S), S)
    BY FS_CardinalityType
  <1>2. \E f \in [1..Cardinality(S) -> S] : IsInjective(f)
    BY <1>1 DEF ExistsBijection, Bijection, Injection
  <1> QED BY <1>1, <1>2 DEF SetToSeq

\* What a pass logs: rows of now, behind the others.
LEMMA LoggedRows ==
  ASSUME now \in Nat, listed \subseteq Tickers, LaddersTyped, NEW S, S \subseteq Moved
  PROVE  /\ Logged(S) \in Seq(LadderRow) /\ Len(ladders) <= Len(Logged(S))
         /\ \A n \in 1..Len(ladders) : Logged(S)[n] = ladders[n]
         /\ \A n \in 1..Len(Logged(S)) : n > Len(ladders) => Logged(S)[n].t = now
  <1>1. S \subseteq Tickers /\ IsFiniteSet(S)
    BY TradesAssumption, FS_Subset DEF Moved
  <1> DEFINE N == Cardinality(S)
             told == SetToSeq(S)
             rows == [n \in 1..N |-> Snapshot("hb", told[n], FALSE)]
             more == Logged(S)
  <1>2. N \in Nat /\ told \in [1..N -> S] /\ ladders \in Seq(LadderRow) /\ Len(ladders) \in Nat
    BY <1>1, ListedAre, LenProperties DEF LaddersTyped
  <1>3. more = ladders \o rows
    BY DEF Logged
  <1> HIDE DEF N, told, more
  <1>4. \A n \in 1..N : Snapshot("hb", told[n], FALSE) \in LadderRow /\ Snapshot("hb", told[n], FALSE).t = now
    BY <1>1, <1>2 DEF LaddersTyped, Snapshot, LadderRow
  <1>5. rows \in [1..N -> LadderRow] /\ \A n \in 1..N : rows[n].t = now
    BY <1>4
  <1> HIDE DEF rows
  <1>6. rows \in Seq(LadderRow)
    BY <1>2, <1>5, SeqDef
  <1>7. DOMAIN rows = 1..N /\ Len(rows) = N
    BY <1>2, <1>5, <1>6, LenProperties
  <1>8. /\ more \in Seq(LadderRow) /\ Len(more) = Len(ladders) + N
        /\ \A n \in 1..Len(ladders) : more[n] = ladders[n]
        /\ \A n \in 1..(Len(ladders) + N) : n > Len(ladders) => more[n] = rows[n - Len(ladders)]
    <2>1. /\ ladders \o rows \in Seq(LadderRow) /\ Len(ladders \o rows) = Len(ladders) + Len(rows)
          /\ \A n \in 1..(Len(ladders) + Len(rows)) :
               (ladders \o rows)[n] = IF n <= Len(ladders) THEN ladders[n] ELSE rows[n - Len(ladders)]
      BY <1>2, <1>6, ConcatProperties
    <2>2. more \in Seq(LadderRow) /\ Len(more) = Len(ladders) + N
      BY <1>3, <1>7, <2>1
    <2>3. \A n \in 1..(Len(ladders) + N) : more[n] = IF n <= Len(ladders) THEN ladders[n] ELSE rows[n - Len(ladders)]
      BY <1>3, <1>7, <2>1
    <2>4. \A n \in 1..Len(ladders) : n \in 1..(Len(ladders) + N) /\ n <= Len(ladders)
      BY <1>2
    <2>5. \A n \in 1..(Len(ladders) + N) : n > Len(ladders) => ~ (n <= Len(ladders))
      BY <1>2
    <2> QED BY <2>2, <2>3, <2>4, <2>5
  <1>9. \A n \in 1..Len(more) : n > Len(ladders) => more[n].t = now
    <2>1. \A n \in 1..(Len(ladders) + N) : n > Len(ladders) => n - Len(ladders) \in 1..N
      BY <1>2
    <2> QED BY <1>5, <1>8, <2>1
  <1>10. Len(ladders) <= Len(more)
    BY <1>2, <1>8
  <1> QED BY <1>8, <1>9, <1>10 DEF more

LEMMA LadderStep == ASSUME PollInv, LaddersTyped, [Next]_vars PROVE LaddersTyped'
  <1>1. now \in Nat /\ listed \subseteq Tickers
    BY DEF PollInv, PrintsInv, CoreTyped
  <1>2. CASE Pass \/ PassFails
    <2>1. PICK S \in SUBSET Moved : ladders' = Logged(S)
      BY <1>2 DEF Pass, PassFails
    <2>2. ladders' \in Seq(LadderRow)
      BY <1>1, <2>1, LoggedRows
    <2>3. UNCHANGED books /\ hbLast' \in [Tickers -> Ladders \cup {None}]
      BY <1>2 DEF Pass, PassFails, Asleep, LaddersTyped
    <2> QED BY <2>2, <2>3 DEF LaddersTyped
  <1>3. ASSUME NEW k \in Tickers, Frame(k) PROVE LaddersTyped'
    <2>1. PICK lad \in Ladders \ {books[k]} :
            LET new   == EdgeState(lad.px)
                label == Classify(edge[k], new)
                rec   == [t |-> now, tk |-> k, k |-> "tr", lad |-> lad, open |-> label = "OPEN"]
            IN  /\ books' = [books EXCEPT ![k] = lad] /\ edge' = [edge EXCEPT ![k] = new]
                /\ IF label = None THEN UNCHANGED ladders ELSE ladders' \in {ladders, Append(ladders, rec)}
      BY <1>3 DEF Frame
    <2> DEFINE label == Classify(edge[k], EdgeState(lad.px))
               opens == label = "OPEN"
               rec == [t |-> now, tk |-> k, k |-> "tr", lad |-> lad, open |-> opens]
    <2>2. UNCHANGED hbLast /\ books' = [books EXCEPT ![k] = lad] /\ ladders' \in {ladders, Append(ladders, rec)}
      BY <1>3, <2>1 DEF Frame
    <2>3. opens \in BOOLEAN
      OBVIOUS
    <2> HIDE DEF label, opens
    <2>4. rec \in LadderRow
      BY <1>1, <2>3 DEF LadderRow
    <2> HIDE DEF rec
    <2>5. ladders' \in Seq(LadderRow)
      <3>1. ladders \in Seq(LadderRow)
        BY DEF LaddersTyped
      <3>2. Append(ladders, rec) \in Seq(LadderRow)
        BY <2>4, <3>1, AppendProperties
      <3> QED BY <2>2, <3>1, <3>2, Zenon
    <2> QED BY <2>2, <2>5 DEF LaddersTyped
  <1>4. CASE Crash
    BY <1>4 DEF Crash, LaddersTyped
  <1>5. CASE Wake
    BY <1>5 DEF Wake, bookVars, LaddersTyped
  <1>6. CASE Ingest
    BY <1>6 DEF Ingest, bookVars, LaddersTyped
  <1>7. CASE IngestFails
    BY <1>7 DEF IngestFails, bookVars, LaddersTyped
  <1>8. CASE Tick
    BY <1>8 DEF Tick, bookVars, LaddersTyped
  <1>9. CASE ScheduleFees
    BY <1>9 DEF ScheduleFees, bookVars, LaddersTyped
  <1>10. CASE Boot
    BY <1>10 DEF Boot, bookVars, LaddersTyped
  <1>11. ASSUME NEW k \in Tickers, Trade(k) PROVE LaddersTyped'
    BY <1>11 DEF Trade, bookVars, LaddersTyped
  <1>12. ASSUME NEW k \in Tickers, Fetch(k) PROVE LaddersTyped'
    BY <1>12 DEF Fetch, bookVars, LaddersTyped
  <1>13. ASSUME NEW k \in Tickers, FetchFails(k) PROVE LaddersTyped'
    BY <1>13 DEF FetchFails, bookVars, LaddersTyped
  <1>14. ASSUME NEW k \in Tickers, Prune(k) PROVE LaddersTyped'
    BY <1>14 DEF Prune, LaddersTyped
  <1>15. ASSUME NEW k \in Tickers, Register(k) PROVE LaddersTyped'
    BY <1>15 DEF Register, bookVars, LaddersTyped
  <1>16. CASE UNCHANGED vars
    BY <1>16 DEF vars, bookVars, LaddersTyped
  <1>17. CASE WakeFails
    BY <1>17 DEF WakeFails, bookVars, LaddersTyped
  <1> QED BY <1>2, <1>3, <1>4, <1>5, <1>6, <1>7, <1>8, <1>9, <1>10, <1>11, <1>12, <1>13, <1>14, <1>15, <1>16, <1>17 DEF Next

\* The ladders are logged in the order of time, none ahead of it, and every rebuilt book has its time.
LaddersInOrder ==
  /\ \A i, j \in DOMAIN ladders : i <= j => ladders[i].t <= ladders[j].t
  /\ \A i \in DOMAIN ladders : ladders[i].t <= now
  /\ \A c \in censors : c.t \in Nat

\* Rows that are logged now go behind the others.
LEMMA OrderKept ==
  ASSUME now \in Nat, LaddersTyped, LaddersInOrder, LaddersTyped', now' = now, censors' = censors,
         Len(ladders) <= Len(ladders'),
         \A n \in 1..Len(ladders) : ladders'[n] = ladders[n],
         \A n \in 1..Len(ladders') : n > Len(ladders) => ladders'[n].t = now
  PROVE  LaddersInOrder'
  <1>1. Len(ladders) \in Nat /\ Len(ladders') \in Nat /\ DOMAIN ladders = 1..Len(ladders)
        /\ DOMAIN ladders' = 1..Len(ladders')
    BY LenProperties DEF LaddersTyped
  <1>2. \A n \in 1..Len(ladders') : n \in 1..Len(ladders) \/ n > Len(ladders)
    BY <1>1
  <1>3. \A n \in 1..Len(ladders) : ladders[n].t \in Nat
    <2>1. \A n \in 1..Len(ladders) : ladders[n] \in LadderRow
      BY <1>1, ElementOfSeq DEF LaddersTyped
    <2> QED BY <2>1 DEF LadderRow
  <1>4. ASSUME NEW i \in 1..Len(ladders') PROVE ladders'[i].t <= now /\ ladders'[i].t \in Nat
    BY <1>1, <1>2, <1>3 DEF LaddersInOrder
  <1>5. ASSUME NEW i \in 1..Len(ladders'), NEW j \in 1..Len(ladders'), i <= j PROVE ladders'[i].t <= ladders'[j].t
    <2>1. CASE j \in 1..Len(ladders)
      <3>1. i \in 1..Len(ladders)
        BY <1>1, <1>5, <2>1
      <3> QED BY <1>1, <1>5, <2>1, <3>1 DEF LaddersInOrder
    <2>2. CASE j > Len(ladders)
      <3>1. ladders'[j].t = now
        BY <2>2
      <3> QED BY <1>4, <3>1
    <2> QED BY <1>2, <2>1, <2>2
  <1>6. \A c \in censors' : c.t \in Nat
    BY DEF LaddersInOrder
  <1>7. \A i \in DOMAIN ladders' : ladders'[i].t <= now'
    BY <1>1, <1>4
  <1>8. \A i, j \in DOMAIN ladders' : i <= j => ladders'[i].t <= ladders'[j].t
    BY <1>1, <1>5
  <1> QED BY <1>6, <1>7, <1>8 DEF LaddersInOrder

LEMMA OrderStep == ASSUME PollInv, LaddersTyped, LaddersTyped', LaddersInOrder, [Next]_vars PROVE LaddersInOrder'
  <1>1. now \in Nat /\ listed \subseteq Tickers /\ ladders \in Seq(LadderRow) /\ Len(ladders) \in Nat
    BY LenProperties DEF PollInv, PrintsInv, CoreTyped, LaddersTyped
  <1>2. CASE Pass \/ PassFails
    <2>1. PICK S \in SUBSET Moved : ladders' = Logged(S)
      BY <1>2 DEF Pass, PassFails
    <2>2. now' = now /\ censors' = censors
      BY <1>2 DEF Pass, PassFails, Asleep
    <2> QED BY <1>1, <2>1, <2>2, LoggedRows, OrderKept
  <1>3. ASSUME NEW k \in Tickers, Frame(k) PROVE LaddersInOrder'
    <2>1. PICK lad \in Ladders \ {books[k]} :
            LET new   == EdgeState(lad.px)
                label == Classify(edge[k], new)
                rec   == [t |-> now, tk |-> k, k |-> "tr", lad |-> lad, open |-> label = "OPEN"]
            IN  /\ books' = [books EXCEPT ![k] = lad] /\ edge' = [edge EXCEPT ![k] = new]
                /\ IF label = None THEN UNCHANGED ladders ELSE ladders' \in {ladders, Append(ladders, rec)}
      BY <1>3 DEF Frame
    <2> DEFINE label == Classify(edge[k], EdgeState(lad.px))
               opens == label = "OPEN"
               rec == [t |-> now, tk |-> k, k |-> "tr", lad |-> lad, open |-> opens]
    <2>2. now' = now /\ censors' = censors /\ ladders' \in {ladders, Append(ladders, rec)}
      BY <1>3, <2>1 DEF Frame
    <2>3. opens \in BOOLEAN
      OBVIOUS
    <2> HIDE DEF label, opens
    <2>4. rec \in LadderRow /\ rec.t = now
      BY <1>1, <2>3 DEF LadderRow
    <2> HIDE DEF rec
    <2>5. CASE ladders' = ladders
      BY <2>2, <2>5 DEF LaddersInOrder
    <2>6. CASE ladders' = Append(ladders, rec)
      <3>1. /\ Len(ladders') = Len(ladders) + 1
            /\ \A n \in 1..Len(ladders) : ladders'[n] = ladders[n]
            /\ ladders'[Len(ladders) + 1] = rec
        BY <1>1, <2>4, <2>6, AppendProperties
      <3>2. \A n \in 1..Len(ladders') : n > Len(ladders) => n = Len(ladders) + 1
        BY <1>1, <3>1
      <3>3. \A n \in 1..Len(ladders') : n > Len(ladders) => ladders'[n].t = now
        BY <2>4, <3>1, <3>2
      <3>4. Len(ladders) <= Len(ladders')
        BY <1>1, <3>1
      <3> QED BY <1>1, <2>2, <3>1, <3>3, <3>4, OrderKept
    <2> QED BY <2>2, <2>5, <2>6
  <1>4. CASE Tick
    <2>1. UNCHANGED <<ladders, censors>> /\ now' = now + 1
      BY <1>4 DEF Tick, bookVars
    <2>2. \A i \in DOMAIN ladders : ladders[i].t \in Nat
      <3>1. \A i \in DOMAIN ladders : ladders[i] \in LadderRow
        BY <1>1, ElementOfSeq, LenProperties
      <3> QED BY <3>1 DEF LadderRow
    <2>3. \A i \in DOMAIN ladders : ladders[i].t <= now + 1
      BY <1>1, <2>2 DEF LaddersInOrder
    <2> QED BY <2>1, <2>3 DEF LaddersInOrder
  <1>5. CASE Boot
    <2>1. UNCHANGED <<ladders, now>> /\ censors' = censors \cup {[v |-> v, t |-> now] : v \in Dirs}
      BY <1>5 DEF Boot
    <2>2. \A c \in censors' : c.t \in Nat
      BY <1>1, <2>1 DEF LaddersInOrder
    <2> QED BY <2>1, <2>2 DEF LaddersInOrder
  <1>6. CASE Crash
    BY <1>6 DEF Crash, LaddersInOrder
  <1>7. CASE Wake
    BY <1>7 DEF Wake, bookVars, LaddersInOrder
  <1>8. CASE Ingest
    BY <1>8 DEF Ingest, bookVars, LaddersInOrder
  <1>9. CASE IngestFails
    BY <1>9 DEF IngestFails, bookVars, LaddersInOrder
  <1>10. CASE ScheduleFees
    BY <1>10 DEF ScheduleFees, bookVars, LaddersInOrder
  <1>11. ASSUME NEW k \in Tickers, Trade(k) PROVE LaddersInOrder'
    BY <1>11 DEF Trade, bookVars, LaddersInOrder
  <1>12. ASSUME NEW k \in Tickers, Fetch(k) PROVE LaddersInOrder'
    BY <1>12 DEF Fetch, bookVars, LaddersInOrder
  <1>13. ASSUME NEW k \in Tickers, FetchFails(k) PROVE LaddersInOrder'
    BY <1>13 DEF FetchFails, bookVars, LaddersInOrder
  <1>14. ASSUME NEW k \in Tickers, Prune(k) PROVE LaddersInOrder'
    BY <1>14 DEF Prune, LaddersInOrder
  <1>15. ASSUME NEW k \in Tickers, Register(k) PROVE LaddersInOrder'
    BY <1>15 DEF Register, bookVars, LaddersInOrder
  <1>16. CASE UNCHANGED vars
    BY <1>16 DEF vars, bookVars, LaddersInOrder
  <1>17. CASE WakeFails
    BY <1>17 DEF WakeFails, bookVars, LaddersInOrder
  <1> QED BY <1>2, <1>3, <1>4, <1>5, <1>6, <1>7, <1>8, <1>9, <1>10, <1>11, <1>12, <1>13, <1>14, <1>15, <1>16, <1>17 DEF Next

\* The fee log, with its types: before the first look of a session nothing has been added to it.
FeeInv ==
  /\ fees \in Schedules /\ feeLast \in Schedules \cup {None} /\ feeLog \in Seq(Schedules)
  /\ feeLost \in BOOLEAN
  /\ feeLast = None /\ up => Len(feeLog) = feeBoot
  /\ FeeChangeLogged

LEMMA FeeTickKeeps ==
  ASSUME FeeInv, up, up', UNCHANGED <<fees, feeBoot>>, NEW changes \in Schedules \cup {None}, FeeTick(changes)
  PROVE  FeeInv'
  <1>1. None \notin Schedules /\ 0 \in Schedules
    BY TradesAssumption
  <1>2. CASE changes = None
    BY <1>2 DEF FeeInv, FeeTick, FeeNews, FeeChangeLogged
  <1>3. CASE changes # None /\ (changes = feeLast \/ (feeLast = None /\ changes = 0))
    <2>1. feeLog' = feeLog /\ feeLast' = changes /\ feeLost' = feeLost
      BY <1>3 DEF FeeTick, FeeNews, FeeInv
    <2>2. Len(feeLog) \in Nat
      BY LenProperties DEF FeeInv
    <2>3. CASE changes = feeLast
      BY <2>1, <2>3 DEF FeeInv, FeeChangeLogged
    <2>4. CASE feeLast = None /\ changes = 0
      <3>1. Len(feeLog) = feeBoot
        BY <2>4 DEF FeeInv
      <3> QED BY <1>1, <2>1, <2>2, <2>4, <3>1 DEF FeeInv, FeeChangeLogged
    <2> QED BY <1>3, <2>3, <2>4
  <1>4. CASE changes # None /\ ~ (changes = feeLast \/ (feeLast = None /\ changes = 0))
    <2>1. feeLog' = Append(feeLog, changes) /\ feeLast' = changes /\ changes \in Schedules /\ feeLog \in Seq(Schedules)
          /\ feeLost' = FALSE
      BY <1>4 DEF FeeTick, FeeNews, FeeInv
    <2>2. feeLog' \in Seq(Schedules) /\ feeLog' # <<>> /\ Last(feeLog') = changes
      BY <2>1, AppendProperties, LenProperties DEF Last
    <2> QED BY <1>1, <1>4, <2>1, <2>2 DEF FeeInv, FeeChangeLogged
  <1> QED BY <1>2, <1>3, <1>4

LEMMA FeeStep == ASSUME PollInv, FeeInv, [Next]_vars PROVE FeeInv'
  <1>1. CASE Wake
    <2>1. up /\ up' /\ UNCHANGED <<fees, feeBoot>> /\ (FeeTick(fees) \/ FeeTick(None))
      BY <1>1 DEF Wake
    <2>2. fees \in Schedules \cup {None} /\ None \in Schedules \cup {None}
      BY DEF FeeInv
    <2> QED BY <2>1, <2>2, FeeTickKeeps
  <1>2. CASE ScheduleFees
    BY <1>2 DEF ScheduleFees, FeeInv, FeeChangeLogged
  <1>3. CASE Crash
    BY <1>3, TradesAssumption DEF Crash, FeeInv, FeeChangeLogged
  <1>4. CASE Boot
    <2>1. Len(feeLog) \in Nat
      BY LenProperties DEF FeeInv
    <2> QED BY <1>4, <2>1 DEF Boot, FeeInv, FeeChangeLogged
  <1>5. CASE Ingest
    BY <1>5 DEF Ingest, feeVars, FeeInv, FeeChangeLogged
  <1>6. CASE IngestFails
    BY <1>6 DEF IngestFails, feeVars, FeeInv, FeeChangeLogged
  <1>7. CASE Pass \/ PassFails
    BY <1>7 DEF Pass, PassFails, Asleep, feeVars, FeeInv, FeeChangeLogged
  <1>8. CASE Tick
    BY <1>8 DEF Tick, feeVars, FeeInv, FeeChangeLogged
  <1>9. ASSUME NEW k \in Tickers, Trade(k) PROVE FeeInv'
    BY <1>9 DEF Trade, feeVars, FeeInv, FeeChangeLogged
  <1>10. ASSUME NEW k \in Tickers, Fetch(k) PROVE FeeInv'
    BY <1>10 DEF Fetch, feeVars, FeeInv, FeeChangeLogged
  <1>11. ASSUME NEW k \in Tickers, FetchFails(k) PROVE FeeInv'
    BY <1>11 DEF FetchFails, feeVars, FeeInv, FeeChangeLogged
  <1>12. ASSUME NEW k \in Tickers, Frame(k) PROVE FeeInv'
    BY <1>12 DEF Frame, feeVars, FeeInv, FeeChangeLogged
  <1>13. ASSUME NEW k \in Tickers, Prune(k) PROVE FeeInv'
    BY <1>13 DEF Prune, feeVars, FeeInv, FeeChangeLogged
  <1>14. ASSUME NEW k \in Tickers, Register(k) PROVE FeeInv'
    BY <1>14 DEF Register, feeVars, FeeInv, FeeChangeLogged
  <1>15. CASE UNCHANGED vars
    BY <1>15 DEF vars, feeVars, FeeInv, FeeChangeLogged
  <1>16. CASE WakeFails
    <2>1. feeLost' = TRUE /\ feeLast' = fees /\ UNCHANGED <<fees, feeLog, feeBoot>>
      BY <1>16 DEF WakeFails
    <2> QED BY <2>1, TradesAssumption DEF FeeInv, FeeChangeLogged
  <1> QED BY <1>1, <1>2, <1>3, <1>4, <1>5, <1>6, <1>7, <1>8, <1>9, <1>10, <1>11, <1>12, <1>13, <1>14, <1>15, <1>16 DEF Next

(***************************************************************************)
(* The theorems                                                            *)
(***************************************************************************)
TradesIInv == PollInv /\ LaddersTyped /\ LaddersInOrder /\ FeeInv

LEMMA TradesInvHolds == Spec => []TradesIInv
<1>1. Init => TradesIInv
  <2> SUFFICES ASSUME Init PROVE TradesIInv
    OBVIOUS
  <2>1. LaddersTyped
    BY TradesAssumption DEF Init, LaddersTyped
  <2>2. feeLog = <<>> /\ fees = 0 /\ feeLast = None /\ feeBoot = 0 /\ Len(feeLog) = 0 /\ feeLost = FALSE
    BY DEF Init
  <2>3. FeeInv
    <3>1. 0 \in Schedules /\ None \notin Schedules /\ feeLog \in Seq(Schedules)
      BY <2>2, TradesAssumption
    <3>2. FeeChangeLogged
      BY <2>2, <3>1 DEF FeeChangeLogged
    <3> QED BY <2>2, <3>1, <3>2 DEF FeeInv
  <2>4. now \in Nat /\ ladders = <<>> /\ DOMAIN ladders = {} /\ censors = {[v |-> v, t |-> now] : v \in Dirs}
    BY PollInit DEF Init, PollInv, PrintsInv
  <2>5. LaddersInOrder
    BY <2>4 DEF LaddersInOrder
  <2> QED BY <2>1, <2>3, <2>5, PollInit DEF TradesIInv
<1>2. TradesIInv /\ [Next]_vars => TradesIInv'
  BY PollStep, LadderStep, OrderStep, FeeStep DEF TradesIInv
<1> QED BY <1>1, <1>2, PTL DEF Spec

LEMMA TypesFollow == TradesIInv => TradesTypeOK
  <1> SUFFICES ASSUME TradesIInv PROVE TradesTypeOK
    OBVIOUS
  <1>1. now \in Nat /\ due \in Nat /\ {up, awake} \subseteq BOOLEAN /\ listed \subseteq Tickers /\ todo \subseteq Tickers
        /\ cut \subseteq DOMAIN prints /\ unread \subseteq DOMAIN log
    BY DEF TradesIInv, PollInv, PrintsInv, CoreTyped, TypesOfPolls, LogSound, RowsTyped
  <1>2. ASSUME NEW i \in DOMAIN prints
        PROVE  prints[i] \in [tk : Tickers, ts : Nat, vis : Nat, px : Prices, taker : Takers]
    <2>1. prints[i] \in Made
      BY ElementOfSeq, LenProperties DEF TradesIInv, PollInv, PrintsInv
    <2> QED BY <2>1 DEF Made
  <1>3. ASSUME NEW k \in Tickers
        PROVE  tstate[k] = None \/ (tstate[k].max_ts \in Nat /\ tstate[k].ids \subseteq DOMAIN prints)
    BY DEF TradesIInv, PollInv, CursorsSound, CursorSound, CursorTyped, Cursor
  <1>4. polled \in {None} \cup [tk : Tickers, at : Nat] /\ batch \in Seq(DOMAIN prints)
        /\ (polled = None => batch = <<>>) /\ (polled # None => up /\ tstate[polled.tk] # None)
    <2>1. CASE polled = None
      <3>1. batch = <<>>
        BY <2>1, TradesAssumption DEF TradesIInv, PollInv, PolledSound
      <3> QED BY <2>1, <3>1
    <2>2. CASE polled # None
      BY <2>2 DEF TradesIInv, PollInv, PolledSound, BatchSound, CoreTyped
    <2> QED BY <2>1, <2>2
  <1>5. \A i, j \in DOMAIN batch : i < j => prints[batch[i]].ts <= prints[batch[j]].ts
    <2>1. CASE batch = <<>>
      BY <2>1
    <2>2. CASE batch # <<>>
      BY <2>2 DEF TradesIInv, PollInv, PolledSound, BatchSound
    <2> QED BY <2>1, <2>2
  <1>6. \A n \in DOMAIN log : log[n].id \in DOMAIN prints
    BY DEF TradesIInv, PollInv, LogSound, RowsTyped
  <1>7. books \in [Tickers -> Ladders] /\ hbLast \in [Tickers -> Ladders \cup {None}]
    BY DEF TradesIInv, LaddersTyped
  <1>8. ASSUME NEW n \in DOMAIN ladders PROVE ladders[n].k \in {"tr", "hb"} /\ ladders[n].lad \in Ladders
    <2>1. ladders[n] \in LadderRow
      BY ElementOfSeq, LenProperties DEF TradesIInv, LaddersTyped
    <2> QED BY <2>1 DEF LadderRow
  <1>9. fees \in Schedules /\ feeLast \in Schedules \cup {None} /\ feeLog \in Seq(Schedules) /\ feeLost \in BOOLEAN
    BY DEF TradesIInv, FeeInv
  <1> QED BY <1>1, <1>2, <1>3, <1>4, <1>5, <1>6, <1>7, <1>8, <1>9 DEF TradesTypeOK

\* Every variable of the poll keeps its type, and a poll in hand is of a ticker that has a cursor, oldest print first.
THEOREM TradesTypeCorrect == Spec => []TradesTypeOK
  BY TradesInvHolds, TypesFollow, PTL

\* No print is logged twice in one contact with its ticker, through the overlap of the polls, writes that fail
\* halfway, and logs read back after a crash.
THEOREM PrintsLoggedOnce == Spec => []LoggedOnce
<1>1. TradesIInv => LoggedOnce
  BY DEF TradesIInv, PollInv, LogSound, Once, LoggedOnce
<1> QED BY <1>1, TradesInvHolds, PTL

\* Once a poll has ended, what it could be served is in the log, but for what the page cut off.
THEOREM NoPrintMissed == Spec => []NothingMissed
<1>1. TradesIInv => NothingMissed
  BY DEF TradesIInv, PollInv, Complete, In, NothingMissed
<1> QED BY <1>1, TradesInvHolds, PTL

\* All the poll promises: types, prints once and none missed, and the last word on the fees.
THEOREM TradesAlwaysSound == Spec => []TradesInv
<1>1. TradesIInv => FeeChangeLogged
  BY DEF TradesIInv, FeeInv
<1>2. TradesTypeOK /\ LoggedOnce /\ NothingMissed /\ FeeChangeLogged => TradesInv
  BY DEF TradesInv
<1> QED BY <1>1, <1>2, TradesInvHolds, TradesTypeCorrect, PrintsLoggedOnce, NoPrintMissed, PTL

(***************************************************************************)
(* Resting orders: the fees and the levels                                 *)
(***************************************************************************)

\* A taker pays, a maker does not.
LEMMA FeesSigned ==
  ASSUME NEW p \in Int, NEW v \in Dirs
  PROVE  /\ KFee(p) \in Nat /\ PFee(p) \in Nat
         /\ LegFee(v, p, TRUE) \in Int /\ LegFee(v, p, TRUE) <= 0
  <1>1. CASE Priced(p)
    <2> DEFINE q == p * (100 - p)
    <2>1. q \in Nat
      BY <1>1 DEF Priced
    <2>2. 7 * p * (100 - p) = 7 * q /\ 5 * p * (100 - p) = 5 * q /\ 125 * p * (100 - p) = 125 * q
      OBVIOUS
    <2> HIDE DEF q
    <2>3. (7 * q) \div 100 \in Nat /\ (5 * q) \div 100 \in Nat /\ (125 * q) \div 10000 \in Nat
      BY <2>1
    <2> QED BY <1>1, <2>2, <2>3 DEF KFee, PFee, LegFee
  <1>2. CASE ~ Priced(p)
    BY <1>2 DEF KFee, PFee, LegFee
  <1> QED BY <1>1, <1>2

\* The least and the greatest of two numbers.
LEMMA OfTwo ==
  ASSUME NEW a \in Int, NEW b \in Int
  PROVE  Min({a, b}) = (IF a <= b THEN a ELSE b) /\ Max({a, b}) = (IF a >= b THEN a ELSE b)
  <1> DEFINE least == IF a <= b THEN a ELSE b
             most  == IF a >= b THEN a ELSE b
  <1>1. Min({a, b}) = CHOOSE x \in {a, b} : \A y \in {a, b} : x <= y
    BY DEF Min
  <1>2. Max({a, b}) = CHOOSE x \in {a, b} : \A y \in {a, b} : x >= y
    BY DEF Max
  <1>3. /\ least \in {a, b} /\ \A x \in {a, b} : (\A y \in {a, b} : x <= y) <=> x = least
        /\ most \in {a, b} /\ \A x \in {a, b} : (\A y \in {a, b} : x >= y) <=> x = most
    OBVIOUS
  <1> HIDE DEF least, most
  <1>4. Min({a, b}) = least /\ Max({a, b}) = most
    BY <1>1, <1>2, <1>3
  <1> QED BY <1>4 DEF least, most

\* Touches of both books of which the one of venue v has a spread.
Spread(px, v) == Bid(px, v) \in Int /\ Ask(px, v) \in Int /\ Bid(px, v) < Ask(px, v)

\* A resting order lies within the spread, and an improved one is the better price.
LEMMA LevelInSpread ==
  ASSUME NEW px, NEW v \in Dirs, Spread(px, v), NEW mode \in Modes
  PROVE  /\ Level(mode, "bid", px, v) \in Int /\ Level(mode, "ask", px, v) \in Int
         /\ Bid(px, v) <= Level(mode, "bid", px, v) /\ Level(mode, "bid", px, v) < Ask(px, v)
         /\ Bid(px, v) < Level(mode, "ask", px, v) /\ Level(mode, "ask", px, v) <= Ask(px, v)
  <1> DEFINE b == Bid(px, v)
             a == Ask(px, v)
  <1>1. b \in Int /\ a \in Int /\ b < a
    BY DEF Spread
  <1>2. Level("join", "bid", px, v) = b /\ Level("join", "ask", px, v) = a
    BY DEF Level, Touch
  <1>3. Level("improve", "bid", px, v) = Min({b + 1, a - 1}) /\ Level("improve", "ask", px, v) = Max({a - 1, b + 1})
    BY DEF Level, ImproveLevel
  <1> HIDE DEF a, b
  <1>4. b + 1 \in Int /\ a - 1 \in Int
    BY <1>1
  <1>5. /\ Min({b + 1, a - 1}) = (IF b + 1 <= a - 1 THEN b + 1 ELSE a - 1)
        /\ Max({a - 1, b + 1}) = (IF a - 1 >= b + 1 THEN a - 1 ELSE b + 1)
    BY <1>4, OfTwo
  <1>6. CASE mode = "join"
    BY <1>1, <1>2, <1>6 DEF a, b
  <1>7. CASE mode = "improve"
    <2>1. /\ Level(mode, "bid", px, v) = (IF b + 1 <= a - 1 THEN b + 1 ELSE a - 1)
          /\ Level(mode, "ask", px, v) = (IF a - 1 >= b + 1 THEN a - 1 ELSE b + 1)
      BY <1>3, <1>5, <1>7
    <2> QED BY <1>1, <2>1 DEF a, b
  <1> QED BY <1>6, <1>7 DEF Modes

\* Touches that are there.
AllTouches(px) == px.p_yb \in Int /\ px.p_ya \in Int /\ px.k_yb \in Int /\ px.k_ya \in Int

\* One leg rested and the other taken brings at least what taking both brings: the level is no worse than the touch
\* that a taker pays, the hedge is the same order, and the maker's fee is no fee.
LEMMA LegKeeps ==
  ASSUME NEW px, AllTouches(px), NEW d \in Dirs, NEW leg \in LegSpecs(d), Spread(px, leg.v), NEW mode \in Modes
  PROVE  HedgeEval(leg, Level(mode, leg.side, px, leg.v), px).net >= NetOf(px, d)
  <1> DEFINE L == Level(mode, leg.side, px, leg.v)
             fee == LegFee(leg.v, L, TRUE)
  <1>1. leg.v \in Dirs /\ d \in {"P", "K"} /\ None \notin Int
    BY QuotesAssumption DEF LegSpecs, Other, Dirs
  <1>2. /\ L \in Int
        /\ leg.side = "bid" => L < Ask(px, leg.v)
        /\ leg.side = "ask" => Bid(px, leg.v) < L
    <2>1. leg.side = "bid" \/ leg.side = "ask"
      BY DEF LegSpecs
    <2>2. /\ Level(mode, "bid", px, leg.v) \in Int /\ Level(mode, "ask", px, leg.v) \in Int
          /\ Level(mode, "bid", px, leg.v) < Ask(px, leg.v)
          /\ Bid(px, leg.v) < Level(mode, "ask", px, leg.v)
      BY <1>1, LevelInSpread
    <2> QED BY <2>1, <2>2
  <1>3. fee \in Int /\ fee <= 0
    BY <1>1, <1>2, FeesSigned
  <1>4. /\ KFee(px.k_ya) \in Nat /\ KFee(100 - px.k_yb) \in Nat
        /\ PFee(px.p_ya) \in Nat /\ PFee(100 - px.p_yb) \in Nat
    <2>1. /\ px.k_ya \in Int /\ (100 - px.k_yb) \in Int /\ px.p_ya \in Int /\ (100 - px.p_yb) \in Int
          /\ "P" \in Dirs
      BY DEF AllTouches, Dirs
    <2> QED BY <2>1, FeesSigned
  <1>5. HedgeEval(leg, L, px).net = 100 * Gross(leg, L, px) - HedgeFee(leg, px) - fee
    <2>1. Touch(px, Other(leg.v), leg.side) \in Int
      BY DEF Touch, Other, Bid, Ask, AllTouches, LegSpecs
    <2>2. Touch(px, Other(leg.v), leg.side) # None
      BY <1>1, <2>1
    <2> HIDE DEF L
    <2> QED BY <2>2 DEF HedgeEval
  <1> SUFFICES HedgeEval(leg, L, px).net >= NetOf(px, d)
    OBVIOUS
  <1> HIDE DEF L, fee
  <1>6. CASE d = "P" /\ leg = [v |-> "P", side |-> "bid"]
    <2>1. Gross(leg, L, px) = px.k_yb - L /\ HedgeFee(leg, px) = KFee(100 - px.k_yb) /\ L < px.p_ya
      BY <1>2, <1>6 DEF Gross, HedgeFee, Touch, Other, Bid, Ask, LegFee
    <2>2. NetOf(px, d) = 100 * (100 - px.p_ya - (100 - px.k_yb)) - (PFee(px.p_ya) + KFee(100 - px.k_yb))
      BY <1>6 DEF NetOf, YesAsk, NoAsk
    <2> QED BY <1>2, <1>3, <1>4, <1>5, <2>1, <2>2 DEF AllTouches
  <1>7. CASE d = "P" /\ leg = [v |-> "K", side |-> "ask"]
    <2>1. Gross(leg, L, px) = L - px.p_ya /\ HedgeFee(leg, px) = PFee(px.p_ya) /\ px.k_yb < L
      BY <1>2, <1>7 DEF Gross, HedgeFee, Touch, Other, Bid, Ask, LegFee
    <2>2. NetOf(px, d) = 100 * (100 - px.p_ya - (100 - px.k_yb)) - (PFee(px.p_ya) + KFee(100 - px.k_yb))
      BY <1>7 DEF NetOf, YesAsk, NoAsk
    <2> QED BY <1>2, <1>3, <1>4, <1>5, <2>1, <2>2 DEF AllTouches
  <1>8. CASE d = "K" /\ leg = [v |-> "K", side |-> "bid"]
    <2>1. Gross(leg, L, px) = px.p_yb - L /\ HedgeFee(leg, px) = PFee(100 - px.p_yb) /\ L < px.k_ya
      BY <1>2, <1>8 DEF Gross, HedgeFee, Touch, Other, Bid, Ask, LegFee
    <2>2. NetOf(px, d) = 100 * (100 - px.k_ya - (100 - px.p_yb)) - (KFee(px.k_ya) + PFee(100 - px.p_yb))
      BY <1>8 DEF NetOf, YesAsk, NoAsk
    <2> QED BY <1>2, <1>3, <1>4, <1>5, <2>1, <2>2 DEF AllTouches
  <1>9. CASE d = "K" /\ leg = [v |-> "P", side |-> "ask"]
    <2>1. Gross(leg, L, px) = L - px.k_ya /\ HedgeFee(leg, px) = KFee(px.k_ya) /\ px.p_yb < L
      BY <1>2, <1>9 DEF Gross, HedgeFee, Touch, Other, Bid, Ask, LegFee
    <2>2. NetOf(px, d) = 100 * (100 - px.k_ya - (100 - px.p_yb)) - (KFee(px.k_ya) + PFee(100 - px.p_yb))
      BY <1>9 DEF NetOf, YesAsk, NoAsk
    <2> QED BY <1>2, <1>3, <1>4, <1>5, <2>1, <2>2 DEF AllTouches
  <1>10. /\ d = "P" => leg \in {[v |-> "P", side |-> "bid"], [v |-> "K", side |-> "ask"]}
         /\ d = "K" => leg \in {[v |-> "K", side |-> "bid"], [v |-> "P", side |-> "ask"]}
    BY DEF LegSpecs, Other
  <1> QED BY <1>1, <1>6, <1>7, <1>8, <1>9, <1>10

\* Both legs rested, at the two inner touches.
LEMMA BothKeep ==
  ASSUME NEW px, AllTouches(px), NEW d \in Dirs, Spread(px, d), Spread(px, Other(d))
  PROVE  100 * (Ask(px, Other(d)) - Bid(px, d)) - LegFee(d, Bid(px, d), TRUE) - LegFee(Other(d), Ask(px, Other(d)), TRUE)
           >= NetOf(px, d)
  <1> DEFINE f == LegFee(d, Bid(px, d), TRUE)
             g == LegFee(Other(d), Ask(px, Other(d)), TRUE)
  <1>1. d \in {"P", "K"} /\ Other(d) \in Dirs
    BY DEF Other, Dirs
  <1>2. f \in Int /\ f <= 0 /\ g \in Int /\ g <= 0
    BY <1>1, FeesSigned DEF Spread
  <1>3. /\ KFee(px.k_ya) \in Nat /\ KFee(100 - px.k_yb) \in Nat
        /\ PFee(px.p_ya) \in Nat /\ PFee(100 - px.p_yb) \in Nat
    <2>1. /\ px.k_ya \in Int /\ (100 - px.k_yb) \in Int /\ px.p_ya \in Int /\ (100 - px.p_yb) \in Int
          /\ "P" \in Dirs
      BY DEF AllTouches, Dirs
    <2> QED BY <2>1, FeesSigned
  <1> HIDE DEF f, g
  <1>4. CASE d = "P"
    <2>1. Ask(px, Other(d)) = px.k_ya /\ Bid(px, d) = px.p_yb /\ px.p_yb < px.p_ya /\ px.k_yb < px.k_ya
      BY <1>4 DEF Spread, Other, Bid, Ask
    <2>2. NetOf(px, d) = 100 * (100 - px.p_ya - (100 - px.k_yb)) - (PFee(px.p_ya) + KFee(100 - px.k_yb))
      BY <1>4 DEF NetOf, YesAsk, NoAsk
    <2>3. 100 * (px.k_ya - px.p_yb) - f - g >= NetOf(px, d)
      BY <1>2, <1>3, <2>1, <2>2 DEF AllTouches
    <2> QED BY <2>1, <2>3 DEF f, g
  <1>5. CASE d = "K"
    <2>1. Ask(px, Other(d)) = px.p_ya /\ Bid(px, d) = px.k_yb /\ px.p_yb < px.p_ya /\ px.k_yb < px.k_ya
      BY <1>5 DEF Spread, Other, Bid, Ask
    <2>2. NetOf(px, d) = 100 * (100 - px.k_ya - (100 - px.p_yb)) - (KFee(px.k_ya) + PFee(100 - px.p_yb))
      BY <1>5 DEF NetOf, YesAsk, NoAsk
    <2>3. 100 * (px.p_ya - px.k_yb) - f - g >= NetOf(px, d)
      BY <1>2, <1>3, <2>1, <2>2 DEF AllTouches
    <2> QED BY <2>1, <2>3 DEF f, g
  <1> QED BY <1>1, <1>4, <1>5

\* A row of the ladders: its touches are numbers or missing, its queues are numbers.
LEMMA RowTyped ==
  ASSUME LaddersTyped, NEW i \in DOMAIN ladders
  PROVE  /\ ladders[i].t \in Nat /\ i \in Nat /\ ladders[i].lad \in Ladders
         /\ {ladders[i].lad.px.p_yb, ladders[i].lad.px.p_ya, ladders[i].lad.px.k_yb, ladders[i].lad.px.k_ya}
              \subseteq Int \cup {None}
         /\ ladders[i].lad.ka_qty \in Nat /\ ladders[i].lad.kb_qty \in Nat
  <1>1. ladders[i] \in LadderRow /\ i \in Nat
    BY ElementOfSeq, LenProperties DEF LaddersTyped
  <1>2. ladders[i].t \in Nat /\ ladders[i].lad \in Ladders
    BY <1>1 DEF LadderRow
  <1> QED BY <1>1, <1>2, MakersAssumption

\* At an anchor all touches are there; a leg that rests has a spread.
LEMMA AnchorTouches ==
  ASSUME LaddersTyped, NEW k \in Tickers, NEW i \in Anchors(k)
  PROVE  /\ i \in Obs(k) /\ i \in DOMAIN ladders
         /\ AllTouches(ladders[i].lad.px) /\ DirAt(i) \in Dirs
         /\ \A leg \in RestingLegs(i) : leg \in LegSpecs(DirAt(i)) /\ leg.v \in Dirs /\ Spread(ladders[i].lad.px, leg.v)
  <1> DEFINE px == ladders[i].lad.px
  <1>1. i \in Obs(k) /\ i \in DOMAIN ladders /\ \A v \in Dirs : Bid(px, v) # None /\ Ask(px, v) # None
    BY DEF Anchors, Obs
  <1>2. AllTouches(px)
    <2>1. px.p_yb # None /\ px.p_ya # None /\ px.k_yb # None /\ px.k_ya # None
      BY <1>1 DEF Bid, Ask, Dirs
    <2>2. {px.p_yb, px.p_ya, px.k_yb, px.k_ya} \subseteq Int \cup {None}
      BY <1>1, RowTyped
    <2> QED BY <2>1, <2>2 DEF AllTouches
  <1>3. DirAt(i) \in Dirs
    BY DEF DirAt, EdgeState, Dirs
  <1>4. ASSUME NEW leg \in RestingLegs(i) PROVE leg \in LegSpecs(DirAt(i)) /\ leg.v \in Dirs /\ Spread(px, leg.v)
    <2>1. leg \in LegSpecs(DirAt(i)) /\ Proper(px, leg.v)
      BY DEF RestingLegs
    <2>2. leg.v \in Dirs
      BY <1>3, <2>1 DEF LegSpecs, Other, Dirs
    <2>3. Bid(px, leg.v) \in Int /\ Ask(px, leg.v) \in Int
      BY <1>2, <2>2 DEF Bid, Ask, AllTouches, Dirs
    <2> QED BY <2>1, <2>2, <2>3 DEF Proper, Spread
  <1> QED BY <1>1, <1>2, <1>3, <1>4

\* Resting a leg never promises less than taking both, in either mode, for one leg or both.
LEMMA MakersKeep == ASSUME LaddersTyped PROVE MakerKeepsTheEdge
  <1> SUFFICES ASSUME NEW k \in Tickers, NEW i \in Anchors(k)
               PROVE  /\ \A leg \in RestingLegs(i), mode \in Modes :
                           HedgeEval(leg, Level(mode, leg.side, ladders[i].lad.px, leg.v), ladders[i].lad.px).net
                             >= NetOf(ladders[i].lad.px, DirAt(i))
                      /\ BothFilled(k, i) => MakerMaker(k, i).net >= NetOf(ladders[i].lad.px, DirAt(i))
    BY DEF MakerKeepsTheEdge
  <1> DEFINE px == ladders[i].lad.px
             d  == DirAt(i)
  <1>1. /\ AllTouches(px) /\ d \in Dirs
        /\ \A leg \in RestingLegs(i) : leg \in LegSpecs(d) /\ Spread(px, leg.v)
    BY AnchorTouches
  <1>2. ASSUME NEW leg \in RestingLegs(i), NEW mode \in Modes
        PROVE  HedgeEval(leg, Level(mode, leg.side, px, leg.v), px).net >= NetOf(px, d)
    <2> HIDE DEF px, d
    <2> QED BY <1>1, LegKeeps
  <1>3. ASSUME BothFilled(k, i) PROVE MakerMaker(k, i).net >= NetOf(px, d)
    <2> DEFINE q == [v |-> d, side |-> "bid"]
               r == [v |-> Other(d), side |-> "ask"]
    <2>1. RestingLegs(i) = {q, r}
      BY <1>3 DEF BothFilled, LegSpecs
    <2>2. Spread(px, d) /\ Spread(px, Other(d))
      BY <1>1, <2>1
    <2>3. /\ (CHOOSE leg \in RestingLegs(i) : leg.side = "bid") = q
          /\ (CHOOSE leg \in RestingLegs(i) : leg.side = "ask") = r
      <3>1. q.side = "bid" /\ r.side = "ask"
        OBVIOUS
      <3> HIDE DEF q, r
      <3> QED BY <2>1, <3>1
    <2>4. MakerMaker(k, i).net = 100 * (Ask(px, r.v) - Bid(px, q.v)) - LegFee(q.v, Bid(px, q.v), TRUE)
                                   - LegFee(r.v, Ask(px, r.v), TRUE)
      <3> HIDE DEF q, r
      <3> QED BY <2>3 DEF MakerMaker
    <2>5. q.v = d /\ r.v = Other(d)
      OBVIOUS
    <2> HIDE DEF px, d, q, r
    <2>6. 100 * (Ask(px, Other(d)) - Bid(px, d)) - LegFee(d, Bid(px, d), TRUE) - LegFee(Other(d), Ask(px, Other(d)), TRUE)
            >= NetOf(px, d)
      BY <1>1, <2>2, BothKeep
    <2> QED BY <2>4, <2>5, <2>6
  <1> QED BY <1>2, <1>3

\* Resting a leg of an edge never promises less than taking both legs: in either mode, for one leg or for both, at any
\* touches, and with the fees of both venues.
THEOREM MakersAlwaysKeep == Spec => []MakerKeepsTheEdge
<1>1. TradesIInv => MakerKeepsTheEdge
  BY MakersKeep DEF TradesIInv
<1> QED BY <1>1, TradesInvHolds, PTL

(***************************************************************************)
(* Resting orders: the models of a fill                                    *)
(***************************************************************************)

\* The least of some numbers up to N.
LEMMA LeastOf ==
  ASSUME NEW N \in Nat, NEW S, S \subseteq 1..N, S # {}
  PROVE  Min(S) \in S /\ \A x \in S : Min(S) <= x
  <1> DEFINE G == {T \in SUBSET S : T # {} => \E x \in T : \A y \in T : x <= y}
  <1>1. IsFiniteSet(S)
    <2>1. IsFiniteSet(1..N)
      BY FS_Interval
    <2> QED BY <2>1, FS_Subset
  <1>2. {} \in G
    OBVIOUS
  <1>3. ASSUME NEW T \in SUBSET S, NEW x \in S, T \in G PROVE T \cup {x} \in G
    <2>1. CASE T = {}
      BY <2>1
    <2>2. CASE T # {}
      <3>1. PICK z \in T : \A y \in T : z <= y
        BY <1>3, <2>2
      <3>2. x \in Nat /\ z \in Nat /\ \A y \in T : y \in Nat
        OBVIOUS
      <3>3. CASE z <= x
        <4>1. \A y \in T \cup {x} : z <= y
          BY <3>1, <3>3
        <4> QED BY <4>1
      <3>4. CASE x < z
        <4>1. \A y \in T \cup {x} : x <= y
          BY <3>1, <3>2, <3>4
        <4> QED BY <4>1
      <3> QED BY <3>2, <3>3, <3>4
    <2> QED BY <2>1, <2>2
  <1>4. S \in G
    <2> HIDE DEF G
    <2> QED BY <1>1, <1>2, <1>3, SubsetInduction
  <1>5. \E x \in S : \A y \in S : x <= y
    BY <1>4
  <1> QED BY <1>5 DEF Min

\* What crosses an order that joins crosses one that improves.
LEMMA CrossingsGrow ==
  ASSUME LaddersTyped, NEW k \in Tickers, NEW i \in Anchors(k), NEW leg \in RestingLegs(i)
  PROVE  Crossings(k, i, leg, "join") \subseteq Crossings(k, i, leg, "improve")
  <1> SUFFICES ASSUME NEW j \in Crossings(k, i, leg, "join") PROVE j \in Crossings(k, i, leg, "improve")
    OBVIOUS
  <1> DEFINE px == ladders[i].lad.px
             py == ladders[j].lad.px
             join == Level("join", leg.side, px, leg.v)
             better == Level("improve", leg.side, px, leg.v)
             t == IF leg.side = "bid" THEN Ask(py, leg.v) ELSE Bid(py, leg.v)
  <1>1. leg.v \in Dirs /\ Spread(px, leg.v) /\ (leg.side = "bid" \/ leg.side = "ask")
    <2>1. leg.v \in Dirs /\ Spread(px, leg.v) /\ leg \in LegSpecs(DirAt(i))
      BY AnchorTouches
    <2> QED BY <2>1 DEF LegSpecs
  <1>2. j \in Obs(k) /\ i < j /\ FillCheck(leg.side, join, py, leg.v) = "def"
    BY DEF Crossings
  <1>3. t \in Int \cup {None}
    <2>1. {py.p_yb, py.p_ya, py.k_yb, py.k_ya} \subseteq Int \cup {None}
      BY <1>2, RowTyped DEF Obs
    <2> QED BY <1>1, <2>1 DEF Bid, Ask, Dirs
  <1>4. /\ join \in Int /\ better \in Int
        /\ leg.side = "bid" => join <= better
        /\ leg.side = "ask" => better <= join
    <2>1. /\ Level("join", "bid", px, leg.v) = Bid(px, leg.v) /\ Level("join", "ask", px, leg.v) = Ask(px, leg.v)
      BY DEF Level, Touch
    <2>2. /\ Level("improve", "bid", px, leg.v) \in Int /\ Level("improve", "ask", px, leg.v) \in Int
          /\ Bid(px, leg.v) <= Level("improve", "bid", px, leg.v)
          /\ Level("improve", "ask", px, leg.v) <= Ask(px, leg.v)
      <3>1. "improve" \in Modes
        BY DEF Modes
      <3> HIDE DEF px
      <3> QED BY <1>1, <3>1, LevelInSpread
    <2>3. Bid(px, leg.v) \in Int /\ Ask(px, leg.v) \in Int
      BY <1>1 DEF Spread
    <2> HIDE DEF px
    <2> QED BY <1>1, <2>1, <2>2, <2>3
  <1>5. /\ FillCheck(leg.side, join, py, leg.v) =
             (IF t = None THEN None ELSE IF t = join THEN "touch"
              ELSE IF (leg.side = "bid") = (t < join) THEN "def" ELSE None)
        /\ FillCheck(leg.side, better, py, leg.v) =
             (IF t = None THEN None ELSE IF t = better THEN "touch"
              ELSE IF (leg.side = "bid") = (t < better) THEN "def" ELSE None)
    BY DEF FillCheck
  <1>6. None # "def" /\ None \notin Int
    BY MakersAssumption, QuotesAssumption
  <1> HIDE DEF t, join, better, px, py
  <1>7. t \in Int /\ t # join /\ ((leg.side = "bid") = (t < join))
    BY <1>2, <1>3, <1>5, <1>6
  <1>8. t # better /\ ((leg.side = "bid") = (t < better))
    <2>1. CASE leg.side = "bid"
      BY <1>4, <1>7, <2>1
    <2>2. CASE leg.side = "ask"
      BY <1>4, <1>7, <2>2
    <2> QED BY <1>1, <2>1, <2>2
  <1>9. FillCheck(leg.side, better, py, leg.v) = "def"
    BY <1>5, <1>6, <1>7, <1>8
  <1> QED BY <1>2, <1>9 DEF Crossings, better, px, py

\* The fill on the touches is the first crossing.
LEMMA FirstCrossing ==
  ASSUME LaddersTyped, NEW k, NEW i, NEW leg, NEW mode, Crossings(k, i, leg, mode) # {}, NEW j, j = FilledAt(k, i, leg, mode)
  PROVE  /\ j \in Crossings(k, i, leg, mode) /\ j # None /\ j \in Nat
         /\ \A x \in Crossings(k, i, leg, mode) : j <= x
  <1> DEFINE S == Crossings(k, i, leg, mode)
  <1>1. S \subseteq 1..Len(ladders) /\ Len(ladders) \in Nat
    BY LenProperties DEF Crossings, Obs, LaddersTyped
  <1>2. j = Min(S)
    BY DEF FilledAt
  <1>3. S # {}
    OBVIOUS
  <1> HIDE DEF S
  <1>4. Min(S) \in S /\ \A x \in S : Min(S) <= x
    BY <1>1, <1>3, LeastOf
  <1>5. j \in 1..Len(ladders)
    BY <1>1, <1>2, <1>4
  <1>6. j \in Nat
    BY <1>1, <1>5
  <1>7. j # None
    BY <1>6, QuotesAssumption
  <1> QED BY <1>2, <1>4, <1>6, <1>7 DEF S

\* On the touches a better price fills no later, and strictly when the other does.
LEMMA TouchFillsAgree ==
  ASSUME LaddersTyped, LaddersInOrder, NEW k \in Tickers, NEW i \in Anchors(k), NEW leg \in RestingLegs(i),
         NEW j, j = FilledAt(k, i, leg, "join"), j # None
  PROVE  /\ FilledAt(k, i, leg, "improve") # None /\ FilledAt(k, i, leg, "improve") <= j
         /\ FillStrict(k, i, leg, "join") => FillStrict(k, i, leg, "improve")
         /\ Adjacent(Obs(k), i, j) /\ ~ CensoredBetween(leg.v, ladders[i].t, ladders[j].t)
              => i \in PeggedCrossings(k, leg.v, leg.side)
  <1> DEFINE h == FilledAt(k, i, leg, "improve")
  <1>1. Crossings(k, i, leg, "join") # {}
    BY DEF FilledAt
  <1>2. j \in Crossings(k, i, leg, "join") /\ j \in Nat
    BY <1>1, FirstCrossing
  <1>3. j \in Crossings(k, i, leg, "improve")
    BY <1>2, CrossingsGrow
  <1>4. /\ h \in Crossings(k, i, leg, "improve") /\ h # None /\ h \in Nat
        /\ \A x \in Crossings(k, i, leg, "improve") : h <= x
    BY <1>3, FirstCrossing
  <1>5. h <= j
    BY <1>3, <1>4
  <1>6. h \in DOMAIN ladders /\ j \in DOMAIN ladders
    BY <1>2, <1>4 DEF Crossings, Obs
  <1>7. ladders[h].t <= ladders[j].t /\ ladders[h].t \in Nat /\ ladders[j].t \in Nat
    BY <1>5, <1>6, RowTyped DEF LaddersInOrder
  <1> HIDE DEF h
  <1>8. ASSUME FillStrict(k, i, leg, "join") PROVE FillStrict(k, i, leg, "improve")
    <2>1. \A c \in censors : c.v = leg.v /\ c.t > ladders[i].t => ladders[j].t <= c.t
      BY <1>8 DEF FillStrict
    <2>2. \A c \in censors : c.t \in Nat
      BY DEF LaddersInOrder
    <2>3. \A c \in censors : c.v = leg.v /\ c.t > ladders[i].t => ladders[h].t <= c.t
      BY <1>7, <2>1, <2>2
    <2> QED BY <1>4, <2>3 DEF FillStrict, h
  <1>9. ASSUME Adjacent(Obs(k), i, j), ~ CensoredBetween(leg.v, ladders[i].t, ladders[j].t)
        PROVE  i \in PeggedCrossings(k, leg.v, leg.side)
    <2>1. i \in Obs(k) /\ j \in Obs(k)
      BY <1>9 DEF Adjacent
    <2>2. Proper(ladders[i].lad.px, leg.v)
      BY DEF RestingLegs
    <2>3. FillCheck(leg.side, Touch(ladders[i].lad.px, leg.v, leg.side), ladders[j].lad.px, leg.v) = "def"
      BY <1>2 DEF Crossings, Level
    <2> QED BY <1>9, <2>1, <2>2, <2>3 DEF PeggedCrossings
  <1> QED BY <1>4, <1>5, <1>8, <1>9 DEF h

\* The rows of the log in the order in which they count: by when they were received, then made, then logged.
LEMMA OneOrder ==
  ASSUME PrintsInv, RowsTyped(log), NEW m \in DOMAIN log, NEW n \in DOMAIN log
  PROVE  /\ NoLater(m, n) \/ NoLater(n, m)
         /\ NoLater(m, n) => log[m].t <= log[n].t
         /\ m \in Nat /\ log[m].t \in Nat
         /\ \A x \in DOMAIN log : NoLater(m, n) /\ NoLater(n, x) => NoLater(m, x)
  <1>1. \A x \in DOMAIN log : x \in Nat /\ log[x].t \in Nat /\ prints[log[x].id].ts \in Nat
    <2> SUFFICES ASSUME NEW x \in DOMAIN log PROVE x \in Nat /\ log[x].t \in Nat /\ prints[log[x].id].ts \in Nat
      OBVIOUS
    <2>1. log[x] \in Row /\ x \in Nat
      BY ElementOfSeq, LenProperties DEF RowsTyped
    <2>2. log[x].id \in DOMAIN prints
      BY DEF RowsTyped
    <2> QED BY <2>1, <2>2, PrintTyped DEF Row
  <1> QED BY <1>1 DEF NoLater, Sooner

\* Of some rows one is the first.
LEMMA OneIsFirst ==
  ASSUME PrintsInv, RowsTyped(log), NEW S, S \subseteq DOMAIN log, S # {}
  PROVE  \E n \in S : \A j \in S : NoLater(n, j)
  <1> DEFINE G == {T \in SUBSET S : T # {} => \E x \in T : \A y \in T : NoLater(x, y)}
  <1>1. IsFiniteSet(S)
    <2>1. DOMAIN log = 1..Len(log) /\ Len(log) \in Nat
      BY LenProperties DEF RowsTyped
    <2>2. IsFiniteSet(1..Len(log))
      BY <2>1, FS_Interval
    <2> QED BY <2>1, <2>2, FS_Subset
  <1>2. {} \in G
    OBVIOUS
  <1>3. ASSUME NEW T \in SUBSET S, NEW x \in S, T \in G PROVE T \cup {x} \in G
    <2>1. NoLater(x, x)
      BY DEF NoLater
    <2>2. CASE T = {}
      BY <2>1, <2>2
    <2>3. CASE T # {}
      <3>1. PICK z \in T : \A y \in T : NoLater(z, y)
        BY <1>3, <2>3
      <3>2. CASE NoLater(z, x)
        <4>1. \A y \in T \cup {x} : NoLater(z, y)
          BY <3>1, <3>2
        <4> QED BY <4>1
      <3>3. CASE NoLater(x, z)
        <4>1. \A y \in T : NoLater(x, y)
          BY <3>1, <3>3, OneOrder
        <4>2. \A y \in T \cup {x} : NoLater(x, y)
          BY <2>1, <4>1
        <4> QED BY <4>2
      <3>4. NoLater(z, x) \/ NoLater(x, z)
        BY OneOrder
      <3> QED BY <3>2, <3>3, <3>4
    <2> QED BY <2>2, <2>3
  <1>4. S \in G
    <2> HIDE DEF G
    <2> QED BY <1>1, <1>2, <1>3, SubsetInduction
  <1> QED BY <1>4

\* The fill on the prints is the first row that fills.
LEMMA FirstFill ==
  ASSUME PrintsInv, RowsTyped(log), NEW k, NEW a, NEW mode, Fills(k, a, mode) # {}, NEW n, n = DetectFill(k, a, mode)
  PROVE  /\ n \in Fills(k, a, mode) /\ n \in DOMAIN log /\ n # None
         /\ \A j \in Fills(k, a, mode) : NoLater(n, j)
  <1> DEFINE S == Fills(k, a, mode)
  <1>1. S \subseteq DOMAIN log /\ S # {}
    BY DEF Fills, Takes, TradeObs
  <1>2. n = CHOOSE x \in S : \A j \in S : NoLater(x, j)
    BY DEF DetectFill
  <1> HIDE DEF S
  <1>3. \E x \in S : \A j \in S : NoLater(x, j)
    BY <1>1, OneIsFirst
  <1>4. n \in S /\ \A j \in S : NoLater(n, j)
    BY <1>2, <1>3
  <1>5. n \in DOMAIN log
    BY <1>1, <1>4
  <1>6. n # None
    BY <1>5, OneOrder, QuotesAssumption
  <1> QED BY <1>4, <1>5, <1>6 DEF S

\* What fills an order behind a queue fills one ahead of it.
LEMMA FillsGrow ==
  ASSUME LaddersTyped, PrintsInv, RowsTyped(log), NEW k \in Tickers, NEW a \in Placements(k)
  PROVE  Fills(k, a, "join") \subseteq Fills(k, a, "improve")
  <1> SUFFICES ASSUME NEW n \in Fills(k, a, "join") PROVE n \in Fills(k, a, "improve")
    OBVIOUS
  <1>1. QueueAhead(a) \in Nat /\ Clip \in Nat
    <2>1. a.i \in DOMAIN ladders
      BY DEF Placements, LadderObs
    <2> QED BY <2>1, RowTyped, MakersAssumption DEF QueueAhead
  <1>2. Cardinality(AtLevel(k, a, n)) \in Nat
    <2>1. DOMAIN log = 1..Len(log) /\ Len(log) \in Nat
      BY LenProperties DEF RowsTyped
    <2>2. AtLevel(k, a, n) \subseteq 1..Len(log)
      BY <2>1 DEF AtLevel, Takes, TradeObs
    <2>4. IsFiniteSet(1..Len(log))
      BY <2>1, FS_Interval
    <2>3. IsFiniteSet(AtLevel(k, a, n))
      BY <2>2, <2>4, FS_Subset
    <2> QED BY <2>3, FS_CardinalityType
  <1> DEFINE c == Cardinality(AtLevel(k, a, n))
             thru == Through(a.d, prints[log[n].id].px, LevelOf(a))
             at == prints[log[n].id].px = LevelOf(a)
  <1>3. n \in Takes(k, a) /\ (thru \/ (at /\ c >= Clip + QueueAhead(a)))
    BY DEF Fills
  <1> HIDE DEF c, thru, at
  <1>4. thru \/ (at /\ c >= Clip + 0)
    BY <1>1, <1>2, <1>3 DEF c
  <1> QED BY <1>3, <1>4 DEF Fills, c, thru, at

LEMMA ModelsAgree == ASSUME TradesIInv PROVE FillModelsAgree
  <1>1. LaddersTyped /\ LaddersInOrder /\ PrintsInv /\ RowsTyped(log)
    BY DEF TradesIInv, PollInv, LogSound
  <1>2. ASSUME NEW k \in Tickers, NEW i \in Anchors(k), NEW leg \in RestingLegs(i), FilledAt(k, i, leg, "join") # None
        PROVE  /\ FilledAt(k, i, leg, "improve") # None
               /\ FilledAt(k, i, leg, "improve") <= FilledAt(k, i, leg, "join")
               /\ FillStrict(k, i, leg, "join") => FillStrict(k, i, leg, "improve")
               /\ Adjacent(Obs(k), i, FilledAt(k, i, leg, "join"))
                    /\ ~ CensoredBetween(leg.v, ladders[i].t, ladders[FilledAt(k, i, leg, "join")].t)
                    => i \in PeggedCrossings(k, leg.v, leg.side)
    BY <1>1, <1>2, TouchFillsAgree
  <1>3. ASSUME NEW k \in Tickers, NEW a \in Placements(k), DetectFill(k, a, "join") # None
        PROVE  DetectFill(k, a, "improve") # None /\ NoLater(DetectFill(k, a, "improve"), DetectFill(k, a, "join"))
    <2>1. Fills(k, a, "join") # {}
      BY <1>3 DEF DetectFill
    <2>2. DetectFill(k, a, "join") \in Fills(k, a, "join")
      BY <1>1, <2>1, FirstFill
    <2>3. DetectFill(k, a, "join") \in Fills(k, a, "improve")
      BY <1>1, <2>2, FillsGrow
    <2> QED BY <1>1, <2>3, FirstFill
  <1> QED BY <1>2, <1>3 DEF FillModelsAgree

\* A print through the level of an order, made after it was placed and polled since.
LEMMA ThroughCounts == ASSUME TradesIInv PROVE ThroughIsCounted
  <1>1. LaddersTyped /\ PrintsInv /\ RowsTyped(log) /\ Complete
    BY DEF TradesIInv, PollInv, LogSound
  <1> SUFFICES ASSUME NEW i \in DOMAIN prints, NEW k, k = prints[i].tk,
                      from[k] <= prints[i].ts, prints[i].vis < upto[k], i \notin cut,
                      NEW a \in Placements(k), prints[i].taker = Want(a.d), prints[i].ts > ladders[a.i].t,
                      Through(a.d, prints[i].px, LevelOf(a)), NEW mode \in Modes
               PROVE  /\ Measure(k, mode)[a].what # "unfilled"
                      /\ \E m \in DOMAIN log : log[m].id = i /\ log[m].t >= log[DetectFill(k, a, mode)].t
    BY DEF ThroughIsCounted
  <1>2. PICK m \in DOMAIN log : log[m].id = i
    BY <1>1 DEF Complete, In
  <1>3. log[m].t > ladders[a.i].t /\ log[m].t \in Nat
    <2>1. a.i \in DOMAIN ladders
      BY DEF Placements, LadderObs
    <2>2. ladders[a.i].t \in Nat /\ prints[i].ts \in Nat /\ log[m].t \in Nat
      BY <1>1, <2>1, RowTyped, PrintTyped, OneOrder
    <2>3. prints[i].ts <= log[m].t
      BY <1>1, <1>2 DEF RowsTyped
    <2> QED BY <2>2, <2>3
  <1>4. m \in Fills(k, a, mode)
    <2>1. m \in Takes(k, a)
      BY <1>2, <1>3 DEF Takes, TradeObs
    <2> QED BY <1>2, <2>1 DEF Fills
  <1> DEFINE n == DetectFill(k, a, mode)
  <1>5. n \in DOMAIN log /\ n # None /\ NoLater(n, m)
    BY <1>1, <1>4, FirstFill
  <1>6. log[m].t >= log[n].t
    <2>1. log[n].t <= log[m].t /\ log[n].t \in Nat
      BY <1>1, <1>5, OneOrder
    <2> QED BY <1>3, <2>1
  <1>7. Measure(k, mode)[a].what # "unfilled"
    <2> DEFINE l == LadderAt(k, log[n].t)
    <2>1. Measure(k, mode)[a] = IF n = None THEN [what |-> "unfilled"]
                                ELSE IF l = None THEN [what |-> "no_ladder"] ELSE EvaluateFill(a, l)
      BY DEF Measure
    <2>2. EvaluateFill(a, l).what = "filled"
      BY DEF EvaluateFill
    <2> HIDE DEF n, l
    <2> QED BY <1>5, <2>1, <2>2
  <1> QED BY <1>2, <1>6, <1>7

\* A better price fills no later, on the touches and on the prints; a join filled by the next observation is a pegged
\* crossing; and what the market traded through counts as filled once it has been polled, for any prints, ladders,
\* queues and clips, and through failures, crashes and late prints.
THEOREM FillsAlwaysAgree == Spec => []FillsAgree
<1>1. TradesIInv => FillsAgree
  BY ModelsAgree, ThroughCounts DEF FillsAgree
<1> QED BY <1>1, TradesInvHolds, PTL
=============================================================================
