--------------------------- MODULE Monitor_proofs ---------------------------
(***************************************************************************)
(* Theorems about the trackers of the monitor: the log of the markets, for *)
(* any markets, books, windows, reconnects and restarts, the episodes the  *)
(* analysis reads out of it and what the replays tell of them; books of     *)
(* a game, for any prices, books, changes and losses of frames and         *)
(* connections, whatever the bot fires beside them, and the prices and     *)
(* depths that are logged of it; and what the study of the depths reads    *)
(* out of the log of those fires.                                          *)
(***************************************************************************)
EXTENDS Latency, Fires, SumTheorems, SequenceTheorems, TLAPS

(***************************************************************************)
(* Edges                                                                   *)
(***************************************************************************)

\* A fee is a number.
LEMMA FeesTyped == \A p \in Int : KFee(p) \in Int /\ PFee(p) \in Int
  <1>1. ASSUME NEW p \in Int PROVE KFee(p) \in Int /\ PFee(p) \in Int
    <2>1. 7 * p * (100 - p) \in Int /\ 5 * p * (100 - p) \in Int
      OBVIOUS
    <2>2. (7 * p * (100 - p)) \div 100 \in Int /\ (5 * p * (100 - p)) \div 100 \in Int
      BY <2>1
    <2> QED BY <2>2 DEF KFee, PFee
  <1> QED BY <1>1

\* A direction that is quoted has a net edge.
LEMMA NetTyped ==
  ASSUME NEW b \in Books, NEW d \in Dirs, Quoted(b, d)
  PROVE  NetOf(b, d) \in Int
  <1>1. /\ YesAsk(b, d) \in Int /\ NoAsk(b, d) \in Int
    BY EpisodesAssumption DEF Quoted, YesAsk, NoAsk, Dirs
  <1>2. /\ KFee(YesAsk(b, d)) \in Int /\ PFee(YesAsk(b, d)) \in Int
        /\ KFee(NoAsk(b, d)) \in Int /\ PFee(NoAsk(b, d)) \in Int
    BY <1>1, FeesTyped
  <1> QED BY <1>1, <1>2 DEF NetOf

\* What two books are worth is an edge state.
LEMMA EdgeTyped ==
  ASSUME NEW b \in Books
  PROVE  EdgeState(b).arb \in BOOLEAN /\ EdgeState(b).dir \in Dirs /\ EdgeState(b).net \in Int
  <1> DEFINE opts == {d \in Dirs : Quoted(b, d) /\ ~ Stale(b)}
             best == IF "P" \in opts /\ \A d \in opts : NetOf(b, "P") >= NetOf(b, d) THEN "P" ELSE "K"
  <1>1. best \in Dirs
    BY DEF Dirs
  <1>2. opts # {} => NetOf(b, best) \in Int
    <2>1. \A d \in opts : NetOf(b, d) \in Int
      BY NetTyped
    <2>2. opts # {} => best \in opts
      <3> SUFFICES ASSUME opts # {}, best # "P" PROVE "K" \in opts
        BY DEF Dirs
      <3>1. CASE "P" \notin opts
        BY <3>1 DEF Dirs
      <3>2. CASE "P" \in opts
        <4>1. PICK d \in opts : ~ (NetOf(b, "P") >= NetOf(b, d))
          BY <3>2
        <4>2. d # "P"
          BY <2>1, <3>2, <4>1
        <4> QED BY <4>2 DEF Dirs
      <3> QED BY <3>1, <3>2
    <2> QED BY <2>1, <2>2
  <1>3. EdgeState(b) = IF opts = {} THEN [arb |-> FALSE, dir |-> "P", net |-> 0]
                       ELSE [arb |-> NetOf(b, best) > 0, dir |-> best, net |-> NetOf(b, best)]
    BY DEF EdgeState
  <1> HIDE DEF opts, best
  <1>4. CASE opts = {}
    BY <1>3, <1>4 DEF Dirs
  <1>5. CASE opts # {}
    <2> DEFINE net == NetOf(b, best)
    <2>1. net \in Int /\ EdgeState(b) = [arb |-> net > 0, dir |-> best, net |-> net]
      BY <1>2, <1>3, <1>5
    <2> HIDE DEF net
    <2>2. (net > 0) \in BOOLEAN
      BY <2>1
    <2> QED BY <1>1, <2>1, <2>2
  <1> QED BY <1>4, <1>5

\* A state is an edge, and an edge is a state.
LEMMA StatesTyped ==
  /\ \A b \in Books : EdgeState(b) \in EdgeStates /\ EdgeState(b) # None
  /\ \A e \in EdgeStates : e.arb \in BOOLEAN /\ e.dir \in Dirs /\ e.dir # None /\ e.net \in Int /\ e # None
  BY EdgeTyped, EpisodesAssumption DEF EdgeStates

\* What is logged depends on whether there was an edge, and whether there is one.
LEMMA Classified ==
  ASSUME NEW prev \in EdgeStates \cup {None}, NEW new \in EdgeStates
  PROVE  LET was == prev # None /\ prev.arb
             label == Classify(prev, new)
         IN  /\ label \in Labels \cup {None}
             /\ label = "OPEN" <=> ~ was /\ new.arb
             /\ label = "CLOSE" <=> was /\ ~ new.arb
             /\ label = None => (was <=> new.arb)
             /\ label \in Labels \ {"OPEN", "CLOSE"} => was /\ new.arb
  <1>1. new.arb \in BOOLEAN /\ new # None /\ (prev # None => prev.arb \in BOOLEAN)
    BY StatesTyped
  <1>2. None \notin Labels
    BY EpisodesAssumption
  <1> QED BY <1>1, <1>2 DEF Classify, Labels

(***************************************************************************)
(* One log                                                                 *)
(***************************************************************************)
InOrder(q) == \A i \in 1..(Len(q) - 1) : q[i].t <= q[i + 1].t

UpTo(q, t) == \A i \in 1..Len(q) : q[i].t <= t

\* Between two records of a log is one of the markers M, or a close of D that was lost.
Between(d, e, M, D) ==
  \/ \E t \in M : d.t <= t /\ t <= e.t
  \/ \E t \in D : d.t <= t /\ e.t - t > Window

Reopens(q, M, D) ==
  \A i \in 1..(Len(q) - 1) : q[i + 1].label = "OPEN" /\ q[i].label # "CLOSE" => Between(q[i], q[i + 1], M, D)

\* A record is appended.
LEMMA LogGrows ==
  ASSUME NEW q \in Seq(Record), NEW e \in Record
  PROVE  /\ Append(q, e) \in Seq(Record) /\ Len(q) \in Nat /\ Len(Append(q, e)) = Len(q) + 1
         /\ \A i \in 1..Len(q) : Append(q, e)[i] = q[i]
         /\ Append(q, e)[Len(q) + 1] = e
  OBVIOUS

\* A record that is not earlier than those before it keeps the order.
LEMMA OrderGrows ==
  ASSUME NEW q \in Seq(Record), NEW e \in Record, InOrder(q), UpTo(q, e.t)
  PROVE  InOrder(Append(q, e)) /\ UpTo(Append(q, e), e.t)
  <1> DEFINE r == Append(q, e)
  <1>1. /\ Len(q) \in Nat /\ Len(r) = Len(q) + 1 /\ r[Len(q) + 1] = e
        /\ \A i \in 1..Len(q) : r[i] = q[i]
    BY LogGrows
  <1> HIDE DEF r
  <1>2. e.t \in Nat
    BY DEF Record
  <1>3. UpTo(r, e.t)
    BY <1>1, <1>2 DEF UpTo
  <1>4. ASSUME NEW i \in 1..(Len(r) - 1) PROVE r[i].t <= r[i + 1].t
    <2>1. CASE i = Len(q)
      BY <1>1, <1>4, <2>1 DEF UpTo
    <2>2. CASE i # Len(q)
      <3>1. i \in 1..(Len(q) - 1) /\ r[i] = q[i] /\ r[i + 1] = q[i + 1]
        BY <1>1, <1>4, <2>2
      <3> QED BY <3>1 DEF InOrder
    <2> QED BY <2>1, <2>2
  <1> QED BY <1>3, <1>4 DEF InOrder, r

\* An opening behind a close, or with something between, leaves no other edge opened twice.
LEMMA ReopensGrows ==
  ASSUME NEW q \in Seq(Record), NEW e \in Record, NEW M, NEW D, Reopens(q, M, D),
         e.label = "OPEN" /\ Len(q) > 0 /\ q[Len(q)].label # "CLOSE" => Between(q[Len(q)], e, M, D)
  PROVE  Reopens(Append(q, e), M, D)
  <1> DEFINE r == Append(q, e)
  <1>1. /\ Len(q) \in Nat /\ Len(r) = Len(q) + 1 /\ r[Len(q) + 1] = e
        /\ \A i \in 1..Len(q) : r[i] = q[i]
    BY LogGrows
  <1> HIDE DEF r
  <1>2. ASSUME NEW i \in 1..(Len(r) - 1), r[i + 1].label = "OPEN", r[i].label # "CLOSE"
        PROVE  Between(r[i], r[i + 1], M, D)
    <2>1. CASE i = Len(q)
      <3>1. r[i] = q[Len(q)] /\ r[i + 1] = e /\ Len(q) > 0
        BY <1>1, <1>2, <2>1
      <3> QED BY <1>2, <3>1
    <2>2. CASE i # Len(q)
      <3>1. i \in 1..(Len(q) - 1) /\ r[i] = q[i] /\ r[i + 1] = q[i + 1]
        BY <1>1, <1>2, <2>2
      <3> QED BY <1>2, <3>1 DEF Reopens
    <2> QED BY <2>1, <2>2
  <1> QED BY <1>2 DEF Reopens, r

\* What is between two records stays between them.
LEMMA ReopensStays ==
  ASSUME NEW q, NEW M, NEW D, NEW N, NEW E, M \subseteq N, D \subseteq E, Reopens(q, M, D)
  PROVE  Reopens(q, N, E)
  BY DEF Reopens, Between

\* A close seen is among the closes.
LEMMA ClosesGrow ==
  ASSUME NEW q \in Seq(Record), NEW e \in Record
  PROVE  Closes(q) \subseteq Closes(Append(q, e)) /\ (e.label = "CLOSE" => e.t \in Closes(Append(q, e)))
  <1> DEFINE r == Append(q, e)
  <1>1. /\ Len(q) \in Nat /\ Len(r) = Len(q) + 1 /\ r[Len(q) + 1] = e
        /\ \A i \in 1..Len(q) : r[i] = q[i]
    BY LogGrows
  <1> HIDE DEF r
  <1>2. ASSUME NEW t \in Closes(q) PROVE t \in Closes(r)
    <2>1. PICK i \in 1..Len(q) : q[i].label = "CLOSE" /\ t = q[i].t
      BY DEF Closes
    <2>2. i \in 1..Len(r) /\ r[i] = q[i]
      BY <1>1
    <2> QED BY <2>1, <2>2 DEF Closes
  <1>3. e.label = "CLOSE" => e.t \in Closes(r)
    <2>1. Len(q) + 1 \in 1..Len(r)
      BY <1>1
    <2> QED BY <1>1, <2>1 DEF Closes
  <1> QED BY <1>2, <1>3 DEF r

(***************************************************************************)
(* The order of the log                                                    *)
(***************************************************************************)

\* When the edge of a market changed last, as far as its log will tell.
Horizon(m) == IF pending[m] = None THEN now ELSE pending[m].t

OneMarket(m) ==
  /\ pending[m] # None => lastDir[m] # None /\ pending[m].t <= now /\ state[m] # None /\ ~ state[m].arb
  /\ state[m] # None /\ state[m].arb => lastDir[m] # None
  /\ InOrder(log[m]) /\ UpTo(log[m], Horizon(m))

OrderInv == EpisodesTypeOK /\ \A m \in Markets : OneMarket(m)

\* A frame of m, of the books px.
FrameOf(m, px) ==
  LET new == EdgeState(px)
      label == Classify(state[m], new)
  IN  /\ state' = [state EXCEPT ![m] = new]
      /\ IF label = None THEN UNCHANGED <<pending, lastDir, log, seen>>
         ELSE /\ Feed(m, label, new, px)
              /\ seen' = [seen EXCEPT ![m] = Append(@, Entry(now, label, new, px))]

\* What a frame may make of its market; the others are left alone.
FrameDoes(m, px) ==
  LET new == EdgeState(px)
      was == state[m] # None /\ state[m].arb
      Logs(label) == log'[m] = Append(log[m], Entry(now, label, new, px))
  IN  /\ state'[m] = new /\ \A k \in Markets \ {m} : state'[k] = state[k] /\ pending'[k] = pending[k]
                                                    /\ lastDir'[k] = lastDir[k] /\ log'[k] = log[k]
      /\ \/ (was <=> new.arb) /\ pending'[m] = pending[m] /\ lastDir'[m] = lastDir[m] /\ log'[m] = log[m]
         \/ was /\ ~ new.arb /\ pending'[m] = [t |-> now, px |-> px] /\ lastDir'[m] = lastDir[m] /\ log'[m] = log[m]
         \/ ~ was /\ new.arb /\ pending'[m] = None /\ lastDir'[m] = new.dir
            /\ \/ log'[m] = log[m] /\ pending[m] # None
               \/ Logs("OPEN") /\ (pending[m] = None \/ Expired(m))
               \/ Logs("FLIP")
         \/ was /\ new.arb /\ pending'[m] = pending[m] /\ lastDir'[m] = new.dir
            /\ \E label \in Labels \ {"OPEN"} : Logs(label)

\* An entry of a frame is a record.
LEMMA EntryTyped ==
  ASSUME NEW t \in Nat, NEW label \in Labels, NEW px \in Books
  PROVE  /\ Entry(t, label, EdgeState(px), px) \in Record
         /\ Entry(t, label, EdgeState(px), px).t = t /\ Entry(t, label, EdgeState(px), px).label = label
  BY EdgeTyped DEF Entry, Record

\* What a frame does.
LEMMA FrameSplit ==
  ASSUME EpisodesTypeOK, NEW m \in Markets, NEW px \in Books, FrameOf(m, px)
  PROVE  /\ FrameDoes(m, px)
         /\ state' \in [Markets -> EdgeStates \cup {None}] /\ lastDir' \in [Markets -> Dirs \cup {None}]
         /\ pending' \in [Markets -> {None} \cup [t : Nat, px : Books]]
         /\ log' \in [Markets -> Seq(Record)] /\ seen' \in [Markets -> Seq(Record)]
  <1> DEFINE new == EdgeState(px)
             was == state[m] # None /\ state[m].arb
             label == Classify(state[m], new)
  <1>1. /\ new \in EdgeStates /\ new.dir \in Dirs
        /\ state \in [Markets -> EdgeStates \cup {None}] /\ lastDir \in [Markets -> Dirs \cup {None}]
        /\ pending \in [Markets -> {None} \cup [t : Nat, px : Books]]
        /\ log \in [Markets -> Seq(Record)] /\ seen \in [Markets -> Seq(Record)] /\ now \in Nat
    BY StatesTyped DEF EpisodesTypeOK
  <1>2. /\ label \in Labels \cup {None}
        /\ label = "OPEN" <=> ~ was /\ new.arb
        /\ label = "CLOSE" <=> was /\ ~ new.arb
        /\ label = None => (was <=> new.arb)
        /\ label \in Labels \ {"OPEN", "CLOSE"} => was /\ new.arb
    BY <1>1, Classified
  <1>3. /\ state' = [state EXCEPT ![m] = new]
        /\ label = None => UNCHANGED <<pending, lastDir, log, seen>>
        /\ label # None => Feed(m, label, new, px) /\ seen' = [seen EXCEPT ![m] = Append(@, Entry(now, label, new, px))]
    BY DEF FrameOf
  <1>4. \A l \in Labels : Entry(now, l, new, px) \in Record
    BY <1>1, EntryTyped
  <1>5. None \notin Labels
    BY EpisodesAssumption
  <1> HIDE DEF new, was, label
  <1>6. /\ state' \in [Markets -> EdgeStates \cup {None}] /\ state'[m] = new
        /\ \A k \in Markets \ {m} : state'[k] = state[k]
    BY <1>1, <1>3
  <1>7. label \in Labels => seen' \in [Markets -> Seq(Record)]
    <2> SUFFICES ASSUME label \in Labels PROVE seen' \in [Markets -> Seq(Record)]
      OBVIOUS
    <2> DEFINE e == Entry(now, label, new, px)
    <2>1. seen' = [seen EXCEPT ![m] = Append(@, e)] /\ e \in Record
      BY <1>3, <1>4, <1>5
    <2> HIDE DEF e
    <2>2. Append(seen[m], e) \in Seq(Record)
      BY <1>1, <2>1, LogGrows
    <2> QED BY <1>1, <2>1, <2>2
  <1>8. CASE label = None
    BY <1>1, <1>2, <1>3, <1>6, <1>8 DEF FrameDoes, new, was
  <1>9. CASE label = "CLOSE"
    <2>1. pending' = [pending EXCEPT ![m] = [t |-> now, px |-> px]] /\ UNCHANGED <<lastDir, log>>
      BY <1>3, <1>5, <1>9 DEF Feed, Labels
    <2>2. [t |-> now, px |-> px] \in [t : Nat, px : Books]
      BY <1>1
    <2>3. /\ pending' \in [Markets -> {None} \cup [t : Nat, px : Books]] /\ pending'[m] = [t |-> now, px |-> px]
          /\ \A k \in Markets \ {m} : pending'[k] = pending[k]
      BY <1>1, <2>1, <2>2
    <2>4. seen' \in [Markets -> Seq(Record)]
      BY <1>5, <1>9, <1>7 DEF Labels
    <2>5. FrameDoes(m, px)
      BY <1>2, <1>6, <1>9, <2>1, <2>3 DEF FrameDoes, new, was
    <2> QED BY <1>1, <1>6, <2>1, <2>3, <2>4, <2>5
  <1>10. CASE label \in Labels \ {"CLOSE"}
    <2>1. /\ pending' = IF label = "OPEN" THEN [pending EXCEPT ![m] = None] ELSE pending
          /\ lastDir' = [lastDir EXCEPT ![m] = new.dir]
          /\ log' = IF Suppressed(m, label, new) THEN log
                    ELSE [log EXCEPT ![m] = Append(@, Entry(now, LogLabel(m, label), new, px))]
      BY <1>3, <1>5, <1>10 DEF Feed
    <2>2. LogLabel(m, label) \in Labels
      BY <1>10 DEF LogLabel, Labels
    <2>3. /\ lastDir' \in [Markets -> Dirs \cup {None}] /\ lastDir'[m] = new.dir
          /\ \A k \in Markets \ {m} : lastDir'[k] = lastDir[k]
      BY <1>1, <2>1
    <2>4. /\ pending' \in [Markets -> {None} \cup [t : Nat, px : Books]]
          /\ pending'[m] = IF label = "OPEN" THEN None ELSE pending[m]
          /\ \A k \in Markets \ {m} : pending'[k] = pending[k]
      BY <1>1, <2>1
    <2>5. Append(log[m], Entry(now, LogLabel(m, label), new, px)) \in Seq(Record)
      BY <1>1, <1>4, <2>2, LogGrows
    <2>6. /\ log' \in [Markets -> Seq(Record)] /\ \A k \in Markets \ {m} : log'[k] = log[k]
          /\ log'[m] = IF Suppressed(m, label, new) THEN log[m] ELSE Append(log[m], Entry(now, LogLabel(m, label), new, px))
      BY <1>1, <2>1, <2>5
    <2>7. seen' \in [Markets -> Seq(Record)]
      BY <1>5, <1>10, <1>7
    <2>8. CASE label = "OPEN"
      <3>1. ~ was /\ new.arb /\ pending'[m] = None
        BY <1>2, <2>4, <2>8
      <3>2. \/ log'[m] = log[m] /\ pending[m] # None
            \/ log'[m] = Append(log[m], Entry(now, "OPEN", new, px)) /\ (pending[m] = None \/ Expired(m))
            \/ log'[m] = Append(log[m], Entry(now, "FLIP", new, px))
        BY <2>6, <2>8 DEF Suppressed, LogLabel
      <3>3. FrameDoes(m, px)
        BY <1>6, <2>3, <2>4, <2>6, <3>1, <3>2 DEF FrameDoes, new, was
      <3> QED BY <1>6, <2>3, <2>4, <2>6, <2>7, <3>3
    <2>9. CASE label # "OPEN"
      <3>1. log'[m] = Append(log[m], Entry(now, label, new, px)) /\ label \in Labels \ {"OPEN"} /\ pending'[m] = pending[m]
        BY <1>10, <2>4, <2>6, <2>9 DEF Suppressed, LogLabel
      <3>2. was /\ new.arb
        BY <1>2, <1>10, <2>9
      <3>3. FrameDoes(m, px)
        BY <1>6, <2>3, <2>4, <2>6, <3>1, <3>2 DEF FrameDoes, new, was
      <3> QED BY <1>6, <2>3, <2>4, <2>6, <2>7, <3>3
    <2> QED BY <2>8, <2>9
  <1> QED BY <1>2, <1>8, <1>9, <1>10

\* What was known by a time is known later.
LEMMA UpToLater ==
  ASSUME NEW q \in Seq(Record), NEW t \in Nat, NEW u \in Nat, t <= u, UpTo(q, t)
  PROVE  UpTo(q, u)
  <1>1. \A i \in 1..Len(q) : q[i] \in Record
    OBVIOUS
  <1>2. \A e \in Record : e.t \in Nat
    BY DEF Record
  <1> QED BY <1>1, <1>2 DEF UpTo

\* Whatever changed of a market, its log reaches no further than now.
LEMMA LogIsPast ==
  ASSUME OrderInv, NEW m \in Markets
  PROVE  UpTo(log[m], now) /\ log[m] \in Seq(Record) /\ now \in Nat /\ (pending[m] # None => pending[m].t \in Nat)
  <1>1. log[m] \in Seq(Record) /\ now \in Nat /\ pending[m] \in {None} \cup [t : Nat, px : Books]
    BY DEF OrderInv, EpisodesTypeOK
  <1>2. UpTo(log[m], Horizon(m)) /\ Horizon(m) \in Nat /\ Horizon(m) <= now
    BY <1>1 DEF OrderInv, OneMarket, Horizon
  <1> QED BY <1>1, <1>2, UpToLater

\* A frame keeps its market in order.
LEMMA FrameInOrder ==
  ASSUME OrderInv, NEW m \in Markets, NEW px \in Books, FrameDoes(m, px), now' = now
  PROVE  \A k \in Markets : OneMarket(k)'
  <1> SUFFICES ASSUME NEW k \in Markets PROVE OneMarket(k)'
    OBVIOUS
  <1>1. CASE k # m
    <2>1. state'[k] = state[k] /\ pending'[k] = pending[k] /\ lastDir'[k] = lastDir[k] /\ log'[k] = log[k]
      BY <1>1 DEF FrameDoes
    <2> QED BY <2>1 DEF OrderInv, OneMarket, Horizon
  <1>2. CASE k = m
    <2> DEFINE new == EdgeState(px)
               was == state[m] # None /\ state[m].arb
    <2>1. /\ OneMarket(m) /\ UpTo(log[m], now) /\ log[m] \in Seq(Record) /\ now \in Nat
          /\ pending[m] # None => ~ was
      BY LogIsPast DEF OrderInv, OneMarket
    <2>2. new # None /\ new.arb \in BOOLEAN /\ new.dir # None
      BY StatesTyped
    <2>3. state'[m] = new
      BY DEF FrameDoes
    <2>4. \A label \in Labels : InOrder(Append(log[m], Entry(now, label, new, px))) /\ UpTo(Append(log[m], Entry(now, label, new, px)), now)
      <3> SUFFICES ASSUME NEW label \in Labels
                   PROVE  /\ InOrder(Append(log[m], Entry(now, label, new, px)))
                          /\ UpTo(Append(log[m], Entry(now, label, new, px)), now)
        OBVIOUS
      <3> DEFINE e == Entry(now, label, new, px)
      <3>1. e \in Record /\ e.t = now
        BY <2>1, EntryTyped
      <3> HIDE DEF e
      <3>2. InOrder(Append(log[m], e)) /\ UpTo(Append(log[m], e), e.t)
        BY <2>1, <3>1, OrderGrows DEF OneMarket
      <3> QED BY <3>1, <3>2 DEF e
    <2>5. CASE (was <=> new.arb) /\ pending'[m] = pending[m] /\ lastDir'[m] = lastDir[m] /\ log'[m] = log[m]
      BY <1>2, <2>1, <2>2, <2>3, <2>5 DEF OneMarket, Horizon
    <2>6. CASE was /\ ~ new.arb /\ pending'[m] = [t |-> now, px |-> px] /\ lastDir'[m] = lastDir[m] /\ log'[m] = log[m]
      <3>1. pending'[m].t = now
        BY <2>6
      <3>2. lastDir'[m] # None
        BY <2>1, <2>6 DEF OneMarket
      <3> QED BY <1>2, <2>1, <2>2, <2>3, <2>6, <3>1, <3>2 DEF OneMarket, Horizon
    <2>7. CASE /\ ~ was /\ new.arb /\ pending'[m] = None /\ lastDir'[m] = new.dir
               /\ log'[m] = log[m] \/ \E label \in Labels : log'[m] = Append(log[m], Entry(now, label, new, px))
      <3>1. InOrder(log'[m]) /\ UpTo(log'[m], now)
        BY <2>1, <2>4, <2>7 DEF OneMarket
      <3> QED BY <1>2, <2>2, <2>3, <2>7, <3>1 DEF OneMarket, Horizon
    <2>8. CASE /\ was /\ new.arb /\ pending'[m] = pending[m] /\ lastDir'[m] = new.dir
               /\ \E label \in Labels : log'[m] = Append(log[m], Entry(now, label, new, px))
      <3>1. InOrder(log'[m]) /\ UpTo(log'[m], now) /\ pending'[m] = None
        BY <2>1, <2>4, <2>8
      <3> QED BY <1>2, <2>2, <2>3, <2>8, <3>1 DEF OneMarket, Horizon
    <2> QED BY <2>5, <2>6, <2>7, <2>8 DEF FrameDoes, Labels
  <1> QED BY <1>1, <1>2

\* A close that is flushed is not older than what was logged before the edge died.
LEMMA FlushInOrder ==
  ASSUME OrderInv, Flush
  PROVE  /\ \A m \in Markets : OneMarket(m)'
         /\ log' \in [Markets -> Seq(Record)] /\ lastDir' \in [Markets -> Dirs \cup {None}]
         /\ pending' \in [Markets -> {None} \cup [t : Nat, px : Books]]
  <1>1. /\ log \in [Markets -> Seq(Record)] /\ lastDir \in [Markets -> Dirs \cup {None}]
        /\ pending \in [Markets -> {None} \cup [t : Nat, px : Books]] /\ now \in Nat
        /\ UNCHANGED <<now, state>>
        /\ log' = [m \in Markets |->
             IF Expired(m)
             THEN Append(log[m], Entry(CloseTime(m), "CLOSE", EdgeState(pending[m].px), pending[m].px))
             ELSE log[m]]
        /\ pending' = [m \in Markets |-> IF Expired(m) THEN None ELSE pending[m]]
        /\ lastDir' = [m \in Markets |-> IF Expired(m) THEN None ELSE lastDir[m]]
    BY DEF OrderInv, EpisodesTypeOK, Flush, history
  <1>2. ASSUME NEW m \in Markets PROVE OneMarket(m)' /\ log'[m] \in Seq(Record)
    <2>1. OneMarket(m) /\ log[m] \in Seq(Record)
      BY <1>1 DEF OrderInv
    <2>2. CASE ~ Expired(m)
      <3>1. log'[m] = log[m] /\ pending'[m] = pending[m] /\ lastDir'[m] = lastDir[m] /\ state'[m] = state[m]
        BY <1>1, <2>2
      <3> QED BY <1>1, <2>1, <3>1 DEF OneMarket, Horizon
    <2>3. CASE Expired(m)
      <3> DEFINE e == Entry(CloseTime(m), "CLOSE", EdgeState(pending[m].px), pending[m].px)
      <3>1. log'[m] = Append(log[m], e) /\ pending'[m] = None /\ state'[m] = state[m]
        BY <1>1, <2>3
      <3>2. pending[m] # None /\ pending[m].t \in Nat /\ pending[m].px \in Books
        BY <1>1, <2>3 DEF Expired
      <3>3. e \in Record /\ e.t = pending[m].t
        BY <3>2, EntryTyped DEF CloseTime, Labels
      <3> HIDE DEF e
      <3>4. UpTo(log[m], e.t) /\ InOrder(log[m]) /\ e.t <= now
        BY <2>1, <3>2, <3>3 DEF OneMarket, Horizon
      <3>5. InOrder(log'[m]) /\ UpTo(log'[m], e.t) /\ log'[m] \in Seq(Record)
        BY <2>1, <3>1, <3>3, <3>4, OrderGrows, LogGrows
      <3>6. UpTo(log'[m], now)
        BY <1>1, <3>2, <3>3, <3>4, <3>5, UpToLater
      <3>7. ~ (state'[m] # None /\ state'[m].arb)
        BY <2>1, <3>1, <3>2 DEF OneMarket
      <3> QED BY <1>1, <3>1, <3>5, <3>6, <3>7 DEF OneMarket, Horizon
    <2> QED BY <2>2, <2>3
  <1>3. log' \in [Markets -> Seq(Record)]
    BY <1>1, <1>2
  <1> QED BY <1>1, <1>2, <1>3

\* A marker is a whole number of seconds.
LEMMA StampTyped == now \in Nat => Stamp \in Nat
  <1> SUFFICES ASSUME now \in Nat PROVE Stamp \in Nat
    OBVIOUS
  <1>1. now \div TicksPerSecond \in Nat /\ TicksPerSecond \in Nat
    BY EpisodesAssumption
  <1>2. \A a, b \in Nat : a * b \in Nat
    OBVIOUS
  <1> QED BY <1>1, <1>2 DEF Stamp

\* The order's invariant holds in every reachable state.
LEMMA OrderAlways == Spec => []OrderInv
  <1>1. Init => OrderInv
    <2> SUFFICES ASSUME Init PROVE OrderInv
      OBVIOUS
    <2>1. /\ state = [m \in Markets |-> None] /\ pending = [m \in Markets |-> None] /\ lastDir = [m \in Markets |-> None]
          /\ log = [m \in Markets |-> <<>>] /\ seen = [m \in Markets |-> <<>>] /\ now = 0 /\ up = TRUE /\ settled = {}
          /\ markers = <<0>> /\ downSince = 0
      BY DEF Init
    <2>2. log \in [Markets -> Seq(Record)] /\ seen \in [Markets -> Seq(Record)] /\ markers \in Seq(Nat)
      BY <2>1
    <2>3. EpisodesTypeOK
      BY <2>1, <2>2 DEF EpisodesTypeOK
    <2>4. ASSUME NEW m \in Markets PROVE OneMarket(m)
      <3>1. log[m] = <<>> /\ Len(log[m]) = 0 /\ pending[m] = None /\ state[m] = None
        BY <2>1, <2>4
      <3> QED BY <3>1 DEF OneMarket, InOrder, UpTo
    <2> QED BY <2>3, <2>4 DEF OrderInv
  <1>2. OrderInv /\ [Next]_vars => OrderInv'
    <2> SUFFICES ASSUME OrderInv, [Next]_vars PROVE OrderInv'
      OBVIOUS
    <2>1. /\ now \in Nat /\ up \in BOOLEAN /\ downSince \in Nat /\ markers \in Seq(Nat) /\ settled \subseteq Markets
          /\ state \in [Markets -> EdgeStates \cup {None}] /\ lastDir \in [Markets -> Dirs \cup {None}]
          /\ pending \in [Markets -> {None} \cup [t : Nat, px : Books]]
          /\ log \in [Markets -> Seq(Record)] /\ seen \in [Markets -> Seq(Record)]
      BY DEF OrderInv, EpisodesTypeOK
    <2>2. ASSUME UNCHANGED <<now, state, lastDir, pending, log>>, UNCHANGED seen, up' \in BOOLEAN, downSince' \in Nat,
                 markers' \in Seq(Nat), settled' \subseteq Markets
          PROVE  OrderInv'
      <3>1. ASSUME NEW m \in Markets PROVE OneMarket(m)'
        BY <2>2 DEF OrderInv, OneMarket, Horizon
      <3>2. EpisodesTypeOK'
        BY <2>1, <2>2 DEF EpisodesTypeOK, OrderInv
      <3> QED BY <3>1, <3>2 DEF OrderInv
    <2>3. ASSUME NEW m \in Markets, Frame(m) PROVE OrderInv'
      <3>1. PICK px \in Books : FrameOf(m, px)
        BY <2>3 DEF Frame, FrameOf
      <3>2. UNCHANGED <<now, up, settled, markers, downSince>>
        BY <2>3 DEF Frame
      <3>3. /\ FrameDoes(m, px)
            /\ state' \in [Markets -> EdgeStates \cup {None}] /\ lastDir' \in [Markets -> Dirs \cup {None}]
            /\ pending' \in [Markets -> {None} \cup [t : Nat, px : Books]]
            /\ log' \in [Markets -> Seq(Record)] /\ seen' \in [Markets -> Seq(Record)]
        BY <3>1, FrameSplit DEF OrderInv
      <3>4. \A k \in Markets : OneMarket(k)'
        BY <3>2, <3>3, FrameInOrder
      <3> QED BY <2>1, <3>2, <3>3, <3>4 DEF OrderInv, EpisodesTypeOK, OneMarket
    <2>4. ASSUME NEW m \in Markets, Teardown(m) PROVE OrderInv'
      <3>1. /\ settled' = settled \cup {m} /\ state' = [state EXCEPT ![m] = None] /\ lastDir' = [lastDir EXCEPT ![m] = None]
            /\ pending' = [pending EXCEPT ![m] = None] /\ UNCHANGED <<now, up, log, markers, downSince, seen>>
        BY <2>4 DEF Teardown, history
      <3>2. ASSUME NEW k \in Markets PROVE OneMarket(k)'
        <4>1. OneMarket(k) /\ UpTo(log[k], now)
          BY LogIsPast DEF OrderInv
        <4>2. CASE k = m
          BY <2>1, <3>1, <4>1, <4>2 DEF OneMarket, Horizon
        <4>3. CASE k # m
          BY <2>1, <3>1, <4>1, <4>3 DEF OneMarket, Horizon
        <4> QED BY <4>2, <4>3
      <3>3. settled' \subseteq Markets
        BY <2>1, <2>4, <3>1
      <3> QED BY <2>1, <3>1, <3>2, <3>3 DEF OrderInv, EpisodesTypeOK, OneMarket
    <2>5. CASE Flush
      <3>1. UNCHANGED <<now, up, state, settled, markers, downSince, seen>>
        BY <2>5 DEF Flush, history
      <3> QED BY <2>1, <2>5, <3>1, FlushInOrder DEF OrderInv, EpisodesTypeOK, OneMarket
    <2>6. CASE Tick
      <3>1. now' = now + 1 /\ UNCHANGED <<up, state, lastDir, pending, log, settled, markers, downSince, seen>>
        BY <2>6 DEF Tick, coreVars, history
      <3>2. ASSUME NEW m \in Markets PROVE OneMarket(m)'
        <4>1. OneMarket(m) /\ UpTo(log[m], now) /\ log[m] \in Seq(Record) /\ (pending[m] # None => pending[m].t \in Nat)
          BY LogIsPast DEF OrderInv
        <4>2. UpTo(log[m], now')
          BY <2>1, <3>1, <4>1, UpToLater
        <4> QED BY <2>1, <3>1, <4>1, <4>2 DEF OneMarket, Horizon
      <3> QED BY <2>1, <3>1, <3>2 DEF OrderInv, EpisodesTypeOK, OneMarket
    <2>7. CASE Reconnect
      <3>1. markers' \in Seq(Nat)
        BY <2>1, <2>7, StampTyped DEF Reconnect, Mark
      <3> QED BY <2>1, <2>2, <2>7, <3>1 DEF Reconnect, Mark, coreVars, history
    <2>8. CASE Crash
      BY <2>1, <2>2, <2>8 DEF Crash
    <2>9. CASE Boot
      <3>1. /\ up' = TRUE /\ state' = [m \in Markets |-> None] /\ lastDir' = [m \in Markets |-> None]
            /\ pending' = [m \in Markets |-> None] /\ UNCHANGED <<now, log, settled, downSince, seen>>
        BY <2>9 DEF Boot, history
      <3>2. markers' \in Seq(Nat)
        BY <2>1, <2>9, StampTyped DEF Boot, Mark
      <3>3. ASSUME NEW m \in Markets PROVE OneMarket(m)'
        BY <3>1, LogIsPast DEF OrderInv, OneMarket, Horizon
      <3> QED BY <2>1, <3>1, <3>2, <3>3 DEF OrderInv, EpisodesTypeOK, OneMarket
    <2>10. CASE UNCHANGED vars
      BY <2>1, <2>2, <2>10 DEF vars, coreVars, history
    <2> QED BY <2>3, <2>4, <2>5, <2>6, <2>7, <2>8, <2>9, <2>10 DEF Next
  <1> QED BY <1>1, <1>2, PTL DEF Spec

\* Every variable of the trackers and the log keeps its type, for any markets, books and restarts; a close is held only
\* for an edge that was logged and is gone.  (FlipDebouncer.feed, flush and forget; TransitionLogger.write)
THEOREM EpisodesTypeCorrect == Spec => []EpisodesTypeOK
  <1>1. OrderInv => EpisodesTypeOK
    BY DEF OrderInv
  <1> QED BY <1>1, OrderAlways, PTL

\* A market's file is in order of time however late the flusher wakes: nothing is logged of a market while a close of it
\* is held, but what takes the close with it.  (FlipDebouncer.feed, flush)
THEOREM LogAlwaysInOrder == Spec => []LogInOrder
  <1>1. OrderInv => LogInOrder
    BY DEF OrderInv, OneMarket, InOrder, LogInOrder
  <1> QED BY <1>1, OrderAlways, PTL

(***************************************************************************)
(* Closes before openings                                                  *)
(***************************************************************************)

\* A market that is tracked, has no edge and owes no close was last logged to lose it, or before a marker.
Accounted(m) ==
  m \notin settled /\ pending[m] = None /\ ~ (state[m] # None /\ state[m].arb)
    => \A i \in 1..Len(log[m]) : i = Len(log[m]) /\ log[m][i].label # "CLOSE" => \E t \in marks : log[m][i].t <= t

\* The closes a market may have lost: none, if the flusher does not sleep.
Losable(m) == IF FlushLag = 0 THEN {} ELSE Closes(seen[m])

\* A close that is held was seen, and no edge opens twice but for a marker or a close that was lost.
Reopening(m) ==
  /\ Accounted(m)
  /\ pending[m] # None => pending[m].t \in Closes(seen[m])
  /\ Reopens(log[m], marks, Losable(m))

ReopenInv ==
  /\ marks \subseteq Nat /\ \A t \in marks : t <= now
  /\ \A m \in Markets : Reopening(m)

\* What a frame adds to what was seen.
LEMMA FrameSees ==
  ASSUME EpisodesTypeOK, NEW m \in Markets, NEW px \in Books, FrameOf(m, px)
  PROVE  /\ \A k \in Markets : Closes(seen[k]) \subseteq Closes(seen'[k])
         /\ state[m] # None /\ state[m].arb /\ ~ EdgeState(px).arb => now \in Closes(seen'[m])
  <1> DEFINE new == EdgeState(px)
             label == Classify(state[m], new)
  <1>1. /\ new \in EdgeStates /\ state[m] \in EdgeStates \cup {None} /\ now \in Nat
        /\ seen \in [Markets -> Seq(Record)]
    BY StatesTyped DEF EpisodesTypeOK
  <1>2. /\ label \in Labels \cup {None}
        /\ label = "CLOSE" <=> state[m] # None /\ state[m].arb /\ ~ new.arb
    BY <1>1, Classified
  <1>3. /\ label = None => UNCHANGED seen
        /\ label # None => seen' = [seen EXCEPT ![m] = Append(@, Entry(now, label, new, px))]
    BY DEF FrameOf
  <1>4. None \notin Labels /\ "CLOSE" \in Labels
    BY EpisodesAssumption DEF Labels
  <1> DEFINE e == Entry(now, label, new, px)
  <1>5. label \in Labels => e \in Record /\ e.t = now /\ e.label = label
    BY <1>1, EntryTyped
  <1> HIDE DEF new, label, e
  <1>6. CASE label = None
    BY <1>2, <1>3, <1>4, <1>6 DEF new
  <1>7. CASE label \in Labels
    <2>1. e \in Record /\ e.t = now /\ e.label = label /\ seen[m] \in Seq(Record)
      BY <1>1, <1>5, <1>7
    <2>2. seen' = [seen EXCEPT ![m] = Append(@, e)]
      BY <1>3, <1>4, <1>7 DEF e
    <2>3. /\ Closes(seen[m]) \subseteq Closes(Append(seen[m], e))
          /\ label = "CLOSE" => now \in Closes(Append(seen[m], e))
      BY <2>1, ClosesGrow
    <2>4. seen'[m] = Append(seen[m], e) /\ \A k \in Markets \ {m} : seen'[k] = seen[k]
      BY <1>1, <2>2
    <2> QED BY <1>2, <2>3, <2>4 DEF new
  <1> QED BY <1>2, <1>6, <1>7

\* A frame opens an edge behind its close, behind a marker, or with an overdue close between that it takes away.
LEMMA FrameReopens ==
  ASSUME OrderInv, ReopenInv, NEW m \in Markets, NEW px \in Books, FrameDoes(m, px), FlushLag = 0 => ~ Expired(m),
         \A k \in Markets : Closes(seen[k]) \subseteq Closes(seen'[k]),
         state[m] # None /\ state[m].arb /\ ~ EdgeState(px).arb => now \in Closes(seen'[m]),
         m \notin settled, UNCHANGED <<now, settled, marks>>
  PROVE  \A k \in Markets : Reopening(k)'
  <1> SUFFICES ASSUME NEW k \in Markets
               PROVE  /\ Accounted(k)' /\ Reopens(log'[k], marks', Losable(k)')
                      /\ pending'[k] # None => pending'[k].t \in Closes(seen'[k])
    BY DEF Reopening
  <1>1. /\ Reopening(k) /\ Losable(k) \subseteq Losable(k)' /\ marks' = marks
        /\ \A q : Reopens(q, marks, Losable(k)) => Reopens(q, marks, Losable(k)')
    <2>1. Losable(k) \subseteq Losable(k)'
      BY DEF Losable
    <2> QED BY <2>1, ReopensStays DEF ReopenInv
  <1>2. CASE k # m
    <2>1. state'[k] = state[k] /\ pending'[k] = pending[k] /\ log'[k] = log[k]
      BY <1>2 DEF FrameDoes
    <2> QED BY <1>1, <2>1 DEF Reopening, Accounted
  <1>3. CASE k = m
    <2> DEFINE new == EdgeState(px)
               was == state[m] # None /\ state[m].arb
               L == Losable(m)'
    <2>1. /\ Accounted(m) /\ Reopens(log[m], marks, L) /\ log[m] \in Seq(Record) /\ now \in Nat
          /\ pending[m] # None => ~ was /\ pending[m].t \in Nat /\ pending[m].t \in Closes(seen'[m])
          /\ \A t \in marks : t <= now
      BY <1>1, <1>3, LogIsPast DEF OrderInv, OneMarket, ReopenInv, Reopening
    <2>2. new # None /\ new.arb \in BOOLEAN /\ state'[m] = new
      BY StatesTyped DEF FrameDoes
    <2>3. ASSUME NEW label \in Labels,
                 label = "OPEN" /\ Len(log[m]) > 0 /\ log[m][Len(log[m])].label # "CLOSE"
                   => Between(log[m][Len(log[m])], Entry(now, label, new, px), marks, L)
          PROVE  Reopens(Append(log[m], Entry(now, label, new, px)), marks, L)
      <3> DEFINE e == Entry(now, label, new, px)
      <3>1. e \in Record /\ e.label = label
        BY <2>1, EntryTyped
      <3>2. e.label = "OPEN" /\ Len(log[m]) > 0 /\ log[m][Len(log[m])].label # "CLOSE"
              => Between(log[m][Len(log[m])], e, marks, L)
        BY <2>3, <3>1
      <3> HIDE DEF e, L
      <3>3. Reopens(Append(log[m], e), marks, L)
        BY <2>1, <3>1, <3>2, ReopensGrows
      <3> QED BY <3>3 DEF e
    <2> HIDE DEF L
    <2>4. CASE (was <=> new.arb) /\ pending'[m] = pending[m] /\ log'[m] = log[m]
      BY <1>1, <1>3, <2>1, <2>2, <2>4 DEF Accounted, L
    <2>5. CASE was /\ ~ new.arb /\ pending'[m] = [t |-> now, px |-> px] /\ log'[m] = log[m]
      <3>1. pending'[m] # None /\ pending'[m].t = now
        BY <2>1, <2>5, EpisodesAssumption
      <3> QED BY <1>1, <1>3, <2>1, <2>5, <3>1 DEF Accounted, L
    <2>6. CASE ~ was /\ new.arb /\ pending'[m] = None /\ log'[m] = log[m]
      BY <1>1, <1>3, <2>1, <2>2, <2>6 DEF Accounted, L
    <2>7. CASE /\ ~ was /\ new.arb /\ pending'[m] = None /\ (pending[m] = None \/ Expired(m))
               /\ log'[m] = Append(log[m], Entry(now, "OPEN", new, px))
      <3> DEFINE e == Entry(now, "OPEN", new, px)
                 d == log[m][Len(log[m])]
      <3>1. "OPEN" \in Labels /\ e.t = now
        BY <2>1, EntryTyped DEF Labels
      <3>2. ASSUME Len(log[m]) > 0, d.label # "CLOSE" PROVE Between(d, e, marks, L)
        <4>1. Len(log[m]) \in 1..Len(log[m])
          BY <2>1, <3>2
        <4>2. CASE pending[m] = None
          <5>1. \E t \in marks : d.t <= t
            BY <2>1, <2>7, <3>2, <4>1, <4>2 DEF Accounted
          <5> QED BY <2>1, <3>1, <5>1 DEF Between
        <4>3. CASE pending[m] # None
          <5>1. Expired(m) /\ FlushLag # 0
            BY <2>7, <4>3
          <5>2. d.t <= pending[m].t
            BY <4>1, <4>3 DEF OrderInv, OneMarket, Horizon, UpTo
          <5>3. pending[m].t \in L
            BY <1>3, <2>1, <4>3, <5>1 DEF Losable, L
          <5>4. now - pending[m].t > Window
            BY <5>1 DEF Expired
          <5> QED BY <3>1, <5>2, <5>3, <5>4 DEF Between
        <4> QED BY <4>2, <4>3
      <3>3. Reopens(log'[m], marks, L)
        BY <2>3, <2>7, <3>1, <3>2
      <3> QED BY <1>1, <1>3, <2>2, <2>7, <3>3 DEF Accounted, L
    <2>8. CASE /\ new.arb /\ (pending'[m] = None \/ pending'[m] = pending[m])
               /\ \E label \in Labels \ {"OPEN"} : log'[m] = Append(log[m], Entry(now, label, new, px))
      <3>1. Reopens(log'[m], marks, L)
        BY <2>3, <2>8
      <3> QED BY <1>1, <1>3, <2>1, <2>2, <2>8, <3>1 DEF Accounted, L
    <2> QED BY <2>4, <2>5, <2>6, <2>7, <2>8 DEF FrameDoes, Labels
  <1> QED BY <1>2, <1>3

\* A close that is flushed is the last record of its market.
LEMMA FlushReopens ==
  ASSUME OrderInv, ReopenInv, Flush
  PROVE  \A m \in Markets : Reopening(m)'
  <1> SUFFICES ASSUME NEW m \in Markets PROVE Reopening(m)'
    OBVIOUS
  <1>1. /\ log[m] \in Seq(Record) /\ pending[m] \in {None} \cup [t : Nat, px : Books] /\ UNCHANGED <<state, settled, marks, seen>>
        /\ log'[m] = IF Expired(m)
                     THEN Append(log[m], Entry(CloseTime(m), "CLOSE", EdgeState(pending[m].px), pending[m].px))
                     ELSE log[m]
        /\ pending'[m] = IF Expired(m) THEN None ELSE pending[m]
        /\ Reopening(m) /\ Losable(m)' = Losable(m)
    BY DEF OrderInv, ReopenInv, EpisodesTypeOK, Flush, history, Losable
  <1>2. CASE ~ Expired(m)
    BY <1>1, <1>2 DEF Reopening, Accounted
  <1>3. CASE Expired(m)
    <2> DEFINE e == Entry(CloseTime(m), "CLOSE", EdgeState(pending[m].px), pending[m].px)
    <2>1. pending[m].t \in Nat /\ pending[m].px \in Books
      BY <1>1, <1>3 DEF Expired
    <2>2. e \in Record /\ e.label = "CLOSE"
      BY <2>1, EntryTyped DEF CloseTime, Labels
    <2>3. log'[m] = Append(log[m], e)
      BY <1>1, <1>3
    <2> HIDE DEF e
    <2>4. Reopens(Append(log[m], e), marks, Losable(m))
      BY <1>1, <2>2, ReopensGrows DEF Reopening
    <2>5. Len(log'[m]) = Len(log[m]) + 1 /\ log'[m][Len(log[m]) + 1] = e
      <3>1. Len(Append(log[m], e)) = Len(log[m]) + 1 /\ Append(log[m], e)[Len(log[m]) + 1] = e
        BY <1>1, <2>2, LogGrows
      <3> QED BY <2>3, <3>1
    <2>6. Accounted(m)'
      BY <2>2, <2>5 DEF Accounted
    <2> QED BY <1>1, <1>3, <2>3, <2>4, <2>6 DEF Reopening
  <1> QED BY <1>2, <1>3

\* A marker more accounts for more.
LEMMA MarkReopens ==
  ASSUME OrderInv, ReopenInv, Mark, UNCHANGED <<now, log, settled, seen>>,
         \/ UNCHANGED <<state, pending>>
         \/ state' = [m \in Markets |-> None] /\ pending' = [m \in Markets |-> None]
  PROVE  ReopenInv'
  <1>1. marks' = marks \cup {now} /\ now \in Nat
    BY DEF Mark, OrderInv, EpisodesTypeOK
  <1>2. ASSUME NEW m \in Markets PROVE Reopening(m)'
    <2>1. UpTo(log[m], now) /\ Reopening(m) /\ Losable(m)' = Losable(m)
      BY LogIsPast DEF ReopenInv, Losable
    <2>2. Reopens(log[m], marks', Losable(m))
      BY <1>1, <2>1, ReopensStays DEF Reopening
    <2>3. \A i \in 1..Len(log[m]) : \E t \in marks' : log[m][i].t <= t
      BY <1>1, <2>1 DEF UpTo
    <2> QED BY <2>1, <2>2, <2>3 DEF Reopening, Accounted
  <1> QED BY <1>1, <1>2 DEF ReopenInv

\* The invariant of the openings holds in every reachable state.
LEMMA ReopenAlways == Spec => []ReopenInv
  <1>1. Init => ReopenInv
    <2> SUFFICES ASSUME Init PROVE ReopenInv
      OBVIOUS
    <2>1. log = [m \in Markets |-> <<>>] /\ pending = [m \in Markets |-> None] /\ marks = {0} /\ now = 0
      BY DEF Init
    <2>2. ASSUME NEW m \in Markets PROVE Reopening(m)
      <3>1. Len(log[m]) = 0 /\ pending[m] = None
        BY <2>1
      <3> QED BY <3>1 DEF Reopening, Accounted, Reopens
    <2> QED BY <2>1, <2>2 DEF ReopenInv
  <1>2. OrderInv /\ ReopenInv /\ [Next]_vars => ReopenInv'
    <2> SUFFICES ASSUME OrderInv, ReopenInv, [Next]_vars PROVE ReopenInv'
      OBVIOUS
    <2>1. ASSUME UNCHANGED <<now, state, pending, log, settled, marks, seen>> PROVE ReopenInv'
      BY <2>1 DEF ReopenInv, Reopening, Accounted, Losable
    <2>2. ASSUME NEW m \in Markets, Frame(m) PROVE ReopenInv'
      <3>1. PICK px \in Books : FrameOf(m, px)
        BY <2>2 DEF Frame, FrameOf
      <3>2. UNCHANGED <<now, settled, marks>> /\ m \notin settled /\ (FlushLag = 0 => ~ Expired(m))
        BY <2>2, EpisodesAssumption DEF Frame, Overdue, Expired
      <3>3. FrameDoes(m, px)
        BY <3>1, FrameSplit DEF OrderInv
      <3>4. /\ \A k \in Markets : Closes(seen[k]) \subseteq Closes(seen'[k])
            /\ state[m] # None /\ state[m].arb /\ ~ EdgeState(px).arb => now \in Closes(seen'[m])
        BY <3>1, FrameSees DEF OrderInv
      <3>5. \A k \in Markets : Reopening(k)'
        BY <3>2, <3>3, <3>4, FrameReopens
      <3> QED BY <3>2, <3>5 DEF ReopenInv
    <2>3. ASSUME NEW m \in Markets, Teardown(m) PROVE ReopenInv'
      <3>1. /\ settled' = settled \cup {m} /\ state' = [state EXCEPT ![m] = None]
            /\ pending' = [pending EXCEPT ![m] = None] /\ UNCHANGED <<now, log, marks, seen>>
        BY <2>3 DEF Teardown, history
      <3>2. ASSUME NEW k \in Markets PROVE Reopening(k)'
        <4>1. Reopening(k) /\ Losable(k)' = Losable(k)
          BY <3>1 DEF ReopenInv, Losable
        <4>2. CASE k = m
          <5>1. pending'[k] = None /\ k \in settled'
            BY <3>1, <4>2 DEF OrderInv, EpisodesTypeOK
          <5> QED BY <3>1, <4>1, <5>1 DEF Reopening, Accounted
        <4>3. CASE k # m
          <5>1. state'[k] = state[k] /\ pending'[k] = pending[k] /\ (k \notin settled' <=> k \notin settled)
            BY <3>1, <4>3 DEF OrderInv, EpisodesTypeOK
          <5> QED BY <3>1, <4>1, <5>1 DEF Reopening, Accounted
        <4> QED BY <4>2, <4>3
      <3> QED BY <3>1, <3>2 DEF ReopenInv
    <2>4. CASE Flush
      <3>1. UNCHANGED <<now, marks>>
        BY <2>4 DEF Flush
      <3> QED BY <2>4, <3>1, FlushReopens DEF ReopenInv
    <2>5. CASE Tick
      <3>1. now' = now + 1 /\ UNCHANGED <<state, pending, log, settled, marks, seen>> /\ now \in Nat
        BY <2>5 DEF Tick, coreVars, history, OrderInv, EpisodesTypeOK
      <3>2. \A t \in marks : t <= now'
        BY <3>1 DEF ReopenInv
      <3> QED BY <3>1, <3>2 DEF ReopenInv, Reopening, Accounted, Losable
    <2>6. CASE Reconnect
      BY <2>6, MarkReopens DEF Reconnect, coreVars, history
    <2>7. CASE Crash
      BY <2>1, <2>7 DEF Crash
    <2>8. CASE Boot
      BY <2>8, MarkReopens DEF Boot, history
    <2>9. CASE UNCHANGED vars
      BY <2>1, <2>9 DEF vars, coreVars, history
    <2> QED BY <2>2, <2>3, <2>4, <2>5, <2>6, <2>7, <2>8, <2>9 DEF Next
  <1> QED BY <1>1, <1>2, OrderAlways, PTL DEF Spec

\* What readers rely on is true of any log: its order in time, and a close, or a marker, before an edge opens again, unless a
\* close more than a window old was lost between, which a flusher that does not sleep excludes.  (FlipDebouncer.feed, which pops an overdue
\* close with the opening; the flusher; reconnect, resync and the session marker)
THEOREM LogAlwaysSound == Spec => []LogSound
  <1>1. OrderInv /\ ReopenInv => LogSound
    <2>1. OrderInv => EpisodesTypeOK /\ LogInOrder
      BY DEF OrderInv, OneMarket, InOrder, LogInOrder
    <2>2. ReopenInv => OpenedTwiceOnlyLate
      BY DEF ReopenInv, Reopening, Reopens, Between, Losable, OpenedTwiceOnlyLate
    <2>3. ReopenInv => (FlushLag = 0 => ClosedBeforeReopened)
      BY DEF ReopenInv, Reopening, Reopens, Between, Losable, ClosedBeforeReopened
    <2> QED BY <2>1, <2>2, <2>3 DEF LogSound
  <1> QED BY <1>1, OrderAlways, ReopenAlways, PTL

(***************************************************************************)
(* Gaps                                                                    *)
(***************************************************************************)

\* Between a and b the log q and the markers M show that the edge was gone: its death was logged, or a marker lies between.
Shown(q, M, a, b) ==
  \/ \E i \in 1..Len(q) : q[i].t = a /\ q[i].label = "CLOSE"
  \/ \E i \in 1..Len(M) : a < M[i] /\ M[i] <= b

\* What was seen was seen in turn.
InTurn(s, n) ==
  /\ \A i \in 1..Len(s) : s[i].t <= n
  /\ \A i, j \in 1..Len(s) : i < j => s[i].t < s[j].t

Saw(s, t, label) == \E i \in 1..Len(s) : s[i].t = t /\ s[i].label = label

\* The openings and the closes of a log were seen.
WasSeen(q, s) == \A i \in 1..Len(q) : q[i].label \in {"OPEN", "CLOSE"} => Saw(s, q[i].t, q[i].label)

\* Last the edge was seen to die, at a.
EndsClosed(s, a) == Len(s) > 0 /\ s[Len(s)].label = "CLOSE" /\ s[Len(s)].t = a

GapsShown(q, s, M) ==
  \A i \in 1..(Len(s) - 1) :
    s[i].label = "CLOSE" /\ s[i + 1].label = "OPEN" /\ s[i + 1].t - s[i].t > Window + FlushLag => Shown(q, M, s[i].t, s[i + 1].t)

\* A close that is held was the last seen; an edge that is gone and owes no close is shown to be.
Seeing(m) ==
  /\ InTurn(seen[m], now) /\ (~ up => InTurn(seen[m], downSince))
  /\ WasSeen(log[m], seen[m])
  /\ pending[m] # None => EndsClosed(seen[m], pending[m].t)
  /\ m \notin settled /\ pending[m] = None => \A a \in Nat : EndsClosed(seen[m], a) => Shown(log[m], markers, a, now)
  /\ GapsShown(log[m], seen[m], markers)

SeenInv == downSince <= now /\ \A m \in Markets : Seeing(m)

Grown(q, r) == Len(q) \in Nat /\ Len(r) \in Nat /\ Len(q) <= Len(r) /\ \A i \in 1..Len(q) : r[i] = q[i]

\* A sequence that grows goes on as it was.
LEMMA GrowsByOne ==
  /\ \A S : \A q \in Seq(S), e \in S : Grown(q, Append(q, e))
  /\ \A S : \A q \in Seq(S) : Grown(q, q)
  <1>1. ASSUME NEW S, NEW q \in Seq(S), NEW e \in S PROVE Grown(q, Append(q, e))
    <2>1. /\ Len(q) \in Nat /\ Len(Append(q, e)) = Len(q) + 1
          /\ \A i \in 1..Len(q) : Append(q, e)[i] = q[i]
      OBVIOUS
    <2> QED BY <2>1 DEF Grown
  <1>2. ASSUME NEW S, NEW q \in Seq(S) PROVE Grown(q, q)
    <2>1. Len(q) \in Nat
      OBVIOUS
    <2> QED BY <2>1 DEF Grown
  <1> QED BY <1>1, <1>2

\* What is shown stays shown.
LEMMA ShownStays ==
  ASSUME NEW q, NEW r, NEW M \in Seq(Nat), NEW N \in Seq(Nat), Grown(q, r), Grown(M, N),
         NEW a \in Nat, NEW b \in Nat, NEW c \in Nat, b <= c, Shown(q, M, a, b)
  PROVE  Shown(r, N, a, c)
  <1>1. CASE \E i \in 1..Len(q) : q[i].t = a /\ q[i].label = "CLOSE"
    <2>1. PICK i \in 1..Len(q) : q[i].t = a /\ q[i].label = "CLOSE"
      BY <1>1
    <2>2. i \in 1..Len(r) /\ r[i] = q[i]
      BY DEF Grown
    <2> QED BY <2>1, <2>2 DEF Shown
  <1>2. CASE \E i \in 1..Len(M) : a < M[i] /\ M[i] <= b
    <2>1. PICK i \in 1..Len(M) : a < M[i] /\ M[i] <= b
      BY <1>2
    <2>2. i \in 1..Len(N) /\ N[i] = M[i] /\ M[i] \in Nat
      BY DEF Grown
    <2>3. N[i] <= c
      BY <2>1, <2>2
    <2> QED BY <2>1, <2>2, <2>3 DEF Shown
  <1> QED BY <1>1, <1>2 DEF Shown

\* What is seen has a time.
LEMMA SeenTyped ==
  ASSUME NEW s \in Seq(Record), NEW i \in 1..Len(s)
  PROVE  s[i] \in Record /\ s[i].t \in Nat /\ s[i].label \in Labels
  <1>1. s[i] \in Record
    OBVIOUS
  <1> QED BY <1>1 DEF Record

LEMMA GapsStay ==
  ASSUME NEW q, NEW r, NEW M \in Seq(Nat), NEW N \in Seq(Nat), Grown(q, r), Grown(M, N),
         NEW s \in Seq(Record), GapsShown(q, s, M)
  PROVE  GapsShown(r, s, N)
  <1> SUFFICES ASSUME NEW i \in 1..(Len(s) - 1), s[i].label = "CLOSE", s[i + 1].label = "OPEN",
                      s[i + 1].t - s[i].t > Window + FlushLag
               PROVE  Shown(r, N, s[i].t, s[i + 1].t)
    BY DEF GapsShown
  <1>1. i \in 1..Len(s) /\ i + 1 \in 1..Len(s)
    OBVIOUS
  <1>2. s[i].t \in Nat /\ s[i + 1].t \in Nat
    BY <1>1, SeenTyped
  <1>3. Shown(q, M, s[i].t, s[i + 1].t)
    BY DEF GapsShown
  <1> DEFINE a == s[i].t
             b == s[i + 1].t
  <1> HIDE DEF a, b
  <1>4. a \in Nat /\ b \in Nat /\ b <= b /\ Shown(q, M, a, b)
    BY <1>2, <1>3 DEF a, b
  <1>5. Shown(r, N, a, b)
    BY <1>4, ShownStays
  <1> QED BY <1>5 DEF a, b

\* Something is seen.
LEMMA SeenGrows ==
  ASSUME NEW s \in Seq(Record), NEW e \in Record, NEW n \in Nat, e.t = n, InTurn(s, n), \A i \in 1..Len(s) : s[i].t < n
  PROVE  /\ InTurn(Append(s, e), n)
         /\ \A q : WasSeen(q, s) => WasSeen(q, Append(s, e))
         /\ \A a \in Nat : EndsClosed(Append(s, e), a) <=> e.label = "CLOSE" /\ a = n
         /\ Saw(Append(s, e), n, e.label)
  <1> DEFINE r == Append(s, e)
  <1>1. /\ Len(s) \in Nat /\ Len(r) = Len(s) + 1 /\ r[Len(s) + 1] = e
        /\ \A i \in 1..Len(s) : r[i] = s[i]
    BY LogGrows
  <1> HIDE DEF r
  <1>2. InTurn(r, n)
    <2>1. \A i \in 1..Len(r) : r[i].t <= n
      BY <1>1 DEF InTurn
    <2>2. ASSUME NEW i \in 1..Len(r), NEW j \in 1..Len(r), i < j PROVE r[i].t < r[j].t
      <3>1. i \in 1..Len(s)
        BY <1>1, <2>2
      <3>2. CASE j = Len(s) + 1
        BY <1>1, <3>1, <3>2
      <3>3. CASE j # Len(s) + 1
        <4>1. j \in 1..Len(s)
          BY <1>1, <3>3
        <4> QED BY <1>1, <2>2, <3>1, <4>1 DEF InTurn
      <3> QED BY <3>2, <3>3
    <2> QED BY <2>1, <2>2 DEF InTurn
  <1>3. \A t, label : Saw(s, t, label) => Saw(r, t, label)
    BY <1>1 DEF Saw
  <1>4. \A q : WasSeen(q, s) => WasSeen(q, r)
    BY <1>3 DEF WasSeen
  <1>5. Saw(r, n, e.label)
    BY <1>1 DEF Saw
  <1>6. \A a \in Nat : EndsClosed(r, a) <=> e.label = "CLOSE" /\ a = n
    BY <1>1 DEF EndsClosed
  <1> QED BY <1>2, <1>4, <1>5, <1>6 DEF r

\* An edge opens again.
LEMMA GapsGrow ==
  ASSUME NEW s \in Seq(Record), NEW e \in Record, NEW q, NEW M, GapsShown(q, s, M),
         \A a \in Nat : e.label = "OPEN" /\ EndsClosed(s, a) /\ e.t - a > Window + FlushLag => Shown(q, M, a, e.t)
  PROVE  GapsShown(q, Append(s, e), M)
  <1> DEFINE r == Append(s, e)
  <1>1. /\ Len(s) \in Nat /\ Len(r) = Len(s) + 1 /\ r[Len(s) + 1] = e
        /\ \A i \in 1..Len(s) : r[i] = s[i]
    BY LogGrows
  <1> HIDE DEF r
  <1>2. ASSUME NEW i \in 1..(Len(r) - 1), r[i].label = "CLOSE", r[i + 1].label = "OPEN", r[i + 1].t - r[i].t > Window + FlushLag
        PROVE  Shown(q, M, r[i].t, r[i + 1].t)
    <2>1. CASE i = Len(s)
      <3>1. r[i] = s[i] /\ r[i + 1] = e /\ i \in 1..Len(s)
        BY <1>1, <2>1
      <3>2. s[i].t \in Nat
        BY <3>1, SeenTyped
      <3>3. EndsClosed(s, s[i].t)
        BY <1>2, <2>1, <3>1 DEF EndsClosed
      <3> QED BY <1>2, <3>1, <3>2, <3>3
    <2>2. CASE i # Len(s)
      <3>1. i \in 1..(Len(s) - 1) /\ r[i] = s[i] /\ r[i + 1] = s[i + 1]
        BY <1>1, <2>2
      <3> QED BY <1>2, <3>1 DEF GapsShown
    <2> QED BY <2>1, <2>2
  <1> QED BY <1>2 DEF GapsShown, r

\* Something that was seen is logged.
LEMMA LogsSeen ==
  ASSUME NEW q \in Seq(Record), NEW d \in Record, NEW s, WasSeen(q, s),
         d.label \in {"OPEN", "CLOSE"} => Saw(s, d.t, d.label)
  PROVE  WasSeen(Append(q, d), s)
  <1> DEFINE r == Append(q, d)
  <1>1. /\ Len(q) \in Nat /\ Len(r) = Len(q) + 1 /\ r[Len(q) + 1] = d
        /\ \A i \in 1..Len(q) : r[i] = q[i]
    BY LogGrows
  <1> HIDE DEF r
  <1>2. ASSUME NEW i \in 1..Len(r), r[i].label \in {"OPEN", "CLOSE"} PROVE Saw(s, r[i].t, r[i].label)
    <2>1. CASE i = Len(q) + 1
      BY <1>1, <1>2, <2>1
    <2>2. CASE i # Len(q) + 1
      <3>1. i \in 1..Len(q)
        BY <1>1, <2>2
      <3> QED BY <1>1, <1>2, <3>1 DEF WasSeen
    <2> QED BY <2>1, <2>2
  <1> QED BY <1>2 DEF WasSeen, r

\* What a frame adds to what was seen of its market, and to its log.
FrameShows(m, px) ==
  LET new == EdgeState(px)
      was == state[m] # None /\ state[m].arb
      Sees(label) == seen'[m] = Append(seen[m], Entry(now, label, new, px))
      Logs(label) == log'[m] = Append(log[m], Entry(now, label, new, px))
  IN  /\ \A k \in Markets \ {m} : seen'[k] = seen[k] /\ pending'[k] = pending[k] /\ log'[k] = log[k]
      /\ \/ seen'[m] = seen[m] /\ pending'[m] = pending[m] /\ log'[m] = log[m]
         \/ Sees("CLOSE") /\ pending'[m] # None /\ pending'[m].t = now /\ log'[m] = log[m]
         \/ /\ Sees("OPEN") /\ pending'[m] = None
            /\ log'[m] = log[m] \/ Logs("OPEN") \/ Logs("FLIP")
         \/ /\ was /\ pending'[m] = pending[m]
            /\ \E label \in Labels \ {"OPEN", "CLOSE"} : Sees(label) /\ Logs(label)

LEMMA FrameShowsIt ==
  ASSUME EpisodesTypeOK, NEW m \in Markets, NEW px \in Books, FrameOf(m, px)
  PROVE  FrameShows(m, px)
  <1> DEFINE new == EdgeState(px)
             was == state[m] # None /\ state[m].arb
             label == Classify(state[m], new)
  <1>1. /\ new \in EdgeStates /\ state[m] \in EdgeStates \cup {None} /\ now \in Nat
        /\ pending \in [Markets -> {None} \cup [t : Nat, px : Books]]
        /\ log \in [Markets -> Seq(Record)] /\ seen \in [Markets -> Seq(Record)]
    BY StatesTyped DEF EpisodesTypeOK
  <1>2. /\ label \in Labels \cup {None}
        /\ label \in Labels \ {"OPEN", "CLOSE"} => was /\ new.arb
    BY <1>1, Classified
  <1>3. /\ label = None => UNCHANGED <<pending, lastDir, log, seen>>
        /\ label # None => Feed(m, label, new, px) /\ seen' = [seen EXCEPT ![m] = Append(@, Entry(now, label, new, px))]
    BY DEF FrameOf
  <1>4. None \notin Labels /\ {"OPEN", "CLOSE"} \subseteq Labels /\ [t |-> now, px |-> px] # None
    BY <1>1, EpisodesAssumption DEF Labels
  <1> HIDE DEF new, was, label
  <1>5. CASE label = None
    BY <1>3, <1>5 DEF FrameShows
  <1>6. CASE label \in Labels
    <2> DEFINE e == Entry(now, label, new, px)
    <2>1. seen' = [seen EXCEPT ![m] = Append(@, e)] /\ Feed(m, label, new, px)
      BY <1>3, <1>4, <1>6
    <2> HIDE DEF e
    <2>2. seen'[m] = Append(seen[m], e) /\ \A k \in Markets \ {m} : seen'[k] = seen[k]
      BY <1>1, <2>1
    <2>3. CASE label = "CLOSE"
      <3>1. pending' = [pending EXCEPT ![m] = [t |-> now, px |-> px]] /\ UNCHANGED log
        BY <2>1, <2>3 DEF Feed
      <3>2. /\ pending'[m] = [t |-> now, px |-> px]
            /\ \A k \in Markets \ {m} : pending'[k] = pending[k]
        BY <1>1, <3>1
      <3>3. pending'[m] # None /\ pending'[m].t = now
        BY <1>4, <3>2
      <3> QED BY <2>2, <2>3, <3>1, <3>2, <3>3 DEF FrameShows, e, new, was
    <2>4. CASE label # "CLOSE"
      <3>1. /\ pending' = IF label = "OPEN" THEN [pending EXCEPT ![m] = None] ELSE pending
            /\ log' = IF Suppressed(m, label, new) THEN log
                      ELSE [log EXCEPT ![m] = Append(@, Entry(now, LogLabel(m, label), new, px))]
        BY <2>1, <2>4 DEF Feed
      <3>2. /\ pending'[m] = IF label = "OPEN" THEN None ELSE pending[m]
            /\ \A k \in Markets \ {m} : pending'[k] = pending[k]
        BY <1>1, <3>1
      <3>3. /\ \A k \in Markets \ {m} : log'[k] = log[k]
            /\ log'[m] = IF Suppressed(m, label, new) THEN log[m] ELSE Append(log[m], Entry(now, LogLabel(m, label), new, px))
        BY <1>1, <3>1
      <3>4. CASE label = "OPEN"
        <4>1. \/ log'[m] = log[m]
              \/ log'[m] = Append(log[m], Entry(now, "OPEN", new, px))
              \/ log'[m] = Append(log[m], Entry(now, "FLIP", new, px))
          BY <3>3, <3>4 DEF LogLabel
        <4>2. seen'[m] = Append(seen[m], Entry(now, "OPEN", new, px))
          BY <2>2, <3>4 DEF e
        <4> QED BY <2>2, <3>2, <3>3, <3>4, <4>1, <4>2 DEF FrameShows, new, was
      <3>5. CASE label # "OPEN"
        <4>1. log'[m] = Append(log[m], Entry(now, label, new, px)) /\ label \in Labels \ {"OPEN", "CLOSE"} /\ pending'[m] = pending[m]
          BY <1>6, <2>4, <3>2, <3>3, <3>5 DEF Suppressed, LogLabel
        <4>2. was
          BY <1>2, <4>1
        <4> QED BY <2>2, <3>2, <3>3, <4>1, <4>2 DEF FrameShows, e, new, was
      <3> QED BY <3>4, <3>5
    <2> QED BY <2>3, <2>4
  <1> QED BY <1>2, <1>5, <1>6

\* A frame is seen in turn, and an edge that opens again after the window and a sleep of the flusher was shown to be gone.
LEMMA FrameSeeing ==
  ASSUME OrderInv, SeenInv, NEW m \in Markets, NEW px \in Books, FrameShows(m, px), up, m \notin settled, ~ Overdue(m),
         OwnTime(m), UNCHANGED <<now, up, settled, markers, downSince>>
  PROVE  \A k \in Markets : Seeing(k)'
  <1> SUFFICES ASSUME NEW k \in Markets PROVE Seeing(k)'
    OBVIOUS
  <1>1. CASE k # m
    <2>1. seen'[k] = seen[k] /\ pending'[k] = pending[k] /\ log'[k] = log[k]
      BY <1>1 DEF FrameShows
    <2>2. Seeing(k)
      BY DEF SeenInv
    <2> QED BY <2>1, <2>2 DEF Seeing
  <1>2. CASE k = m
    <2> DEFINE new == EdgeState(px)
    <2>1. /\ Seeing(m) /\ OneMarket(m) /\ now \in Nat /\ log[m] \in Seq(Record) /\ seen[m] \in Seq(Record) /\ markers \in Seq(Nat)
          /\ pending[m] \in {None} \cup [t : Nat, px : Books]
      BY DEF SeenInv, OrderInv, EpisodesTypeOK
    <2>2. \A i \in 1..Len(seen[m]) : seen[m][i].t < now
      BY <2>1 DEF OwnTime
    <2>3. ASSUME NEW label \in Labels
          PROVE  /\ Entry(now, label, new, px) \in Record
                 /\ Entry(now, label, new, px).t = now /\ Entry(now, label, new, px).label = label
      BY <2>1, EntryTyped
    <2>4. CASE seen'[m] = seen[m] /\ pending'[m] = pending[m] /\ log'[m] = log[m]
      BY <1>2, <2>1, <2>4 DEF Seeing
    <2> DEFINE Sees(label) == seen'[m] = Append(seen[m], Entry(now, label, new, px))
               Logs(label) == log'[m] = Append(log[m], Entry(now, label, new, px))
               s == seen[m]
               q == log[m]
    <2>5. ASSUME NEW label \in Labels, Sees(label),
                 label = "OPEN" => \A a \in Nat : EndsClosed(s, a) /\ now - a > Window + FlushLag => Shown(q, markers, a, now)
          PROVE  /\ InTurn(seen'[m], now) /\ WasSeen(q, seen'[m]) /\ Saw(seen'[m], now, label)
                 /\ \A a \in Nat : EndsClosed(seen'[m], a) <=> label = "CLOSE" /\ a = now
                 /\ GapsShown(q, seen'[m], markers)
      <3> DEFINE e == Entry(now, label, new, px)
      <3>1. e \in Record /\ e.t = now /\ e.label = label /\ s \in Seq(Record) /\ now \in Nat
            /\ InTurn(s, now) /\ WasSeen(q, s) /\ GapsShown(q, s, markers)
        BY <2>1, <2>3 DEF Seeing
      <3>2. \A i \in 1..Len(s) : s[i].t < now
        BY <2>2
      <3>3. seen'[m] = Append(s, e)
        BY <2>5
      <3>4. \A a \in Nat : e.label = "OPEN" /\ EndsClosed(s, a) /\ e.t - a > Window + FlushLag => Shown(q, markers, a, e.t)
        BY <2>5, <3>1
      <3> HIDE DEF e, s, q
      <3>5. /\ InTurn(Append(s, e), now)
            /\ \A x : WasSeen(x, s) => WasSeen(x, Append(s, e))
            /\ \A a \in Nat : EndsClosed(Append(s, e), a) <=> e.label = "CLOSE" /\ a = now
            /\ Saw(Append(s, e), now, e.label)
        BY <3>1, <3>2, SeenGrows
      <3>6. GapsShown(q, Append(s, e), markers)
        BY <3>1, <3>4, GapsGrow
      <3> QED BY <3>1, <3>3, <3>5, <3>6
    <2>6. ASSUME NEW label \in Labels, Logs(label), WasSeen(q, seen'[m]), GapsShown(q, seen'[m], markers), seen'[m] \in Seq(Record),
                 label \in {"OPEN", "CLOSE"} => Saw(seen'[m], now, label)
          PROVE  WasSeen(log'[m], seen'[m]) /\ GapsShown(log'[m], seen'[m], markers)
      <3> DEFINE d == Entry(now, label, new, px)
                 z == seen'[m]
      <3>1. d \in Record /\ d.t = now /\ d.label = label /\ q \in Seq(Record) /\ WasSeen(q, z) /\ GapsShown(q, z, markers) /\ z \in Seq(Record)
            /\ (d.label \in {"OPEN", "CLOSE"} => Saw(z, d.t, d.label))
        BY <2>1, <2>3, <2>6
      <3>2. log'[m] = Append(q, d)
        BY <2>6
      <3> HIDE DEF d, s, q, z
      <3>3. WasSeen(Append(q, d), z)
        BY <3>1, LogsSeen
      <3>4. Grown(q, Append(q, d)) /\ Grown(markers, markers)
        BY <2>1, <3>1, GrowsByOne
      <3>5. GapsShown(Append(q, d), z, markers)
        BY <2>1, <3>1, <3>4, GapsStay
      <3> QED BY <3>2, <3>3, <3>5 DEF z
    <2>7. ASSUME NEW label \in Labels, Sees(label) PROVE seen'[m] \in Seq(Record)
      <3>1. Entry(now, label, new, px) \in Record
        BY <2>3
      <3> QED BY <2>1, <2>7, <3>1, LogGrows
    <2> HIDE DEF new
    <2>8. CASE Sees("CLOSE") /\ pending'[m] # None /\ pending'[m].t = now /\ log'[m] = log[m]
      <3>1. "CLOSE" \in Labels
        BY DEF Labels
      <3>2. /\ InTurn(seen'[m], now) /\ WasSeen(q, seen'[m]) /\ EndsClosed(seen'[m], now) /\ GapsShown(q, seen'[m], markers)
        BY <2>1, <2>5, <2>8, <3>1
      <3> QED BY <1>2, <2>8, <3>2 DEF Seeing
    <2>9. CASE /\ Sees("OPEN") /\ pending'[m] = None
               /\ log'[m] = log[m] \/ Logs("OPEN") \/ Logs("FLIP")
      <3>1. "OPEN" \in Labels /\ "FLIP" \in Labels
        BY DEF Labels
      <3>2. ASSUME NEW a \in Nat, EndsClosed(s, a), now - a > Window + FlushLag PROVE Shown(q, markers, a, now)
        <4>1. pending[m] = None
          <5>1. ASSUME pending[m] # None PROVE pending[m].t = a
            BY <2>1, <3>2, <5>1 DEF Seeing, EndsClosed
          <5> QED BY <3>2, <5>1 DEF Overdue
        <4> QED BY <2>1, <3>2, <4>1 DEF Seeing
      <3>3. /\ InTurn(seen'[m], now) /\ WasSeen(q, seen'[m]) /\ Saw(seen'[m], now, "OPEN")
            /\ \A a \in Nat : EndsClosed(seen'[m], a) <=> "OPEN" = "CLOSE" /\ a = now
            /\ GapsShown(q, seen'[m], markers) /\ seen'[m] \in Seq(Record)
        <4> HIDE DEF s, q
        <4> QED BY <2>5, <2>7, <2>9, <3>1, <3>2
      <3>4. WasSeen(log'[m], seen'[m]) /\ GapsShown(log'[m], seen'[m], markers)
        <4>1. CASE log'[m] = log[m]
          BY <3>3, <4>1
        <4>2. CASE Logs("OPEN")
          <5> HIDE DEF q, Logs
          <5> QED BY <2>6, <3>1, <3>3, <4>2
        <4>3. CASE Logs("FLIP")
          <5>1. "FLIP" \notin {"OPEN", "CLOSE"}
            OBVIOUS
          <5> HIDE DEF q, Logs
          <5> QED BY <2>6, <3>1, <3>3, <4>3, <5>1
        <4> QED BY <2>9, <4>1, <4>2, <4>3
      <3> QED BY <1>2, <2>9, <3>3, <3>4 DEF Seeing
    <2>10. CASE /\ state[m] # None /\ state[m].arb /\ pending'[m] = pending[m]
                /\ \E label \in Labels \ {"OPEN", "CLOSE"} : Sees(label) /\ Logs(label)
      <3>1. PICK label \in Labels \ {"OPEN", "CLOSE"} : Sees(label) /\ Logs(label)
        BY <2>10
      <3>2. pending'[m] = None
        BY <2>1, <2>10 DEF OneMarket
      <3>3. /\ InTurn(seen'[m], now) /\ WasSeen(q, seen'[m])
            /\ \A a \in Nat : EndsClosed(seen'[m], a) <=> label = "CLOSE" /\ a = now
            /\ GapsShown(q, seen'[m], markers) /\ seen'[m] \in Seq(Record)
        <4> HIDE DEF s, q
        <4> QED BY <2>5, <2>7, <3>1
      <3>4. WasSeen(log'[m], seen'[m]) /\ GapsShown(log'[m], seen'[m], markers)
        <4> HIDE DEF q, Logs
        <4> QED BY <2>6, <3>1, <3>3
      <3> QED BY <1>2, <3>1, <3>2, <3>3, <3>4 DEF Seeing
    <2> QED BY <2>4, <2>8, <2>9, <2>10 DEF FrameShows, new
  <1> QED BY <1>1, <1>2

\* What stays, and is shown, of a market whose log, markers and clock have grown.
LEMMA SeeingStays ==
  ASSUME OrderInv, NEW m \in Markets, Seeing(m), now \in Nat, now' \in Nat, now <= now',
         log'[m] \in Seq(Record), markers' \in Seq(Nat), Grown(log[m], log'[m]), Grown(markers, markers'), seen'[m] = seen[m]
  PROVE  /\ InTurn(seen'[m], now') /\ GapsShown(log'[m], seen'[m], markers')
         /\ m \notin settled /\ pending[m] = None => \A a \in Nat : EndsClosed(seen[m], a) => Shown(log'[m], markers', a, now')
  <1> DEFINE s == seen[m]
             q == log[m]
             r == log'[m]
             M == markers
             N == markers'
             n == now
             n2 == now'
  <1>1. /\ s \in Seq(Record) /\ M \in Seq(Nat) /\ N \in Seq(Nat) /\ Grown(q, r) /\ Grown(M, N)
        /\ n \in Nat /\ n2 \in Nat /\ n <= n2
        /\ InTurn(s, n) /\ GapsShown(q, s, M) /\ seen'[m] = s
        /\ m \notin settled /\ pending[m] = None => \A a \in Nat : EndsClosed(s, a) => Shown(q, M, a, n)
    BY DEF OrderInv, EpisodesTypeOK, Seeing
  <1> SUFFICES /\ InTurn(s, n2) /\ GapsShown(r, s, N)
               /\ (\A a \in Nat : EndsClosed(s, a) => Shown(q, M, a, n)) => (\A a \in Nat : EndsClosed(s, a) => Shown(r, N, a, n2))
    BY <1>1
  <1> HIDE DEF s, q, r, M, N, n, n2
  <1>2. InTurn(s, n2)
    <2>1. \A i \in 1..Len(s) : s[i].t \in Nat
      BY <1>1, SeenTyped
    <2> QED BY <1>1, <2>1 DEF InTurn
  <1>3. GapsShown(r, s, N)
    BY <1>1, GapsStay
  <1>4. ASSUME NEW a \in Nat, Shown(q, M, a, n) PROVE Shown(r, N, a, n2)
    BY <1>1, <1>4, ShownStays
  <1> QED BY <1>2, <1>3, <1>4

\* A flushed close was seen.
LEMMA FlushSeeing == ASSUME OrderInv, SeenInv, Flush PROVE SeenInv'
  <1>1. UNCHANGED <<now, up, settled, markers, downSince, seen>>
    BY DEF Flush, history
  <1>2. ASSUME NEW m \in Markets PROVE Seeing(m)'
    <2>1. /\ Seeing(m) /\ now \in Nat /\ log[m] \in Seq(Record) /\ seen[m] \in Seq(Record) /\ markers \in Seq(Nat)
          /\ pending[m] \in {None} \cup [t : Nat, px : Books]
          /\ log'[m] = IF Expired(m)
                       THEN Append(log[m], Entry(CloseTime(m), "CLOSE", EdgeState(pending[m].px), pending[m].px))
                       ELSE log[m]
          /\ pending'[m] = IF Expired(m) THEN None ELSE pending[m]
      BY DEF SeenInv, OrderInv, EpisodesTypeOK, Flush
    <2>2. CASE ~ Expired(m)
      BY <1>1, <2>1, <2>2 DEF Seeing
    <2>3. CASE Expired(m)
      <3> DEFINE d == Entry(CloseTime(m), "CLOSE", EdgeState(pending[m].px), pending[m].px)
                 q == log[m]
                 s == seen[m]
                 a == pending[m].t
      <3>1. a \in Nat /\ pending[m].px \in Books /\ pending[m] # None
        BY <2>1, <2>3 DEF Expired
      <3>2. d \in Record /\ d.label = "CLOSE" /\ d.t = a
        BY <3>1, EntryTyped DEF CloseTime, Labels
      <3>3. log'[m] = Append(q, d) /\ pending'[m] = None
        BY <2>1, <2>3
      <3>4. EndsClosed(s, a) /\ WasSeen(q, s) /\ q \in Seq(Record) /\ s \in Seq(Record)
        BY <2>1, <3>1 DEF Seeing
      <3> HIDE DEF d
      <3>5. Grown(q, Append(q, d)) /\ Grown(markers, markers) /\ Append(q, d) \in Seq(Record)
        BY <2>1, <3>2, GrowsByOne, LogGrows
      <3>6. InTurn(seen'[m], now') /\ GapsShown(log'[m], seen'[m], markers')
        <4>1. now' \in Nat /\ now <= now' /\ markers' \in Seq(Nat) /\ seen'[m] = seen[m]
          BY <1>1, <2>1
        <4>2. log'[m] \in Seq(Record) /\ Grown(log[m], log'[m])
          BY <3>3, <3>5
        <4>3. Grown(markers, markers')
          BY <1>1, <3>5
        <4> QED BY <2>1, <4>1, <4>2, <4>3, SeeingStays
      <3> HIDE DEF q, s, a
      <3>7. Saw(s, a, "CLOSE")
        <4>1. Len(s) \in Nat
          BY <3>4
        <4> QED BY <3>4, <4>1 DEF EndsClosed, Saw
      <3>8. WasSeen(Append(q, d), s)
        BY <3>2, <3>4, <3>7, LogsSeen
      <3>9. ASSUME NEW b \in Nat, EndsClosed(s, b) PROVE Shown(Append(q, d), markers, b, now)
        <4>1. b = a
          BY <3>4, <3>9 DEF EndsClosed
        <4>2. /\ Len(Append(q, d)) = Len(q) + 1 /\ Append(q, d)[Len(q) + 1] = d /\ Len(q) \in Nat
          BY <3>2, <3>4, LogGrows
        <4> QED BY <3>2, <4>1, <4>2 DEF Shown
      <3>10. seen'[m] = s /\ (~ up => InTurn(s, downSince))
        BY <1>1, <2>1 DEF Seeing, s
      <3> QED BY <1>1, <3>3, <3>6, <3>8, <3>9, <3>10 DEF Seeing
    <2> QED BY <2>2, <2>3
  <1> QED BY <1>1, <1>2 DEF SeenInv

\* A marker of a restart is later than the death of the process, if the restart takes a second.
LEMMA StampIsLate ==
  ASSUME now \in Nat, downSince \in Nat, now >= downSince + BootTicks, BootTicks >= TicksPerSecond
  PROVE  downSince < Stamp /\ Stamp <= now
  <1>1. /\ TicksPerSecond \in Nat \ {0} /\ BootTicks \in Nat
    BY EpisodesAssumption
  <1> DEFINE d == now \div TicksPerSecond
             r == now % TicksPerSecond
             k == TicksPerSecond
  <1>2. k \in Nat \ {0} /\ now \in Nat
    BY <1>1
  <1>3. now = k * d + r /\ r \in 0..(k - 1) /\ d \in Int
    BY <1>2
  <1>4. Stamp = k * d
    <2>1. Stamp = d * k
      BY DEF Stamp
    <2> HIDE DEF d, k
    <2>2. d * k = k * d
      BY <1>2, <1>3
    <2> QED BY <2>1, <2>2
  <1> DEFINE x == k * d
  <1>5. x \in Int
    BY <1>2, <1>3
  <1>6. k <= BootTicks
    OBVIOUS
  <1> HIDE DEF d, r, k, x
  <1> QED BY <1>1, <1>2, <1>3, <1>4, <1>5, <1>6 DEF x

\* A marker more.
LEMMA MarkersGrow ==
  ASSUME OrderInv, Mark
  PROVE  /\ markers' \in Seq(Nat) /\ Grown(markers, markers') /\ Stamp \in Nat
         /\ Len(markers') \in 1..Len(markers') /\ markers'[Len(markers')] = Stamp
  <1>1. now \in Nat /\ markers \in Seq(Nat) /\ markers' = Append(markers, Stamp)
    BY DEF OrderInv, EpisodesTypeOK, Mark
  <1>2. Stamp \in Nat
    BY <1>1, StampTyped
  <1> DEFINE x == Stamp
  <1>3. x \in Nat /\ markers' = Append(markers, x)
    BY <1>1, <1>2
  <1> HIDE DEF x
  <1>4. Grown(markers, Append(markers, x))
    BY <1>1, <1>3, GrowsByOne
  <1>5. /\ Append(markers, x) \in Seq(Nat) /\ Len(Append(markers, x)) = Len(markers) + 1 /\ Len(markers) \in Nat
        /\ Append(markers, x)[Len(markers) + 1] = x
    BY <1>1, <1>3
  <1> QED BY <1>3, <1>4, <1>5 DEF x

LEMMA BootSeeing == ASSUME BootTicks >= TicksPerSecond, OrderInv, SeenInv, Boot PROVE SeenInv'
  <1>1. /\ ~ up /\ now >= downSince + BootTicks /\ up' = TRUE /\ pending' = [m \in Markets |-> None]
        /\ Mark /\ UNCHANGED <<now, log, settled, downSince, seen>>
    BY DEF Boot, history
  <1>2. /\ markers' \in Seq(Nat) /\ Grown(markers, markers') /\ Stamp \in Nat
        /\ Len(markers') \in 1..Len(markers') /\ markers'[Len(markers')] = Stamp
    BY <1>1, MarkersGrow
  <1>3. now \in Nat /\ downSince \in Nat /\ downSince < Stamp /\ Stamp <= now
    BY <1>1, StampIsLate DEF OrderInv, EpisodesTypeOK
  <1>4. ASSUME NEW m \in Markets PROVE Seeing(m)'
    <2>1. Seeing(m) /\ log[m] \in Seq(Record) /\ seen[m] \in Seq(Record) /\ log'[m] = log[m] /\ seen'[m] = seen[m] /\ pending'[m] = None
      BY <1>1 DEF SeenInv, OrderInv, EpisodesTypeOK
    <2>2. Grown(log[m], log'[m])
      BY <2>1, GrowsByOne
    <2>3. InTurn(seen'[m], now') /\ GapsShown(log'[m], seen'[m], markers')
      BY <1>1, <1>2, <1>3, <2>1, <2>2, SeeingStays
    <2>4. ASSUME NEW a \in Nat, EndsClosed(seen[m], a) PROVE Shown(log[m], markers', a, now)
      <3>1. a <= downSince
        <4>1. Len(seen[m]) \in Nat
          BY <2>1
        <4> QED BY <1>1, <2>1, <2>4, <4>1 DEF Seeing, InTurn, EndsClosed
      <3>2. a < Stamp
        BY <1>2, <1>3, <3>1
      <3> QED BY <1>2, <1>3, <3>2 DEF Shown
    <2> QED BY <1>1, <2>1, <2>3, <2>4 DEF Seeing
  <1> QED BY <1>1, <1>4 DEF SeenInv

\* Everything else that happens to a market leaves what is seen and shown of it.
LEMMA SeenUnmoved ==
  ASSUME OrderInv, OrderInv', SeenInv, UNCHANGED <<log, seen>>, now <= now', Grown(markers, markers'),
         \/ UNCHANGED <<up, downSince>>
         \/ up' = FALSE /\ downSince' = now /\ UNCHANGED now,
         \A m \in Markets : \/ pending'[m] = pending[m] /\ (m \in settled' <=> m \in settled)
                            \/ pending'[m] = None /\ m \in settled'
  PROVE  SeenInv'
  <1>1. now \in Nat /\ now' \in Nat /\ markers' \in Seq(Nat) /\ downSince \in Nat /\ up \in BOOLEAN
    BY DEF OrderInv, EpisodesTypeOK
  <1>2. ASSUME NEW m \in Markets PROVE Seeing(m)'
    <2>1. Seeing(m) /\ log[m] \in Seq(Record) /\ seen[m] \in Seq(Record) /\ log'[m] = log[m] /\ seen'[m] = seen[m]
      BY DEF SeenInv, OrderInv, EpisodesTypeOK
    <2>2. Grown(log[m], log'[m])
      BY <2>1, GrowsByOne
    <2>3. /\ InTurn(seen'[m], now') /\ GapsShown(log'[m], seen'[m], markers')
          /\ m \notin settled /\ pending[m] = None => \A a \in Nat : EndsClosed(seen[m], a) => Shown(log'[m], markers', a, now')
      BY <1>1, <2>1, <2>2, SeeingStays
    <2>4. ~ up' => InTurn(seen[m], downSince')
      BY <2>1 DEF Seeing
    <2>5. /\ WasSeen(log[m], seen[m])
          /\ pending'[m] # None => EndsClosed(seen[m], pending'[m].t)
          /\ m \notin settled' => m \notin settled /\ pending'[m] = pending[m]
      BY <2>1 DEF Seeing
    <2> HIDE DEF SeenInv
    <2> QED BY <2>1, <2>3, <2>4, <2>5 DEF Seeing
  <1>3. downSince' <= now'
    BY <1>1 DEF SeenInv
  <1> QED BY <1>2, <1>3 DEF SeenInv

\* However long the flusher sleeps, with restarts that take a second, what was seen and not logged is shown in every reachable state.
LEMMA SeenAlways ==
  ASSUME BootTicks >= TicksPerSecond
  PROVE  Spec => []SeenInv
  <1>1. Init => SeenInv
    <2> SUFFICES ASSUME Init PROVE SeenInv
      OBVIOUS
    <2>1. /\ pending = [m \in Markets |-> None] /\ log = [m \in Markets |-> <<>>] /\ seen = [m \in Markets |-> <<>>]
          /\ now = 0 /\ up = TRUE /\ downSince = 0
      BY DEF Init
    <2>2. ASSUME NEW m \in Markets PROVE Seeing(m)
      <3>1. Len(log[m]) = 0 /\ Len(seen[m]) = 0 /\ pending[m] = None
        BY <2>1
      <3> QED BY <2>1, <3>1 DEF Seeing, InTurn, WasSeen, GapsShown, EndsClosed
    <2> QED BY <2>1, <2>2 DEF SeenInv
  <1>2. OrderInv /\ OrderInv' /\ SeenInv /\ [Next]_vars => SeenInv'
    <2> SUFFICES ASSUME OrderInv, OrderInv', SeenInv, [Next]_vars PROVE SeenInv'
      OBVIOUS
    <2>1. now \in Nat /\ markers \in Seq(Nat) /\ Grown(markers, markers) /\ pending \in [Markets -> {None} \cup [t : Nat, px : Books]]
      BY GrowsByOne DEF OrderInv, EpisodesTypeOK
    <2>2. ASSUME NEW m \in Markets, Frame(m) PROVE SeenInv'
      <3>1. PICK px \in Books : FrameOf(m, px)
        BY <2>2 DEF Frame, FrameOf
      <3>2. /\ UNCHANGED <<now, up, settled, markers, downSince>> /\ m \notin settled /\ up /\ OwnTime(m)
            /\ ~ Overdue(m)
        BY <2>2 DEF Frame
      <3>3. FrameShows(m, px)
        BY <3>1, FrameShowsIt DEF OrderInv
      <3>4. \A k \in Markets : Seeing(k)'
        BY <3>2, <3>3, FrameSeeing
      <3> QED BY <3>2, <3>4 DEF SeenInv
    <2>3. ASSUME NEW m \in Markets, Teardown(m) PROVE SeenInv'
      <3>1. /\ settled' = settled \cup {m} /\ pending' = [pending EXCEPT ![m] = None]
            /\ UNCHANGED <<now, up, log, markers, downSince, seen>>
        BY <2>3 DEF Teardown, history
      <3>2. \A k \in Markets : \/ pending'[k] = pending[k] /\ (k \in settled' <=> k \in settled)
                               \/ pending'[k] = None /\ k \in settled'
        BY <2>1, <3>1
      <3> QED BY <2>1, <3>1, <3>2, SeenUnmoved
    <2>4. CASE Flush
      BY <2>4, FlushSeeing
    <2>5. CASE Tick
      <3>1. now' = now + 1 /\ UNCHANGED <<up, pending, log, settled, markers, downSince, seen>>
        BY <2>5 DEF Tick, coreVars, history
      <3>2. now <= now'
        BY <2>1, <3>1
      <3> QED BY <2>1, <3>1, <3>2, SeenUnmoved
    <2>6. CASE Reconnect
      <3>1. Mark /\ UNCHANGED <<now, up, pending, log, settled, downSince, seen>>
        BY <2>6 DEF Reconnect, coreVars, history
      <3>2. Grown(markers, markers')
        BY <3>1, MarkersGrow
      <3> QED BY <2>1, <3>1, <3>2, SeenUnmoved
    <2>7. CASE Crash
      <3>1. up' = FALSE /\ downSince' = now /\ UNCHANGED <<now, pending, log, settled, markers, seen>>
        BY <2>7 DEF Crash
      <3>2. now <= now' /\ Grown(markers, markers')
        BY <2>1, <3>1
      <3> QED BY <3>1, <3>2, SeenUnmoved
    <2>8. CASE Boot
      BY <2>8, BootSeeing
    <2>9. CASE UNCHANGED vars
      <3>1. UNCHANGED <<now, up, pending, log, settled, markers, downSince, seen>>
        BY <2>9 DEF vars, coreVars, history
      <3> QED BY <2>1, <3>1, SeenUnmoved
    <2> QED BY <2>2, <2>3, <2>4, <2>5, <2>6, <2>7, <2>8, <2>9 DEF Next
  <1> QED BY <1>1, <1>2, OrderAlways, PTL DEF Spec

(***************************************************************************)
(* The events of a market in order                                         *)
(***************************************************************************)

\* A marker is an event of its time, and so is a record.
IsMark(m, e) == \E i \in 1..Len(markers) : e = Event(markers[i], 0, "MARK", i)

IsRecord(m, e) == \E i \in 1..Len(log[m]) : e = Event(log[m][i].t, 1, log[m][i].label, i)

LEMMA EventsAre ==
  ASSUME EpisodesTypeOK, NEW m \in Markets
  PROVE  /\ \A e \in Events(m) : IsMark(m, e) \/ IsRecord(m, e)
         /\ \A i \in 1..Len(markers) : Event(markers[i], 0, "MARK", i) \in Events(m) /\ markers[i] \in Nat
         /\ \A i \in 1..Len(log[m]) : /\ Event(log[m][i].t, 1, log[m][i].label, i) \in Events(m)
                                      /\ log[m][i].t \in Nat /\ log[m][i].label \in Labels
  <1>1. log[m] \in Seq(Record) /\ markers \in Seq(Nat)
    BY DEF EpisodesTypeOK
  <1>2. DOMAIN markers = 1..Len(markers) /\ DOMAIN log[m] = 1..Len(log[m])
    BY <1>1
  <1>3. \A i \in 1..Len(log[m]) : log[m][i].t \in Nat /\ log[m][i].label \in Labels
    BY <1>1, SeenTyped
  <1>4. \A i \in 1..Len(markers) : markers[i] \in Nat
    BY <1>1
  <1>5. ASSUME NEW e \in Events(m) PROVE IsMark(m, e) \/ IsRecord(m, e)
    BY <1>2, <1>5 DEF Events, IsMark, IsRecord
  <1> QED BY <1>2, <1>3, <1>4, <1>5 DEF Events

\* The set is finite and has a strict order.
Ordered(E) ==
  /\ IsFiniteSet(E)
  /\ \A e \in E : ~ Earlier(e, e)
  /\ \A d, e \in E : d # e => Earlier(d, e) \/ Earlier(e, d)
  /\ \A c, d, e \in E : Earlier(c, d) /\ Earlier(d, e) => Earlier(c, e)

LEMMA EventsOrdered == ASSUME EpisodesTypeOK, NEW m \in Markets PROVE Ordered(Events(m))
  <1>1. log[m] \in Seq(Record) /\ markers \in Seq(Nat) /\ Len(markers) \in Nat /\ Len(log[m]) \in Nat
        /\ DOMAIN markers = 1..Len(markers) /\ DOMAIN log[m] = 1..Len(log[m])
    BY DEF EpisodesTypeOK
  <1>2. IsFiniteSet(Events(m))
    <2> DEFINE D == 1..Len(markers)
               F == 1..Len(log[m])
               S == {Event(markers[i], 0, "MARK", i) : i \in D}
               T == {Event(log[m][i].t, 1, log[m][i].label, i) : i \in F}
               f == [i \in D |-> Event(markers[i], 0, "MARK", i)]
               g == [i \in F |-> Event(log[m][i].t, 1, log[m][i].label, i)]
    <2>1. IsFiniteSet(D) /\ IsFiniteSet(F)
      BY <1>1, FS_Interval
    <2>2. f \in Surjection(D, S) /\ g \in Surjection(F, T)
      BY DEF Surjection
    <2>3. Events(m) = S \cup T
      BY <1>1 DEF Events
    <2> HIDE DEF D, F, S, T, f, g
    <2>4. IsFiniteSet(S) /\ IsFiniteSet(T)
      BY <2>1, <2>2, FS_Surjection
    <2> QED BY <2>3, <2>4, FS_Union
  <1>3. ASSUME NEW e \in Events(m)
        PROVE  /\ e.t \in Nat /\ e.order \in {0, 1} /\ e.i \in Nat
               /\ e = Event(e.t, e.order, IF e.order = 0 THEN "MARK" ELSE log[m][e.i].label, e.i)
    <2>1. CASE IsMark(m, e)
      <3>1. PICK i \in 1..Len(markers) : e = Event(markers[i], 0, "MARK", i)
        BY <2>1 DEF IsMark
      <3>2. markers[i] \in Nat
        BY <1>1
      <3> QED BY <3>1, <3>2 DEF Event
    <2>2. CASE IsRecord(m, e)
      <3>1. PICK i \in 1..Len(log[m]) : e = Event(log[m][i].t, 1, log[m][i].label, i)
        BY <2>2 DEF IsRecord
      <3>2. log[m][i].t \in Nat
        BY <1>1, SeenTyped
      <3> QED BY <3>1, <3>2 DEF Event
    <2> QED BY <1>3, <2>1, <2>2, EventsAre
  <1>4. \A e \in Events(m) : ~ Earlier(e, e)
    BY <1>3 DEF Earlier
  <1>5. ASSUME NEW d \in Events(m), NEW e \in Events(m), d # e PROVE Earlier(d, e) \/ Earlier(e, d)
    <2>1. ~ (d.t = e.t /\ d.order = e.order /\ d.i = e.i)
      <3> SUFFICES ASSUME d.t = e.t, d.order = e.order, d.i = e.i PROVE d = e
        BY <1>5
      <3> QED BY <1>3
    <2> QED BY <1>3, <2>1 DEF Earlier
  <1>6. ASSUME NEW c \in Events(m), NEW d \in Events(m), NEW e \in Events(m), Earlier(c, d), Earlier(d, e) PROVE Earlier(c, e)
    <2>1. /\ c.t \in Nat /\ d.t \in Nat /\ e.t \in Nat /\ c.i \in Nat /\ d.i \in Nat /\ e.i \in Nat
          /\ c.order \in Nat /\ d.order \in Nat /\ e.order \in Nat
      BY <1>3
    <2> QED BY <1>6, <2>1 DEF Earlier
  <1> QED BY <1>2, <1>4, <1>5, <1>6 DEF Ordered

Before(E, e) == {f \in E : Earlier(f, e)}

Places(E) == [e \in E |-> 1 + Cardinality(Before(E, e))]

\* A later event has a later place.
LEMMA PlacesRise ==
  ASSUME NEW E, Ordered(E), NEW d \in E, NEW e \in E, Earlier(d, e)
  PROVE  Places(E)[d] < Places(E)[e]
  <1> DEFINE S == Before(E, d)
             T == Before(E, e)
  <1>1. S \in SUBSET E /\ T \in SUBSET E /\ d \in T /\ d \notin S /\ S \cup {d} \in SUBSET T
    BY DEF Before, Ordered
  <1>2. Places(E)[d] = 1 + Cardinality(S) /\ Places(E)[e] = 1 + Cardinality(T)
    BY DEF Places
  <1> HIDE DEF S, T
  <1>3. IsFiniteSet(E)
    BY DEF Ordered
  <1>4. IsFiniteSet(S) /\ IsFiniteSet(T)
    BY <1>1, <1>3, FS_Subset
  <1>5. Cardinality(S) \in Nat /\ Cardinality(T) \in Nat /\ Cardinality(S \cup {d}) = Cardinality(S) + 1
    BY <1>1, <1>4, FS_CardinalityType, FS_AddElement
  <1>6. Cardinality(S \cup {d}) <= Cardinality(T)
    BY <1>1, <1>4, FS_Subset
  <1> QED BY <1>2, <1>5, <1>6

\* Every place is taken, by one event.
LEMMA PlacesFill ==
  ASSUME NEW E, Ordered(E)
  PROVE  /\ Cardinality(E) \in Nat
         /\ \A e \in E : Places(E)[e] \in 1..Cardinality(E)
         /\ \A n \in 1..Cardinality(E) : \E e \in E : Places(E)[e] = n
  <1> DEFINE N == Cardinality(E)
             T == 1..N
             f == Places(E)
  <1>1. IsFiniteSet(E) /\ N \in Nat
    BY FS_CardinalityType DEF Ordered
  <1>2. ASSUME NEW e \in E PROVE f[e] \in T
    <2> DEFINE S == Before(E, e)
               R == E \ {e}
    <2>1. S \in SUBSET R
      BY DEF Before, Ordered
    <2>2. f[e] = 1 + Cardinality(S)
      BY DEF Places
    <2>3. IsFiniteSet(R) /\ Cardinality(R) = N - 1
      BY <1>1, FS_RemoveElement
    <2> HIDE DEF S, R, N
    <2>4. IsFiniteSet(S) /\ Cardinality(S) <= Cardinality(R)
      BY <2>1, <2>3, FS_Subset
    <2>5. Cardinality(S) \in Nat
      BY <2>4, FS_CardinalityType
    <2> QED BY <1>1, <2>2, <2>3, <2>4, <2>5
  <1>3. ASSUME NEW d \in E, NEW e \in E, d # e PROVE f[d] # f[e]
    <2>1. CASE Earlier(d, e)
      <3>1. f[d] < f[e]
        BY <2>1, PlacesRise
      <3> QED BY <1>2, <3>1
    <2>2. CASE Earlier(e, d)
      <3>1. f[e] < f[d]
        BY <2>2, PlacesRise
      <3> QED BY <1>2, <3>1
    <2> QED BY <1>3, <2>1, <2>2 DEF Ordered
  <1>4. f \in Injection(E, T)
    <2>1. f = [e \in E |-> f[e]]
      BY DEF Places
    <2> HIDE DEF f, T
    <2>2. f \in [E -> T]
      BY <1>2, <2>1
    <2> QED BY <1>3, <2>2 DEF Injection, IsInjective
  <1>5. IsFiniteSet(T) /\ Cardinality(T) = N
    <2> HIDE DEF N
    <2>1. Cardinality(1..N) = (IF 1 > N THEN 0 ELSE N - 1 + 1) /\ IsFiniteSet(1..N)
      BY <1>1, FS_Interval
    <2> QED BY <1>1, <2>1
  <1> HIDE DEF f, T
  <1>6. f \in Surjection(E, T)
    BY <1>4, <1>5, FS_Injection
  <1>7. \A n \in T : \E e \in E : f[e] = n
    BY <1>6 DEF Surjection
  <1> QED BY <1>1, <1>2, <1>7 DEF f, T

\* The timeline has every event of the market, in order.
LEMMA TimelineOrders ==
  ASSUME EpisodesTypeOK, NEW m \in Markets
  PROVE  /\ Len(Timeline(m)) \in Nat
         /\ \A n \in 1..Len(Timeline(m)) : Timeline(m)[n] \in Events(m)
         /\ \A e \in Events(m) : \E n \in 1..Len(Timeline(m)) : Timeline(m)[n] = e
         /\ \A p, q \in 1..Len(Timeline(m)) : p < q <=> Earlier(Timeline(m)[p], Timeline(m)[q])
  <1> DEFINE E == Events(m)
             N == Cardinality(E)
             f == Places(E)
             places == {<<f[e], e>> : e \in E}
             L == [n \in 1..N |-> (CHOOSE x \in places : x[1] = n)[2]]
  <1>1. Timeline(m) = L
    <2>1. places = {<<1 + Cardinality({g \in E : Earlier(g, e)}), e>> : e \in E}
      BY DEF Places, Before
    <2> HIDE DEF places
    <2> QED BY <2>1 DEF Timeline
  <1>2. Ordered(E)
    BY EventsOrdered
  <1> SUFFICES /\ Len(L) \in Nat
               /\ \A n \in 1..Len(L) : L[n] \in E
               /\ \A e \in E : \E n \in 1..Len(L) : L[n] = e
               /\ \A p, q \in 1..Len(L) : p < q <=> Earlier(L[p], L[q])
    BY <1>1
  <1> HIDE DEF E
  <1>3. N \in Nat /\ (\A e \in E : f[e] \in 1..N) /\ \A n \in 1..N : \E e \in E : f[e] = n
    BY <1>2, PlacesFill
  <1>4. \A d, e \in E : Earlier(d, e) => f[d] < f[e]
    BY <1>2, PlacesRise
  <1> HIDE DEF f
  <1>5. ASSUME NEW n \in 1..N PROVE L[n] \in E /\ f[L[n]] = n
    <2> DEFINE x == CHOOSE x \in places : x[1] = n
    <2>1. \E y \in places : y[1] = n
      <3>1. PICK e \in E : f[e] = n
        BY <1>3
      <3>2. <<f[e], e>> \in places
        OBVIOUS
      <3> QED BY <3>1, <3>2
    <2>2. x \in places /\ x[1] = n
      BY <2>1
    <2>3. L[n] = x[2]
      OBVIOUS
    <2> HIDE DEF x
    <2>4. PICK e \in E : x = <<f[e], e>>
      BY <2>2
    <2> QED BY <2>2, <2>3, <2>4
  <1>6. Len(L) = N
    <2> HIDE DEF N
    <2> QED BY <1>3, <1>5
  <1>7. ASSUME NEW d \in E, NEW e \in E, f[d] = f[e] PROVE d = e
    <2> SUFFICES ASSUME d # e PROVE FALSE
      OBVIOUS
    <2>1. Earlier(d, e) \/ Earlier(e, d)
      BY <1>2 DEF Ordered
    <2>2. f[d] < f[e] \/ f[e] < f[d]
      BY <1>4, <2>1
    <2> QED BY <1>3, <1>7, <2>2
  <1> HIDE DEF L, N
  <1>8. ASSUME NEW e \in E PROVE \E n \in 1..N : L[n] = e
    <2>1. f[e] \in 1..N
      BY <1>3
    <2>2. L[f[e]] \in E /\ f[L[f[e]]] = f[e]
      BY <1>5, <2>1
    <2>3. L[f[e]] = e
      BY <1>7, <2>2
    <2> QED BY <2>1, <2>3
  <1>9. ASSUME NEW p \in 1..N, NEW q \in 1..N PROVE p < q <=> Earlier(L[p], L[q])
    <2>1. L[p] \in E /\ L[q] \in E /\ f[L[p]] = p /\ f[L[q]] = q
      BY <1>5
    <2>2. Earlier(L[p], L[q]) => p < q
      BY <1>4, <2>1
    <2>3. ASSUME p < q PROVE Earlier(L[p], L[q])
      <3>1. L[p] # L[q]
        BY <1>3, <2>1, <2>3
      <3>2. ~ Earlier(L[q], L[p])
        <4>1. Earlier(L[q], L[p]) => q < p
          BY <1>4, <2>1
        <4> QED BY <1>3, <2>3, <4>1
      <3> QED BY <1>2, <2>1, <3>1, <3>2 DEF Ordered
    <2> QED BY <2>2, <2>3
  <1> QED BY <1>3, <1>5, <1>6, <1>8, <1>9

(***************************************************************************)
(* The walk of build_episodes along the events                             *)
(***************************************************************************)

\* Nothing between the places p and q ends an episode.
Goes(L, p, q) == \A k \in (p + 1)..(q - 1) : L[k].label \notin {"MARK", "CLOSE"}

BeginsAt(L, e, p) == L[p].label = "OPEN" /\ L[p].t = e.open_t

\* A clean episode ends with the first close behind the opening it begins with.
Clean(L, e, n) ==
  \E p, q \in 1..n : p < q /\ BeginsAt(L, e, p) /\ L[q].label = "CLOSE" /\ L[q].t = e.close_t /\ Goes(L, p, q)

\* An episode that is open began with an opening, and nothing has ended it since.
Standing(L, e, n) == \E p \in 1..n : BeginsAt(L, e, p) /\ Goes(L, p, n + 1)

\* Every opening before the place p was ended before it.
Fresh(L, p) == \A k \in 1..(p - 1) : L[k].label = "OPEN" => \E j \in (k + 1)..(p - 1) : L[j].label \in {"MARK", "CLOSE"}

\* The episode began with the opening at p, when none was open.
Begun(m, L, e, p) ==
  /\ BeginsAt(L, e, p) /\ Fresh(L, p)
  /\ e.open_net = log[m][L[p].i].net /\ e.open_c2 = log[m][L[p].i].px.c2

\* It ended at q, with a marker or a close.
Ends(L, e, q) ==
  /\ L[q].t = e.close_t
  /\ \/ L[q].label = "MARK" /\ e.censored = "restart"
     \/ L[q].label = "CLOSE" /\ e.censored = "none"

Spans(m, L, e, n) == e.market = m /\ \E p, q \in 1..n : p < q /\ Begun(m, L, e, p) /\ Goes(L, p, q) /\ Ends(L, e, q)

Ongoing == [open_t : Nat, open_net : Int, open_c2 : Nat, dir : Dirs, peak : Int]

\* What is open began with an opening, and nothing has ended it since; what is done began and ended.
WalkSound(m, L, acc, n) ==
  /\ acc.open = None => Fresh(L, n + 1)
  /\ acc.open # None => acc.open \in Ongoing /\ \E p \in 1..n : Begun(m, L, acc.open, p) /\ Goes(L, p, n + 1)
  /\ IsFiniteSet(acc.done) /\ \A e \in acc.done : Spans(m, L, e, n)

WalkStep(m, f, n) == IF n = 0 THEN [open |-> None, done |-> {}] ELSE Step(m, f[n - 1], Timeline(m)[n])

Walks(m, f, N) == f = [n \in 0..N |-> WalkStep(m, f, n)]

LEMMA WalksExist == ASSUME NEW m, NEW N \in Nat PROVE \E f : Walks(m, f, N)
  <1> DEFINE G == {n \in 0..N : \E f : Walks(m, f, n)}
  <1>1. 0 \in G
    <2> DEFINE f == [n \in 0..0 |-> [open |-> None, done |-> {}]]
    <2>1. \A n \in 0..0 : WalkStep(m, f, n) = [open |-> None, done |-> {}]
      BY DEF WalkStep
    <2>2. f = [n \in 0..0 |-> WalkStep(m, f, n)]
      BY <2>1
    <2>3. Walks(m, f, 0)
      BY <2>2 DEF Walks
    <2> QED BY <2>3
  <1>2. ASSUME NEW n \in 0..(N - 1), n \in G PROVE n + 1 \in G
    <2>1. PICK f : Walks(m, f, n)
      BY <1>2
    <2> DEFINE h == [k \in 0..(n + 1) |-> WalkStep(m, f, k)]
    <2>2. \A k \in 0..n : h[k] = f[k]
      BY <2>1 DEF Walks
    <2>3. ASSUME NEW k \in 0..(n + 1) PROVE WalkStep(m, h, k) = WalkStep(m, f, k)
      <3>1. k = 0 \/ k - 1 \in 0..n
        OBVIOUS
      <3> HIDE DEF h
      <3> QED BY <2>2, <3>1 DEF WalkStep
    <2>4. h = [k \in 0..(n + 1) |-> WalkStep(m, h, k)]
      BY <2>3
    <2>5. Walks(m, h, n + 1)
      BY <2>4 DEF Walks
    <2>6. n + 1 \in 0..N
      OBVIOUS
    <2> QED BY <2>5, <2>6
  <1>3. N \in G
    <2>1. N \in 0..N
      OBVIOUS
    <2> HIDE DEF G
    <2>2. \A n \in 0..N : n \in G
      BY ONLY N \in Nat, <1>1, <1>2, Climb
    <2> QED BY <2>1, <2>2
  <1> QED BY <1>3

\* What was done stays so further on.
LEMMA SpansStay == ASSUME NEW m, NEW L, NEW e, NEW n \in Nat, Spans(m, L, e, n) PROVE Spans(m, L, e, n + 1)
  <1>1. PICK p \in 1..n, q \in 1..n : p < q /\ Begun(m, L, e, p) /\ Goes(L, p, q) /\ Ends(L, e, q)
    BY DEF Spans
  <1>2. p \in 1..(n + 1) /\ q \in 1..(n + 1)
    OBVIOUS
  <1> QED BY <1>1, <1>2 DEF Spans

\* An event of the timeline that is not a marker is a record of the log.
LEMMA OpeningIs ==
  ASSUME EpisodesTypeOK, NEW m \in Markets, NEW e \in Events(m)
  PROVE  e.label # "MARK" => /\ e.i \in 1..Len(log[m]) /\ log[m][e.i].t = e.t /\ log[m][e.i].label = e.label
                             /\ e.order = 1 /\ log[m][e.i] \in Record /\ e = Event(e.t, 1, e.label, e.i)
  <1>1. CASE IsMark(m, e)
    BY <1>1 DEF IsMark, Event
  <1>2. CASE IsRecord(m, e)
    <2>1. PICK i \in 1..Len(log[m]) : e = Event(log[m][i].t, 1, log[m][i].label, i)
      BY <1>2 DEF IsRecord
    <2>2. e.i = i /\ e.t = log[m][i].t /\ e.label = log[m][i].label /\ e.order = 1
      BY <2>1 DEF Event
    <2>3. log[m] \in Seq(Record)
      BY DEF EpisodesTypeOK
    <2>4. log[m][i] \in Record
      BY <2>3, SeenTyped
    <2> QED BY <2>1, <2>2, <2>4
  <1> QED BY <1>1, <1>2, EventsAre

\* A record of the log, as the walk takes it, opens an episode or goes on with one.
LEMMA OngoingTyped ==
  ASSUME NEW r \in Record
  PROVE  /\ OpenedBy(r) \in Ongoing /\ OpenedBy(r).open_t = r.t /\ OpenedBy(r).open_net = r.net /\ OpenedBy(r).open_c2 = r.px.c2
         /\ \A o \in Ongoing : /\ Continued(o, r) \in Ongoing /\ Continued(o, r).open_t = o.open_t
                               /\ Continued(o, r).open_net = o.open_net /\ Continued(o, r).open_c2 = o.open_c2
  <1>1. r.t \in Nat /\ r.net \in Int /\ r.dir \in Dirs /\ r.px \in Books /\ r.px.c2 \in Nat
    BY EpisodesAssumption DEF Record
  <1> QED BY <1>1 DEF OpenedBy, Continued, Ongoing

\* One event.
LEMMA WalkGoes ==
  ASSUME NEW m, NEW L, NEW n \in Nat, NEW acc, NEW new, WalkSound(m, L, acc, n), new = Step(m, acc, L[n + 1]),
         L[n + 1].label # "MARK" => log[m][L[n + 1].i].t = L[n + 1].t /\ log[m][L[n + 1].i] \in Record
  PROVE  WalkSound(m, L, new, n + 1)
  <1> DEFINE e == L[n + 1]
  <1>1. IsFiniteSet(acc.done) /\ \A d \in acc.done : Spans(m, L, d, n + 1)
    BY SpansStay DEF WalkSound
  <1>2. n + 1 \in 1..(n + 1) /\ None \notin Ongoing
    BY PersistenceAssumption DEF Ongoing
  <1>3. \A p \in 1..n : Goes(L, p, n + 1) /\ e.label \notin {"MARK", "CLOSE"} => Goes(L, p, (n + 1) + 1)
    <2> SUFFICES ASSUME NEW p \in 1..n, Goes(L, p, n + 1), e.label \notin {"MARK", "CLOSE"},
                        NEW k \in (p + 1)..(((n + 1) + 1) - 1)
                 PROVE  L[k].label \notin {"MARK", "CLOSE"}
      BY DEF Goes
    <2>1. k = n + 1 \/ k \in (p + 1)..((n + 1) - 1)
      OBVIOUS
    <2> QED BY <2>1 DEF Goes
  <1>4. CASE e.label = "OPEN" /\ acc.open = None
    <2> DEFINE o == OpenedBy(log[m][e.i])
    <2>1. new = [open |-> o, done |-> acc.done]
      BY <1>4 DEF Step
    <2>2. o \in Ongoing /\ o.open_t = e.t /\ o.open_net = log[m][e.i].net /\ o.open_c2 = log[m][e.i].px.c2
      BY <1>4, OngoingTyped
    <2>3. Goes(L, n + 1, (n + 1) + 1) /\ Fresh(L, n + 1)
      BY <1>4 DEF Goes, WalkSound
    <2> HIDE DEF o
    <2>4. Begun(m, L, o, n + 1)
      BY <1>4, <2>2, <2>3 DEF Begun, BeginsAt
    <2> QED BY <1>1, <1>2, <2>1, <2>2, <2>3, <2>4 DEF WalkSound
  <1>5. ASSUME acc.open # None
        PROVE  /\ acc.open \in Ongoing
               /\ \E p \in 1..n : Begun(m, L, acc.open, p) /\ Goes(L, p, n + 1)
    BY <1>5 DEF WalkSound
  <1>6. CASE acc.open # None /\ e.label = "OPEN"
    <2>1. new = acc
      BY <1>6 DEF Step
    <2>2. PICK p \in 1..n : Begun(m, L, acc.open, p) /\ Goes(L, p, n + 1)
      BY <1>5, <1>6
    <2>3. p \in 1..(n + 1) /\ Goes(L, p, (n + 1) + 1)
      BY <1>3, <1>6, <2>2
    <2> QED BY <1>1, <1>5, <1>6, <2>1, <2>2, <2>3 DEF WalkSound
  <1>7. CASE acc.open = None /\ e.label # "OPEN"
    <2>1. new = acc
      BY <1>7 DEF Step
    <2>2. Fresh(L, (n + 1) + 1)
      <3> SUFFICES ASSUME NEW k \in 1..(((n + 1) + 1) - 1), L[k].label = "OPEN"
                   PROVE  \E j \in (k + 1)..(((n + 1) + 1) - 1) : L[j].label \in {"MARK", "CLOSE"}
        BY DEF Fresh
      <3>1. k \in 1..((n + 1) - 1)
        BY <1>7
      <3>2. Fresh(L, n + 1)
        BY <1>7 DEF WalkSound
      <3>3. PICK j \in (k + 1)..((n + 1) - 1) : L[j].label \in {"MARK", "CLOSE"}
        BY <3>1, <3>2 DEF Fresh
      <3> QED BY <3>3
    <2> QED BY <1>1, <1>7, <2>1, <2>2 DEF WalkSound
  <1>8. ASSUME acc.open # None, NEW why, \/ e.label = "MARK" /\ why = "restart"
                                         \/ e.label = "CLOSE" /\ why = "none",
               new = Closing(m, acc, e.t, why)
        PROVE  WalkSound(m, L, new, n + 1)
    <2> DEFINE d == Closed(m, acc.open, e.t, why)
    <2>1. new = [open |-> None, done |-> acc.done \cup {d}]
      BY <1>8 DEF Closing
    <2>2. /\ d.censored = why /\ d.open_t = acc.open.open_t /\ d.close_t = e.t /\ d.market = m
          /\ d.open_net = acc.open.open_net /\ d.open_c2 = acc.open.open_c2
      BY DEF Closed
    <2> HIDE DEF d
    <2>3. PICK p \in 1..n : Begun(m, L, acc.open, p) /\ Goes(L, p, n + 1)
      BY <1>5, <1>8
    <2>4. Begun(m, L, d, p) /\ p \in 1..(n + 1) /\ p < n + 1
      BY <2>2, <2>3 DEF Begun, BeginsAt
    <2>5. Ends(L, d, n + 1)
      BY <1>8, <2>2 DEF Ends
    <2>6. Spans(m, L, d, n + 1)
      BY <1>2, <2>2, <2>3, <2>4, <2>5 DEF Spans
    <2>7. Fresh(L, (n + 1) + 1)
      <3> SUFFICES ASSUME NEW k \in 1..(((n + 1) + 1) - 1), L[k].label = "OPEN"
                   PROVE  \E j \in (k + 1)..(((n + 1) + 1) - 1) : L[j].label \in {"MARK", "CLOSE"}
        BY DEF Fresh
      <3>1. L[n + 1].label \in {"MARK", "CLOSE"} /\ n + 1 \in 1..(n + 1)
        BY <1>8
      <3>2. n + 1 \in (k + 1)..(((n + 1) + 1) - 1)
        BY <3>1
      <3> QED BY <3>1, <3>2
    <2>8. IsFiniteSet(acc.done \cup {d})
      BY <1>1, FS_AddElement
    <2> QED BY <1>1, <2>1, <2>6, <2>7, <2>8 DEF WalkSound
  <1>9. CASE acc.open # None /\ e.label \notin {"OPEN", "MARK", "CLOSE"}
    <2> DEFINE o == Continued(acc.open, log[m][e.i])
    <2>1. new = [open |-> o, done |-> acc.done]
      BY <1>9 DEF Step
    <2>2. o \in Ongoing /\ o.open_t = acc.open.open_t /\ o.open_net = acc.open.open_net /\ o.open_c2 = acc.open.open_c2
      BY <1>5, <1>9, OngoingTyped
    <2> HIDE DEF o
    <2>3. PICK p \in 1..n : Begun(m, L, acc.open, p) /\ Goes(L, p, n + 1)
      BY <1>5, <1>9
    <2>4. Begun(m, L, o, p) /\ p \in 1..(n + 1) /\ Goes(L, p, (n + 1) + 1)
      BY <1>3, <1>9, <2>2, <2>3 DEF Begun, BeginsAt
    <2> QED BY <1>1, <1>2, <2>1, <2>2, <2>4 DEF WalkSound
  <1>10. acc.open # None /\ e.label = "MARK" => new = Closing(m, acc, e.t, "restart")
    BY DEF Step
  <1>11. acc.open # None /\ e.label = "CLOSE" => new = Closing(m, acc, e.t, "none")
    BY DEF Step
  <1>12. acc.open # None /\ e.label \in {"MARK", "CLOSE"} => WalkSound(m, L, new, n + 1)
    BY <1>8, <1>10, <1>11
  <1> QED BY <1>4, <1>6, <1>7, <1>9, <1>12

\* An episode takes the events from the place p to the place q: up to a marker or a close, or to the end of the data.
Span(m, e, p, q) ==
  LET L == Timeline(m)
      N == Len(L)
  IN  /\ p \in 1..N /\ q \in 1..(N + 1) /\ p < q /\ e.market = m /\ Begun(m, L, e, p) /\ Goes(L, p, q)
      /\ IF q = N + 1 THEN e.censored = "eod" /\ e.close_t = LastT ELSE Ends(L, e, q)

\* The episodes of a market are finitely many, and each takes its events.
LEMMA EpisodesSpan ==
  ASSUME EpisodesTypeOK, NEW m \in Markets
  PROVE  IsFiniteSet(EpisodesOf(m)) /\ \A e \in EpisodesOf(m) : \E p, q : Span(m, e, p, q)
  <1> DEFINE L == Timeline(m)
             N == Len(L)
             f == CHOOSE g : Walks(m, g, N)
             acc == f[N]
  <1>1. N \in Nat
    BY TimelineOrders
  <1>2. EpisodesOf(m) = IF acc.open = None THEN acc.done ELSE Closing(m, acc, LastT, "eod").done
    BY DEF EpisodesOf, Walks, WalkStep
  <1>3. Walks(m, f, N)
    <2>1. \E g : Walks(m, g, N)
      BY <1>1, WalksExist
    <2> QED BY <2>1
  <1> HIDE DEF f
  <1>4. \A n \in 0..N : f[n] = WalkStep(m, f, n)
    BY <1>3 DEF Walks
  <1> DEFINE G == {n \in 0..N : WalkSound(m, L, f[n], n)}
  <1>5. 0 \in G
    <2>1. f[0] = WalkStep(m, f, 0)
      BY <1>1, <1>4
    <2>2. WalkStep(m, f, 0) = [open |-> None, done |-> {}]
      BY DEF WalkStep
    <2>3. Fresh(L, 0 + 1)
      BY DEF Fresh
    <2> QED BY <1>1, <2>1, <2>2, <2>3, FS_EmptySet DEF WalkSound
  <1>6. ASSUME NEW n \in 0..(N - 1), n \in G PROVE n + 1 \in G
    <2>1. n \in Nat /\ n + 1 \in 0..N /\ n + 1 # 0 /\ (n + 1) - 1 = n /\ n + 1 \in 1..N
      BY <1>1
    <2>2. f[n + 1] = Step(m, f[n], L[n + 1])
      BY <1>4, <2>1 DEF WalkStep
    <2>3. L[n + 1] \in Events(m)
      BY <2>1, TimelineOrders
    <2>4. L[n + 1].label # "MARK" => log[m][L[n + 1].i].t = L[n + 1].t /\ log[m][L[n + 1].i] \in Record
      <3> DEFINE x == L[n + 1]
      <3>1. x \in Events(m)
        BY <2>3
      <3> HIDE DEF x
      <3>2. x.label # "MARK" => log[m][x.i].t = x.t /\ log[m][x.i] \in Record
        BY <3>1, OpeningIs
      <3> QED BY <3>2 DEF x
    <2>5. WalkSound(m, L, f[n], n)
      BY <1>6
    <2> HIDE DEF L, N
    <2>6. WalkSound(m, L, f[n + 1], n + 1)
      BY <2>1, <2>2, <2>4, <2>5, WalkGoes
    <2> QED BY <2>1, <2>6
  <1>7. WalkSound(m, L, acc, N)
    <2>1. N \in 0..N
      BY <1>1
    <2>2. \A n \in 0..(N - 1) : n \in G => n + 1 \in G
      BY <1>6
    <2> HIDE DEF G, N
    <2>3. \A n \in 0..N : n \in G
      BY ONLY <1>1, <1>5, <2>2, Climb
    <2> QED BY <2>1, <2>3 DEF G
  <1> DEFINE d == Closed(m, acc.open, LastT, "eod")
  <1>8. EpisodesOf(m) = IF acc.open = None THEN acc.done ELSE acc.done \cup {d}
    BY <1>2 DEF Closing
  <1>9. /\ d.censored = "eod" /\ d.open_t = acc.open.open_t /\ d.close_t = LastT /\ d.market = m
        /\ d.open_net = acc.open.open_net /\ d.open_c2 = acc.open.open_c2
    BY DEF Closed
  <1> HIDE DEF acc, d, L, N
  <1>10. IsFiniteSet(EpisodesOf(m))
    <2>1. IsFiniteSet(acc.done)
      BY <1>7 DEF WalkSound
    <2> QED BY <1>8, <2>1, FS_AddElement
  <1>11. ASSUME NEW e \in acc.done PROVE \E p, q : Span(m, e, p, q)
    <2>1. PICK p \in 1..N, q \in 1..N : e.market = m /\ p < q /\ Begun(m, L, e, p) /\ Goes(L, p, q) /\ Ends(L, e, q)
      BY <1>7 DEF WalkSound, Spans
    <2>2. q \in 1..(N + 1) /\ q # N + 1
      BY <1>1
    <2>3. Span(m, e, p, q)
      BY <2>1, <2>2 DEF Span, L, N
    <2> QED BY <2>3
  <1>12. ASSUME acc.open # None PROVE \E p, q : Span(m, d, p, q)
    <2>1. PICK p \in 1..N : Begun(m, L, acc.open, p) /\ Goes(L, p, N + 1)
      BY <1>7, <1>12 DEF WalkSound
    <2>2. Begun(m, L, d, p)
      BY <1>9, <2>1 DEF Begun, BeginsAt
    <2>3. N + 1 \in 1..(N + 1) /\ p < N + 1
      BY <1>1
    <2>4. Span(m, d, p, N + 1)
      BY <1>9, <2>1, <2>2, <2>3 DEF Span, L, N
    <2> QED BY <2>4
  <1>13. \A e \in EpisodesOf(m) : e \in acc.done \/ (e = d /\ acc.open # None)
    BY <1>8
  <1> QED BY <1>10, <1>11, <1>12, <1>13

\* What the episodes of a market are.
LEMMA EpisodesAre ==
  ASSUME EpisodesTypeOK, NEW m \in Markets, NEW e \in EpisodesOf(m)
  PROVE  \/ e.censored = "restart"
         \/ e.censored = "none" /\ Clean(Timeline(m), e, Len(Timeline(m)))
         \/ e.censored = "eod" /\ Standing(Timeline(m), e, Len(Timeline(m)))
  <1> DEFINE L == Timeline(m)
             N == Len(L)
  <1>1. PICK p, q : Span(m, e, p, q)
    BY EpisodesSpan
  <1>2. /\ p \in 1..N /\ q \in 1..(N + 1) /\ p < q /\ BeginsAt(L, e, p) /\ Goes(L, p, q) /\ N \in Nat
        /\ IF q = N + 1 THEN e.censored = "eod" ELSE Ends(L, e, q)
    BY <1>1, TimelineOrders DEF Span, Begun
  <1> HIDE DEF L, N
  <1>3. CASE q = N + 1
    BY <1>2, <1>3 DEF Standing, L, N
  <1>4. CASE q # N + 1
    <2>1. q \in 1..N /\ Ends(L, e, q)
      BY <1>2, <1>4
    <2>2. CASE e.censored = "restart"
      BY <2>2
    <2>3. CASE L[q].label = "CLOSE" /\ e.censored = "none"
      BY <1>2, <2>1, <2>3 DEF Ends, Clean, L, N
    <2> QED BY <2>1, <2>2, <2>3 DEF Ends
  <1> QED BY <1>3, <1>4

\* A close or a marker between the ends of a clean episode would have ended it, and one behind the opening of an episode
\* that stands would have ended that.
LEMMA NothingBetween ==
  ASSUME EpisodesTypeOK, NEW m \in Markets, NEW c \in Events(m), c.label \in {"MARK", "CLOSE"}, NEW p, NEW q,
         p \in 1..Len(Timeline(m)), Earlier(Timeline(m)[p], c), Goes(Timeline(m), p, q), q \in Int,
         \/ q = Len(Timeline(m)) + 1
         \/ q \in 1..Len(Timeline(m)) /\ Earlier(c, Timeline(m)[q])
  PROVE  FALSE
  <1> DEFINE L == Timeline(m)
             N == Len(L)
  <1>1. /\ N \in Nat /\ p \in 1..N /\ Earlier(L[p], c) /\ Goes(L, p, q)
        /\ \A i, j \in 1..N : i < j <=> Earlier(L[i], L[j])
        /\ q = N + 1 \/ (q \in 1..N /\ Earlier(c, L[q]))
    BY TimelineOrders
  <1>2. PICK k \in 1..N : L[k] = c
    BY TimelineOrders
  <1> HIDE DEF L, N
  <1>3. p < k /\ k < q
    BY <1>1, <1>2
  <1>4. k \in (p + 1)..(q - 1)
    BY <1>1, <1>3
  <1> QED BY <1>1, <1>2, <1>4 DEF Goes

\* A record in the log that was seen.
LEMMA EndWasSeen ==
  ASSUME EpisodesTypeOK, SeenInv, NEW m \in Markets, NEW e \in Events(m), NEW label \in {"OPEN", "CLOSE"}, e.label = label
  PROVE  Saw(seen[m], e.t, label) /\ SeenAt(m, e.t, label) /\ e.t \in Nat /\ e.order = 1
  <1>1. e.i \in 1..Len(log[m]) /\ log[m][e.i].t = e.t /\ log[m][e.i].label = label /\ e.order = 1
    BY OpeningIs
  <1>2. Saw(seen[m], e.t, label)
    BY <1>1 DEF SeenInv, Seeing, WasSeen
  <1>3. DOMAIN seen[m] = 1..Len(seen[m])
    BY DEF EpisodesTypeOK
  <1>4. e.t \in Nat
    BY <1>1, EventsAre
  <1> QED BY <1>1, <1>2, <1>3, <1>4 DEF Saw, SeenAt

\* An edge opened and died at different times.
LEMMA SeenApart ==
  ASSUME NEW s, NEW n, InTurn(s, n), Len(s) \in Nat, NEW i \in 1..Len(s), NEW j \in 1..Len(s), s[i].t = s[j].t,
         \A k \in 1..Len(s) : s[k].t \in Nat
  PROVE  s[i].label = s[j].label
  <1>1. i = j
    <2>1. ~ (i < j) /\ ~ (j < i)
      BY DEF InTurn
    <2> QED BY <2>1
  <1> QED BY <1>1

\* The gaps within a clean episode are short.
LEMMA CleanHolds ==
  ASSUME EpisodesTypeOK, SeenInv, NEW m \in Markets, NEW e, Clean(Timeline(m), e, Len(Timeline(m)))
  PROVE  CleanIsTrue(m, e) /\ \A i \in DOMAIN markers : ~ (e.open_t < markers[i] /\ markers[i] < e.close_t)
  <1> DEFINE L == Timeline(m)
             N == Len(L)
             s == seen[m]
  <1>1. PICK p \in 1..N, q \in 1..N :
          p < q /\ BeginsAt(L, e, p) /\ L[q].label = "CLOSE" /\ L[q].t = e.close_t /\ Goes(L, p, q)
    BY DEF Clean
  <1> DEFINE o == L[p]
             d == L[q]
  <1>2. o \in Events(m) /\ d \in Events(m) /\ o.label = "OPEN" /\ o.t = e.open_t /\ d.label = "CLOSE" /\ d.t = e.close_t
    BY <1>1, TimelineOrders DEF BeginsAt
  <1>3. \A c \in Events(m) : c.label \in {"MARK", "CLOSE"} => ~ (Earlier(o, c) /\ Earlier(c, d))
    <2> SUFFICES ASSUME NEW c \in Events(m), c.label \in {"MARK", "CLOSE"}, Earlier(o, c), Earlier(c, d) PROVE FALSE
      OBVIOUS
    <2>1. N \in Nat
      BY TimelineOrders
    <2>2. q \in Int /\ Goes(L, p, q)
      BY <1>1, <2>1
    <2> QED BY <2>1, <2>2, NothingBetween
  <1> HIDE DEF o, d
  <1>4. /\ Saw(s, o.t, "OPEN") /\ SeenAt(m, o.t, "OPEN") /\ o.t \in Nat /\ o.order = 1
        /\ SeenAt(m, d.t, "CLOSE") /\ d.t \in Nat /\ d.order = 1
    BY <1>2, EndWasSeen
  <1>5. /\ s \in Seq(Record) /\ log[m] \in Seq(Record) /\ markers \in Seq(Nat) /\ Window \in Nat /\ FlushLag \in Nat
        /\ InTurn(s, now) /\ GapsShown(log[m], s, markers)
    BY EpisodesAssumption DEF EpisodesTypeOK, SeenInv, Seeing
  <1>6. ASSUME NEW i \in 1..Len(markers), o.t < markers[i], markers[i] <= d.t PROVE FALSE
    <2> DEFINE c == Event(markers[i], 0, "MARK", i)
    <2>1. c \in Events(m) /\ markers[i] \in Nat
      BY EventsAre
    <2>2. c.label = "MARK" /\ c.t = markers[i] /\ c.order = 0
      BY DEF Event
    <2> HIDE DEF c
    <2>3. Earlier(o, c) /\ Earlier(c, d)
      BY <1>4, <1>6, <2>1, <2>2 DEF Earlier
    <2> QED BY <1>3, <2>1, <2>2, <2>3
  <1>7. ASSUME NEW i \in 1..(Len(s) - 1), o.t <= s[i].t, s[i + 1].t <= d.t, s[i].label = "CLOSE", s[i + 1].label = "OPEN",
               s[i + 1].t - s[i].t > Window + FlushLag
        PROVE  FALSE
    <2> DEFINE a == s[i].t
               b == s[i + 1].t
    <2>1. i \in 1..Len(s) /\ i + 1 \in 1..Len(s) /\ Len(s) \in Nat
      BY <1>5
    <2>2. a \in Nat /\ b \in Nat /\ \A k \in 1..Len(s) : s[k].t \in Nat
      BY <1>5, <2>1, SeenTyped
    <2>3. o.t < a
      <3>1. o.t # a
        <4>1. PICK j \in 1..Len(s) : s[j].t = o.t /\ s[j].label = "OPEN"
          BY <1>4 DEF Saw
        <4> SUFFICES ASSUME s[j].t = s[i].t PROVE FALSE
          BY <4>1
        <4>2. s[j].label = s[i].label
          BY <1>5, <2>1, <2>2, SeenApart
        <4> QED BY <1>7, <4>1, <4>2
      <3> QED BY <1>4, <1>7, <2>2, <3>1
    <2>4. Shown(log[m], markers, a, b) /\ b - a > Window + FlushLag /\ b <= d.t
      BY <1>5, <1>7 DEF GapsShown
    <2> HIDE DEF a, b
    <2>5. a < b
      BY <1>5, <2>2, <2>4
    <2>6. CASE \E j \in 1..Len(log[m]) : log[m][j].t = a /\ log[m][j].label = "CLOSE"
      <3>1. PICK j \in 1..Len(log[m]) : log[m][j].t = a /\ log[m][j].label = "CLOSE"
        BY <2>6
      <3> DEFINE c == Event(log[m][j].t, 1, log[m][j].label, j)
      <3>2. c \in Events(m) /\ c.t = a /\ c.label = "CLOSE"
        BY <3>1, EventsAre DEF Event
      <3> HIDE DEF c
      <3>3. o.t < c.t /\ c.t < d.t
        BY <1>4, <2>2, <2>3, <2>4, <2>5, <3>2
      <3> QED BY <1>3, <3>2, <3>3 DEF Earlier
    <2>7. CASE \E j \in 1..Len(markers) : a < markers[j] /\ markers[j] <= b
      <3>1. PICK j \in 1..Len(markers) : a < markers[j] /\ markers[j] <= b
        BY <2>7
      <3>2. markers[j] \in Nat
        BY <1>5
      <3>3. o.t < markers[j] /\ markers[j] <= d.t
        BY <1>4, <2>2, <2>3, <2>4, <3>1, <3>2
      <3> QED BY <1>6, <3>3
    <2> QED BY <2>4, <2>6, <2>7 DEF Shown
  <1>8. \A i \in 1..Len(s) : s[i].t \in Nat
    BY <1>5, SeenTyped
  <1>9. \A i \in 1..(Len(s) - 1) :
          o.t <= s[i].t /\ s[i + 1].t <= d.t /\ s[i].label = "CLOSE" /\ s[i + 1].label = "OPEN" => s[i + 1].t - s[i].t <= Window + FlushLag
    <2> SUFFICES ASSUME NEW i \in 1..(Len(s) - 1), o.t <= s[i].t, s[i + 1].t <= d.t, s[i].label = "CLOSE", s[i + 1].label = "OPEN"
                 PROVE  s[i + 1].t - s[i].t <= Window + FlushLag
      OBVIOUS
    <2>1. i \in 1..Len(s) /\ i + 1 \in 1..Len(s)
      BY <1>5
    <2>2. s[i].t \in Nat /\ s[i + 1].t \in Nat
      BY <1>8, <2>1
    <2> DEFINE x == s[i + 1].t - s[i].t
    <2>3. ~ (x > Window + FlushLag) /\ x \in Int
      BY <1>7, <2>2
    <2> HIDE DEF x
    <2>4. x <= Window + FlushLag
      BY <1>5, <2>3
    <2> QED BY <2>4 DEF x
  <1>10. ASSUME NEW i \in DOMAIN markers, e.open_t < markers[i], markers[i] < e.close_t PROVE FALSE
    <2>1. i \in 1..Len(markers) /\ markers[i] \in Nat
      BY <1>5
    <2>2. o.t < markers[i] /\ markers[i] <= d.t
      BY <1>2, <1>4, <1>10, <2>1
    <2> QED BY <1>6, <2>1, <2>2
  <1>11. CleanIsTrue(m, e)
    BY <1>2, <1>4, <1>9 DEF CleanIsTrue
  <1> QED BY <1>10, <1>11

\* Every episode is true.
LEMMA EveryEpisodeIsTrue == ASSUME EpisodesTypeOK, SeenInv PROVE EpisodesAreTrue
  <1> SUFFICES ASSUME NEW m \in Markets, NEW e \in EpisodesOf(m) PROVE CleanIsTrue(m, e) /\ MarkedIsCensored(e)
    BY DEF EpisodesAreTrue
  <1>1. CASE e.censored = "restart"
    BY <1>1 DEF CleanIsTrue, MarkedIsCensored
  <1>2. CASE e.censored = "none" /\ Clean(Timeline(m), e, Len(Timeline(m)))
    BY <1>2, CleanHolds DEF MarkedIsCensored
  <1>3. CASE e.censored = "eod" /\ Standing(Timeline(m), e, Len(Timeline(m)))
    <2> DEFINE L == Timeline(m)
               N == Len(L)
    <2>1. PICK p \in 1..N : BeginsAt(L, e, p) /\ Goes(L, p, N + 1)
      BY <1>3 DEF Standing
    <2>2. L[p] \in Events(m) /\ L[p].label = "OPEN" /\ L[p].t = e.open_t /\ N \in Nat
      BY <2>1, TimelineOrders DEF BeginsAt
    <2>3. e.open_t \in Nat
      BY <2>2, EndWasSeen
    <2>4. ASSUME NEW i \in DOMAIN markers, e.open_t < markers[i] PROVE FALSE
      <3> DEFINE c == Event(markers[i], 0, "MARK", i)
      <3>1. i \in 1..Len(markers)
        BY DEF EpisodesTypeOK
      <3>2. c \in Events(m) /\ c.label = "MARK" /\ c.t = markers[i]
        BY <3>1, EventsAre DEF Event
      <3> HIDE DEF c
      <3>3. Earlier(L[p], c)
        BY <2>2, <2>4, <3>2 DEF Earlier
      <3>4. N + 1 \in Int
        BY <2>2
      <3> QED BY <2>1, <3>2, <3>3, <3>4, NothingBetween
    <2> QED BY <1>3, <2>4 DEF CleanIsTrue, MarkedIsCensored
  <1> QED BY <1>1, <1>2, <1>3, EpisodesAre

\* A clean episode of the analysis is a period for which the trackers saw the edge, without a gap longer than the window and a
\* sleep of the flusher, however long that is, and no episode that began before a lost connection or a restart was marked
\* outlives the mark.  It takes a restart that is a second or longer, for markers carry whole seconds.  (build_episodes over
\* what FlipDebouncer and TransitionLogger leave on disk; mark_session)
THEOREM EpisodesAlwaysTrue == BootTicks >= TicksPerSecond => (Spec => []EpisodesAreTrue)
  <1> SUFFICES ASSUME BootTicks >= TicksPerSecond PROVE Spec => []EpisodesAreTrue
    OBVIOUS
  <1>1. OrderInv /\ SeenInv => EpisodesAreTrue
    BY EveryEpisodeIsTrue DEF OrderInv
  <1>2. Spec => []SeenInv
    BY SeenAlways
  <1> QED BY <1>1, <1>2, OrderAlways, PTL

(***************************************************************************)
(* What the trackers remember                                              *)
(***************************************************************************)

\* A record is made of the books it was seen with, which had an edge unless it is a close.
Faithful(r) == r = Entry(r.t, r.label, EdgeState(r.px), r.px) /\ (r.label # "CLOSE" => EdgeState(r.px).arb)

\* What is logged was seen, if perhaps as an opening what is logged as a flip.
Told1(d, e) == d.t = e.t /\ d.px = e.px /\ (d.label = e.label \/ (e.label = "OPEN" /\ d.label = "FLIP"))

Witnessed(q, s) == \A i \in 1..Len(q) : q[i].label # "CLOSE" => \E j \in 1..Len(s) : Told1(q[i], s[j])

\* What was seen to go on is logged.
Recorded(s, q) ==
  \A j \in 1..Len(s) : s[j].label \in Continuations =>
    \E i \in 1..Len(q) : q[i].t = s[j].t /\ q[i].px = s[j].px /\ q[i].label = s[j].label

\* A flip that is logged turned what was seen, or came behind a close.
Turned(q, s) ==
  \A i \in 1..Len(q) : q[i].label = "FLIP" =>
    \E j \in 1..(Len(s) - 1) : s[j + 1].t = q[i].t /\ (s[j].label = "CLOSE" \/ s[j].dir # s[j + 1].dir)

\* Between a and b the log shows a close, a flip or an opening, or a marker lies between.
Breaks == {"CLOSE", "FLIP", "OPEN"}

Broken(q, M, a, b) ==
  \/ \E k \in 1..Len(q) : q[k].label \in Breaks /\ a < q[k].t /\ q[k].t <= b
  \/ \E k \in 1..Len(M) : a < M[k] /\ M[k] <= b

\* Unless it is shown to be broken an edge keeps its direction.
Steady(s, q, M) ==
  \A i, j \in 1..Len(s) : i < j /\ s[i].label # "CLOSE" /\ s[j].label # "CLOSE" =>
    s[i].dir = s[j].dir \/ Broken(q, M, s[i].t, s[j].t)

KeptTrue(q, s, M) ==
  /\ \A i \in 1..Len(q) : Faithful(q[i])
  /\ \A i \in 1..Len(s) : Faithful(s[i])
  /\ Witnessed(q, s) /\ Recorded(s, q) /\ Turned(q, s) /\ Steady(s, q, M)

\* The record that follows what was seen in s is logged as d.
LogsIt(s, e, d) ==
  /\ d \in Record /\ Faithful(d) /\ d.label # "CLOSE" /\ Told1(d, e)
  /\ d.label = "FLIP" => Len(s) > 0 /\ (s[Len(s)].label = "CLOSE" \/ s[Len(s)].dir # e.dir)

\* What is shown to be broken stays so.
LEMMA BrokenStays ==
  ASSUME NEW q, NEW r, NEW M \in Seq(Nat), NEW N \in Seq(Nat), Grown(q, r), Grown(M, N),
         NEW a \in Nat, NEW b \in Nat, NEW c \in Nat, b <= c, Broken(q, M, a, b), \A k \in 1..Len(q) : q[k].t \in Nat
  PROVE  Broken(r, N, a, c)
  <1>1. CASE \E k \in 1..Len(q) : q[k].label \in Breaks /\ a < q[k].t /\ q[k].t <= b
    <2>1. PICK k \in 1..Len(q) : q[k].label \in Breaks /\ a < q[k].t /\ q[k].t <= b
      BY <1>1
    <2>2. k \in 1..Len(r) /\ r[k] = q[k] /\ q[k].t \in Nat
      BY DEF Grown
    <2>3. r[k].t <= c
      BY <2>1, <2>2
    <2> QED BY <2>1, <2>2, <2>3 DEF Broken
  <1>2. CASE \E k \in 1..Len(M) : a < M[k] /\ M[k] <= b
    <2>1. PICK k \in 1..Len(M) : a < M[k] /\ M[k] <= b
      BY <1>2
    <2>2. k \in 1..Len(N) /\ N[k] = M[k] /\ M[k] \in Nat
      BY DEF Grown
    <2>3. N[k] <= c
      BY <2>1, <2>2
    <2> QED BY <2>1, <2>2, <2>3 DEF Broken
  <1> QED BY <1>1, <1>2 DEF Broken

\* A log that goes on shows as much.
LEMMA SteadyStays ==
  ASSUME NEW q \in Seq(Record), NEW r, NEW M \in Seq(Nat), NEW N \in Seq(Nat), Grown(q, r), Grown(M, N),
         NEW s \in Seq(Record), Steady(s, q, M)
  PROVE  Steady(s, r, N)
  <1> SUFFICES ASSUME NEW i \in 1..Len(s), NEW j \in 1..Len(s), i < j, s[i].label # "CLOSE", s[j].label # "CLOSE",
                      s[i].dir # s[j].dir
               PROVE  Broken(r, N, s[i].t, s[j].t)
    BY DEF Steady
  <1> DEFINE a == s[i].t
             b == s[j].t
  <1>1. a \in Nat /\ b \in Nat /\ b <= b /\ \A k \in 1..Len(q) : q[k].t \in Nat
    BY SeenTyped
  <1>2. Broken(q, M, a, b)
    BY DEF Steady
  <1> HIDE DEF a, b
  <1>3. Broken(r, N, a, b)
    BY <1>1, <1>2, BrokenStays
  <1> QED BY <1>3 DEF a, b

\* A close is logged, or a marker.
LEMMA KeptStays ==
  ASSUME NEW q \in Seq(Record), NEW s \in Seq(Record), NEW M \in Seq(Nat), NEW N \in Seq(Nat), Grown(M, N), KeptTrue(q, s, M)
  PROVE  /\ KeptTrue(q, s, N)
         /\ \A d \in Record : d.label = "CLOSE" /\ Faithful(d) => KeptTrue(Append(q, d), s, N)
  <1>1. KeptTrue(q, s, N)
    <2>1. Grown(q, q)
      BY GrowsByOne
    <2>2. Steady(s, q, N)
      BY <2>1, SteadyStays DEF KeptTrue
    <2> QED BY <2>2 DEF KeptTrue
  <1>2. ASSUME NEW d \in Record, d.label = "CLOSE", Faithful(d) PROVE KeptTrue(Append(q, d), s, N)
    <2> DEFINE r == Append(q, d)
    <2>1. /\ Len(q) \in Nat /\ Len(r) = Len(q) + 1 /\ r[Len(q) + 1] = d
          /\ \A i \in 1..Len(q) : r[i] = q[i]
      BY LogGrows
    <2>2. Grown(q, r)
      BY GrowsByOne
    <2> HIDE DEF r
    <2>3. \A i \in 1..Len(r) : i \in 1..Len(q) \/ r[i] = d
      BY <2>1
    <2>4. Steady(s, r, N)
      BY <2>2, SteadyStays DEF KeptTrue
    <2>5. \A i \in 1..Len(r) : Faithful(r[i])
      BY <1>2, <2>1, <2>3 DEF KeptTrue
    <2>6. Witnessed(r, s)
      BY <1>2, <2>1, <2>3 DEF KeptTrue, Witnessed
    <2>7. Recorded(s, r)
      <3> SUFFICES ASSUME NEW j \in 1..Len(s), s[j].label \in Continuations
                   PROVE  \E i \in 1..Len(r) : r[i].t = s[j].t /\ r[i].px = s[j].px /\ r[i].label = s[j].label
        BY DEF Recorded
      <3>1. PICK i \in 1..Len(q) : q[i].t = s[j].t /\ q[i].px = s[j].px /\ q[i].label = s[j].label
        BY DEF KeptTrue, Recorded
      <3>2. i \in 1..Len(r) /\ r[i] = q[i]
        BY <2>1
      <3> QED BY <3>1, <3>2
    <2>8. Turned(r, s)
      BY <1>2, <2>1, <2>3 DEF KeptTrue, Turned
    <2> QED BY <2>4, <2>5, <2>6, <2>7, <2>8 DEF KeptTrue, r
  <1> QED BY <1>1, <1>2

\* Something is seen, and logged or not.
LEMMA KeptGrows ==
  ASSUME NEW q \in Seq(Record), NEW s \in Seq(Record), NEW M \in Seq(Nat), KeptTrue(q, s, M),
         NEW e \in Record, Faithful(e), NEW r \in Seq(Record),
         \/ r = q /\ e.label \notin Continuations
         \/ \E d : LogsIt(s, e, d) /\ r = Append(q, d) /\ (e.label \in Continuations => d.label = e.label),
         e.label # "CLOSE" => \A i \in 1..Len(s) : s[i].label # "CLOSE" => s[i].dir = e.dir \/ Broken(r, M, s[i].t, e.t)
  PROVE  KeptTrue(r, Append(s, e), M)
  <1> DEFINE z == Append(s, e)
             n == Len(s) + 1
  <1>1. /\ Len(s) \in Nat /\ Len(z) = n /\ z[n] = e /\ z \in Seq(Record)
        /\ \A i \in 1..Len(s) : z[i] = s[i]
    BY LogGrows
  <1> HIDE DEF z
  <1>2. /\ n \in 1..Len(z) /\ \A j \in 1..Len(z) : j \in 1..Len(s) \/ (j = n /\ z[j] = e)
        /\ \A j \in 1..Len(s) : j \in 1..Len(z)
    BY <1>1
  <1>3. /\ Grown(q, r) /\ \A i \in 1..Len(q) : i \in 1..Len(r) /\ r[i] = q[i]
        /\ \A i \in 1..Len(r) : i \in 1..Len(q) \/ LogsIt(s, e, r[i])
        /\ e.label \in Continuations => \E i \in 1..Len(r) : LogsIt(s, e, r[i]) /\ r[i].label = e.label
    <2>1. CASE r = q /\ e.label \notin Continuations
      BY <2>1, GrowsByOne
    <2>2. CASE \E d : LogsIt(s, e, d) /\ r = Append(q, d) /\ (e.label \in Continuations => d.label = e.label)
      <3>1. PICK d : LogsIt(s, e, d) /\ r = Append(q, d) /\ (e.label \in Continuations => d.label = e.label)
        BY <2>2
      <3>2. d \in Record
        BY <3>1 DEF LogsIt
      <3>3. /\ Len(q) \in Nat /\ Len(r) = Len(q) + 1 /\ r[Len(q) + 1] = d
            /\ \A i \in 1..Len(q) : r[i] = q[i]
        BY <3>1, <3>2, LogGrows
      <3>4. Grown(q, r)
        BY <3>1, <3>2, GrowsByOne
      <3>5. Len(q) + 1 \in 1..Len(r) /\ \A i \in 1..Len(r) : i \in 1..Len(q) \/ r[i] = d
        BY <3>3
      <3> QED BY <3>1, <3>3, <3>4, <3>5
    <2> QED BY <2>1, <2>2
  <1>4. (\A i \in 1..Len(r) : Faithful(r[i])) /\ \A i \in 1..Len(z) : Faithful(z[i])
    BY <1>1, <1>2, <1>3 DEF KeptTrue, LogsIt
  <1>5. Witnessed(r, z)
    <2> SUFFICES ASSUME NEW i \in 1..Len(r), r[i].label # "CLOSE" PROVE \E j \in 1..Len(z) : Told1(r[i], z[j])
      BY DEF Witnessed
    <2>1. CASE LogsIt(s, e, r[i])
      BY <1>1, <1>2, <2>1 DEF LogsIt
    <2>2. CASE i \in 1..Len(q)
      <3>1. PICK j \in 1..Len(s) : Told1(q[i], s[j])
        BY <1>3, <2>2 DEF KeptTrue, Witnessed
      <3> QED BY <1>1, <1>2, <1>3, <2>2, <3>1
    <2> QED BY <1>3, <2>1, <2>2
  <1>6. Recorded(z, r)
    <2> SUFFICES ASSUME NEW j \in 1..Len(z), z[j].label \in Continuations
                 PROVE  \E i \in 1..Len(r) : r[i].t = z[j].t /\ r[i].px = z[j].px /\ r[i].label = z[j].label
      BY DEF Recorded
    <2>1. CASE j = n /\ z[j] = e
      BY <1>3, <2>1 DEF LogsIt, Told1
    <2>2. CASE j \in 1..Len(s)
      <3>1. PICK i \in 1..Len(q) : q[i].t = s[j].t /\ q[i].px = s[j].px /\ q[i].label = s[j].label
        BY <1>1, <2>2 DEF KeptTrue, Recorded
      <3> QED BY <1>1, <1>3, <2>2, <3>1
    <2> QED BY <1>2, <2>1, <2>2
  <1>7. Turned(r, z)
    <2> SUFFICES ASSUME NEW i \in 1..Len(r), r[i].label = "FLIP"
                 PROVE  \E j \in 1..(Len(z) - 1) : z[j + 1].t = r[i].t /\ (z[j].label = "CLOSE" \/ z[j].dir # z[j + 1].dir)
      BY DEF Turned
    <2>1. CASE LogsIt(s, e, r[i])
      <3>1. Len(s) > 0 /\ (s[Len(s)].label = "CLOSE" \/ s[Len(s)].dir # e.dir) /\ r[i].t = e.t
        BY <2>1 DEF LogsIt, Told1
      <3>2. Len(s) \in 1..(Len(z) - 1) /\ z[Len(s)] = s[Len(s)] /\ z[Len(s) + 1] = e
        BY <1>1, <3>1
      <3> QED BY <3>1, <3>2
    <2>2. CASE i \in 1..Len(q)
      <3>1. PICK j \in 1..(Len(s) - 1) : s[j + 1].t = q[i].t /\ (s[j].label = "CLOSE" \/ s[j].dir # s[j + 1].dir)
        BY <1>3, <2>2 DEF KeptTrue, Turned
      <3>2. j \in 1..(Len(z) - 1) /\ z[j] = s[j] /\ z[j + 1] = s[j + 1]
        BY <1>1
      <3> QED BY <1>3, <2>2, <3>1, <3>2
    <2> QED BY <1>3, <2>1, <2>2
  <1>8. Steady(z, r, M)
    <2>1. Grown(M, M)
      BY GrowsByOne
    <2>2. Steady(s, r, M)
      BY <1>3, <2>1, SteadyStays DEF KeptTrue
    <2> SUFFICES ASSUME NEW i \in 1..Len(z), NEW j \in 1..Len(z), i < j, z[i].label # "CLOSE", z[j].label # "CLOSE"
                 PROVE  z[i].dir = z[j].dir \/ Broken(r, M, z[i].t, z[j].t)
      BY DEF Steady
    <2>3. i \in 1..Len(s) /\ z[i] = s[i]
      BY <1>1
    <2>4. CASE j = n /\ z[j] = e
      BY <2>3, <2>4
    <2>5. CASE j \in 1..Len(s)
      BY <1>1, <2>2, <2>3, <2>5 DEF Steady
    <2> QED BY <1>2, <2>4, <2>5
  <1> QED BY <1>4, <1>5, <1>6, <1>7, <1>8 DEF KeptTrue, z

\* An edge that was seen to die is next seen to open.
Reopened(s) == \A i \in 1..(Len(s) - 1) : s[i].label = "CLOSE" => s[i + 1].label = "OPEN"

\* What a frame makes of its market, and tells of it.
FrameTells(m, px) ==
  LET new == EdgeState(px)
      was == state[m] # None /\ state[m].arb
      Sees(label) == seen'[m] = Append(seen[m], Entry(now, label, new, px))
      Logs(label) == log'[m] = Append(log[m], Entry(now, label, new, px))
  IN  /\ \A k \in Markets \ {m} : /\ state'[k] = state[k] /\ lastDir'[k] = lastDir[k] /\ pending'[k] = pending[k]
                                  /\ seen'[k] = seen[k] /\ log'[k] = log[k]
      /\ state'[m] = new
      /\ \/ /\ seen'[m] = seen[m] /\ log'[m] = log[m] /\ pending'[m] = pending[m] /\ lastDir'[m] = lastDir[m]
            /\ was <=> new.arb
            /\ was => new.dir = state[m].dir
         \/ /\ was /\ ~ new.arb /\ Sees("CLOSE") /\ log'[m] = log[m] /\ lastDir'[m] = lastDir[m]
            /\ pending'[m] # None /\ pending'[m].t = now
         \/ /\ ~ was /\ new.arb /\ Sees("OPEN") /\ pending'[m] = None /\ lastDir'[m] = new.dir
            /\ \/ log'[m] = log[m] /\ pending[m] # None /\ lastDir[m] = new.dir
               \/ Logs("OPEN") /\ (pending[m] = None \/ Expired(m))
               \/ Logs("FLIP") /\ pending[m] # None
         \/ /\ was /\ new.arb /\ pending'[m] = pending[m] /\ lastDir'[m] = new.dir
            /\ \E label \in Continuations : Sees(label) /\ Logs(label) /\ (label = "FLIP" <=> new.dir # state[m].dir)

\* A frame does so.
LEMMA FrameTellsIt ==
  ASSUME EpisodesTypeOK, NEW m \in Markets, NEW px \in Books, FrameOf(m, px)
  PROVE  FrameTells(m, px)
  <1> DEFINE new == EdgeState(px)
             was == state[m] # None /\ state[m].arb
             label == Classify(state[m], new)
  <1>1. /\ new \in EdgeStates /\ state[m] \in EdgeStates \cup {None} /\ now \in Nat
        /\ state \in [Markets -> EdgeStates \cup {None}] /\ lastDir \in [Markets -> Dirs \cup {None}]
        /\ pending \in [Markets -> {None} \cup [t : Nat, px : Books]]
        /\ log \in [Markets -> Seq(Record)] /\ seen \in [Markets -> Seq(Record)]
    BY StatesTyped DEF EpisodesTypeOK
  <1>2. /\ label \in Labels \cup {None}
        /\ label = "OPEN" <=> ~ was /\ new.arb
        /\ label = "CLOSE" <=> was /\ ~ new.arb
        /\ label = None => (was <=> new.arb)
        /\ label \in Labels \ {"OPEN", "CLOSE"} => was /\ new.arb
    BY <1>1, Classified
  <1>3. /\ label = None => UNCHANGED <<pending, lastDir, log, seen>>
        /\ label # None => Feed(m, label, new, px) /\ seen' = [seen EXCEPT ![m] = Append(@, Entry(now, label, new, px))]
        /\ state' = [state EXCEPT ![m] = new]
    BY DEF FrameOf
  <1>4. None \notin Labels /\ {"OPEN", "CLOSE"} \subseteq Labels /\ [t |-> now, px |-> px] # None
    BY <1>1, EpisodesAssumption DEF Labels
  <1>5. was /\ new.arb => (label = "FLIP" <=> new.dir # state[m].dir)
    <2>1. "FLIP" # None
      BY EpisodesAssumption DEF Labels
    <2> QED BY <2>1 DEF Classify
  <1> HIDE DEF new, was, label
  <1>6. state'[m] = new /\ \A k \in Markets \ {m} : state'[k] = state[k]
    BY <1>1, <1>3
  <1>7. CASE label = None
    <2>1. was => new.dir = state[m].dir
      <3>1. label # "FLIP"
        BY <1>7, EpisodesAssumption DEF Labels
      <3> QED BY <1>2, <1>5, <1>7, <3>1
    <2> QED BY <1>2, <1>3, <1>6, <1>7, <2>1 DEF FrameTells, new, was
  <1>8. CASE label \in Labels
    <2> DEFINE e == Entry(now, label, new, px)
    <2>1. seen' = [seen EXCEPT ![m] = Append(@, e)] /\ Feed(m, label, new, px)
      BY <1>3, <1>4, <1>8
    <2> HIDE DEF e
    <2>2. seen'[m] = Append(seen[m], e) /\ \A k \in Markets \ {m} : seen'[k] = seen[k]
      BY <1>1, <2>1
    <2>3. CASE label = "CLOSE"
      <3>1. pending' = [pending EXCEPT ![m] = [t |-> now, px |-> px]] /\ UNCHANGED <<log, lastDir>>
        BY <2>1, <2>3 DEF Feed
      <3>2. /\ pending'[m] = [t |-> now, px |-> px]
            /\ \A k \in Markets \ {m} : pending'[k] = pending[k]
        BY <1>1, <3>1
      <3>3. pending'[m] # None /\ pending'[m].t = now
        BY <1>4, <3>2
      <3>4. was /\ ~ new.arb /\ seen'[m] = Append(seen[m], Entry(now, "CLOSE", new, px))
        BY <1>2, <2>2, <2>3 DEF e
      <3> QED BY <1>6, <2>2, <3>1, <3>2, <3>3, <3>4 DEF FrameTells, new, was
    <2>4. CASE label # "CLOSE"
      <3>1. /\ pending' = IF label = "OPEN" THEN [pending EXCEPT ![m] = None] ELSE pending
            /\ lastDir' = [lastDir EXCEPT ![m] = new.dir]
            /\ log' = IF Suppressed(m, label, new) THEN log
                      ELSE [log EXCEPT ![m] = Append(@, Entry(now, LogLabel(m, label), new, px))]
        BY <2>1, <2>4 DEF Feed
      <3>2. /\ pending'[m] = IF label = "OPEN" THEN None ELSE pending[m]
            /\ \A k \in Markets \ {m} : pending'[k] = pending[k]
        BY <1>1, <3>1
      <3>3. /\ \A k \in Markets \ {m} : log'[k] = log[k]
            /\ log'[m] = IF Suppressed(m, label, new) THEN log[m] ELSE Append(log[m], Entry(now, LogLabel(m, label), new, px))
        BY <1>1, <3>1
      <3>4. lastDir'[m] = new.dir /\ \A k \in Markets \ {m} : lastDir'[k] = lastDir[k]
        BY <1>1, <3>1
      <3>5. CASE label = "OPEN"
        <4>1. \/ log'[m] = log[m] /\ pending[m] # None /\ lastDir[m] = new.dir
              \/ log'[m] = Append(log[m], Entry(now, "OPEN", new, px)) /\ (pending[m] = None \/ Expired(m))
              \/ log'[m] = Append(log[m], Entry(now, "FLIP", new, px)) /\ pending[m] # None
          BY <3>3, <3>5 DEF LogLabel, Suppressed
        <4>2. seen'[m] = Append(seen[m], Entry(now, "OPEN", new, px)) /\ ~ was /\ new.arb /\ pending'[m] = None
          BY <1>2, <2>2, <3>2, <3>5 DEF e
        <4> QED BY <1>6, <2>2, <3>2, <3>3, <3>4, <4>1, <4>2 DEF FrameTells, new, was
      <3>6. CASE label # "OPEN"
        <4>1. log'[m] = Append(log[m], Entry(now, label, new, px)) /\ label \in Continuations /\ pending'[m] = pending[m]
          BY <1>8, <2>4, <3>2, <3>3, <3>6 DEF Suppressed, LogLabel, Continuations, Labels
        <4>2. was /\ new.arb
          BY <1>2, <1>8, <2>4, <3>6
        <4>3. label = "FLIP" <=> new.dir # state[m].dir
          BY <1>5, <4>2
        <4> QED BY <1>6, <2>2, <3>2, <3>3, <3>4, <4>1, <4>2, <4>3 DEF FrameTells, e, new, was
      <3> QED BY <3>5, <3>6
    <2> QED BY <2>3, <2>4
  <1> QED BY <1>2, <1>7, <1>8

\* The last moment the trackers were there.
Going == IF up THEN now ELSE downSince

\* What was seen had the direction d, unless the log and the markers show it to be broken since.
Directed(s, d, q, M, n) == \A i \in 1..Len(s) : s[i].label # "CLOSE" => s[i].dir = d \/ Broken(q, M, s[i].t, n)

SameWay(m) == Directed(seen[m], lastDir[m], log[m], markers, now)

\* What the trackers remember of a market is what they saw of it last, and its log keeps what they saw.
Remembering(m) ==
  /\ KeptTrue(log[m], seen[m], markers) /\ Reopened(seen[m]) /\ UpTo(log[m], Going)
  /\ pending[m] # None => Going - pending[m].t <= Window + FlushLag + 1
  /\ state[m] # None /\ state[m].arb =>
       Len(seen[m]) > 0 /\ seen[m][Len(seen[m])].label # "CLOSE"
       /\ seen[m][Len(seen[m])].dir = state[m].dir /\ lastDir[m] = state[m].dir
  /\ pending[m] = None /\ ~ (state[m] # None /\ state[m].arb) => lastDir[m] = None
  /\ m \notin settled => SameWay(m)

RememberInv == \A m \in Markets : Remembering(m)

\* What had a direction, or was broken since, stays so.
LEMMA SameWayStays ==
  ASSUME NEW s \in Seq(Record), NEW q, NEW r, NEW M \in Seq(Nat), NEW N \in Seq(Nat), Grown(q, r), Grown(M, N),
         NEW b \in Nat, NEW c \in Nat, b <= c, \A k \in 1..Len(q) : q[k].t \in Nat, NEW d,
         Directed(s, d, q, M, b)
  PROVE  Directed(s, d, r, N, c)
  <1> SUFFICES ASSUME NEW i \in 1..Len(s), s[i].label # "CLOSE", s[i].dir # d PROVE Broken(r, N, s[i].t, c)
    BY DEF Directed
  <1> DEFINE a == s[i].t
  <1>1. a \in Nat
    BY SeenTyped
  <1>2. Broken(q, M, a, b)
    BY DEF Directed
  <1> HIDE DEF a
  <1>3. Broken(r, N, a, c)
    BY <1>1, <1>2, BrokenStays
  <1> QED BY <1>3 DEF a

\* A flip, or an opening, that is logged breaks with all that was seen before it.
LEMMA FlipBreaks ==
  ASSUME NEW q \in Seq(Record), NEW d \in Record, d.label \in {"FLIP", "OPEN"}, NEW s \in Seq(Record), \A i \in 1..Len(s) : s[i].t < d.t,
         NEW M, NEW way
  PROVE  Directed(s, way, Append(q, d), M, d.t)
  <1> DEFINE r == Append(q, d)
             n == Len(q) + 1
  <1>1. Len(q) \in Nat /\ Len(r) = n /\ r[n] = d
    BY LogGrows
  <1>2. d.t \in Nat
    BY DEF Record
  <1> HIDE DEF r
  <1>3. ASSUME NEW i \in 1..Len(s) PROVE Broken(r, M, s[i].t, d.t)
    <2>1. n \in 1..Len(r) /\ r[n].label \in Breaks /\ s[i].t < r[n].t /\ r[n].t <= d.t
      BY <1>1, <1>2 DEF Breaks
    <2> QED BY <2>1 DEF Broken
  <1> QED BY <1>3 DEF Directed, r

\* A record of the books px is what they were worth.
LEMMA EntryFaithful ==
  ASSUME NEW t \in Nat, NEW label \in Labels, NEW px \in Books
  PROVE  LET e == Entry(t, label, EdgeState(px), px)
         IN  /\ e \in Record /\ e.t = t /\ e.label = label /\ e.px = px /\ e.dir = EdgeState(px).dir
             /\ label = "CLOSE" \/ EdgeState(px).arb => Faithful(e)
  BY EntryTyped DEF Entry, Faithful

\* Something more is seen.
LEMMA SeesMore ==
  ASSUME NEW s \in Seq(Record), NEW e \in Record
  PROVE  LET z == Append(s, e)
         IN  /\ z \in Seq(Record) /\ Len(z) > 0 /\ z[Len(z)] = e
             /\ Reopened(s) /\ (Len(s) > 0 /\ s[Len(s)].label = "CLOSE" => e.label = "OPEN") => Reopened(z)
             /\ \A d, q, M, n : Directed(s, d, q, M, n) /\ (e.label # "CLOSE" => e.dir = d) => Directed(z, d, q, M, n)
  <1> DEFINE z == Append(s, e)
  <1>1. /\ Len(s) \in Nat /\ Len(z) = Len(s) + 1 /\ z[Len(s) + 1] = e /\ z \in Seq(Record)
        /\ \A i \in 1..Len(s) : z[i] = s[i]
    BY LogGrows
  <1> HIDE DEF z
  <1>2. /\ Len(z) > 0 /\ z[Len(z)] = e
    BY <1>1
  <1>3. ASSUME Reopened(s), Len(s) > 0 /\ s[Len(s)].label = "CLOSE" => e.label = "OPEN" PROVE Reopened(z)
    <2> SUFFICES ASSUME NEW i \in 1..(Len(z) - 1), z[i].label = "CLOSE" PROVE z[i + 1].label = "OPEN"
      BY DEF Reopened
    <2>1. CASE i = Len(s)
      <3>1. Len(s) > 0 /\ z[i] = s[Len(s)] /\ z[i + 1] = e
        BY <1>1, <2>1
      <3> QED BY <1>3, <3>1
    <2>2. CASE i # Len(s)
      <3>1. i \in 1..(Len(s) - 1) /\ z[i] = s[i] /\ z[i + 1] = s[i + 1]
        BY <1>1, <2>2
      <3> QED BY <1>3, <3>1 DEF Reopened
    <2> QED BY <2>1, <2>2
  <1>4. ASSUME NEW d, NEW q, NEW M, NEW n, Directed(s, d, q, M, n), e.label # "CLOSE" => e.dir = d
        PROVE  Directed(z, d, q, M, n)
    <2> SUFFICES ASSUME NEW i \in 1..Len(z), z[i].label # "CLOSE" PROVE z[i].dir = d \/ Broken(q, M, z[i].t, n)
      BY DEF Directed
    <2>1. i \in 1..Len(s) \/ z[i] = e
      BY <1>1
    <2> QED BY <1>1, <1>4, <2>1 DEF Directed
  <1> QED BY <1>1, <1>2, <1>3, <1>4 DEF z

\* What is seen but not logged.
LEMMA RemembersSeen ==
  ASSUME OrderInv, SeenInv, RememberInv, NEW m \in Markets
  PROVE  /\ state[m] \in EdgeStates \cup {None} /\ (state[m] # None => state[m].arb \in BOOLEAN)
         /\ log[m] \in Seq(Record) /\ seen[m] \in Seq(Record) /\ markers \in Seq(Nat) /\ now \in Nat
         /\ downSince \in Nat /\ downSince <= now /\ up \in BOOLEAN
         /\ pending[m] \in {None} \cup [t : Nat, px : Books] /\ lastDir[m] \in Dirs \cup {None}
         /\ OneMarket(m) /\ Seeing(m) /\ Remembering(m) /\ UpTo(log[m], now)
         /\ \A k \in 1..Len(log[m]) : log[m][k].t \in Nat
         /\ \A k \in 1..Len(seen[m]) : seen[m][k].t \in Nat /\ seen[m][k].dir \in Dirs
  <1>1. /\ state[m] \in EdgeStates \cup {None}
        /\ log[m] \in Seq(Record) /\ seen[m] \in Seq(Record) /\ markers \in Seq(Nat) /\ now \in Nat
        /\ pending[m] \in {None} \cup [t : Nat, px : Books] /\ lastDir[m] \in Dirs \cup {None}
        /\ downSince \in Nat /\ up \in BOOLEAN
    BY DEF OrderInv, EpisodesTypeOK
  <1>2. OneMarket(m) /\ Seeing(m) /\ Remembering(m) /\ UpTo(log[m], now) /\ downSince <= now
    BY LogIsPast DEF OrderInv, SeenInv, RememberInv
  <1>3. state[m] # None => state[m].arb \in BOOLEAN
    BY <1>1, StatesTyped
  <1>4. \A k \in 1..Len(log[m]) : log[m][k].t \in Nat
    BY <1>1, SeenTyped
  <1>5. \A k \in 1..Len(seen[m]) : seen[m][k].t \in Nat /\ seen[m][k].dir \in Dirs
    <2>1. \A k \in 1..Len(seen[m]) : seen[m][k] \in Record
      BY <1>1, SeenTyped
    <2> QED BY <2>1 DEF Record
  <1> QED BY <1>1, <1>2, <1>3, <1>4, <1>5

\* A frame is remembered.
LEMMA FrameRemembers ==
  ASSUME OrderInv, OrderInv', SeenInv, RememberInv, NEW m \in Markets, NEW px \in Books, FrameTells(m, px), OwnTime(m),
         ~ Overdue(m), m \notin settled, up, UNCHANGED <<now, up, settled, markers, downSince>>
  PROVE  \A k \in Markets : Remembering(k)'
  <1> SUFFICES ASSUME NEW k \in Markets PROVE Remembering(k)'
    OBVIOUS
  <1>1. CASE k # m
    <2>1. /\ state'[k] = state[k] /\ lastDir'[k] = lastDir[k] /\ pending'[k] = pending[k]
          /\ seen'[k] = seen[k] /\ log'[k] = log[k]
      BY <1>1 DEF FrameTells
    <2>2. Remembering(k)
      BY DEF RememberInv
    <2> QED BY <2>1, <2>2 DEF Remembering, SameWay, Going
  <1>2. CASE k = m
    <2> DEFINE new == EdgeState(px)
               was == state[m] # None /\ state[m].arb
               s == seen[m]
               q == log[m]
               M == markers
               E(label) == Entry(now, label, new, px)
               Sees(label) == seen'[m] = Append(seen[m], Entry(now, label, new, px))
               Logs(label) == log'[m] = Append(log[m], Entry(now, label, new, px))
    <2>1. /\ state[m] \in EdgeStates \cup {None} /\ (state[m] # None => state[m].arb \in BOOLEAN)
          /\ q \in Seq(Record) /\ s \in Seq(Record) /\ M \in Seq(Nat) /\ now \in Nat
          /\ pending[m] \in {None} \cup [t : Nat, px : Books] /\ lastDir[m] \in Dirs \cup {None}
          /\ OneMarket(m) /\ Seeing(m) /\ Remembering(m)
          /\ \A i \in 1..Len(q) : q[i].t \in Nat
          /\ \A i \in 1..Len(s) : s[i].t \in Nat /\ s[i].dir \in Dirs
      BY RemembersSeen
    <2>2. new # None /\ new.arb \in BOOLEAN /\ new.dir \in Dirs /\ new.dir # None /\ None \notin Dirs
      BY StatesTyped, EpisodesAssumption
    <2>3. state'[m] = new
      BY DEF FrameTells
    <2>4. log'[m] \in Seq(Record) /\ UpTo(log'[m], now)
      <3>1. /\ log'[m] \in Seq(Record) /\ OneMarket(m)' /\ now' = now
            /\ pending'[m] \in {None} \cup [t : Nat, px : Books]
        BY DEF OrderInv, EpisodesTypeOK
      <3>2. UpTo(log'[m], Horizon(m)') /\ Horizon(m)' \in Nat /\ Horizon(m)' <= now
        BY <2>1, <3>1 DEF OneMarket, Horizon
      <3> QED BY <2>1, <3>1, <3>2, UpToLater
    <2>5. Going = now /\ Going' = now
      BY DEF Going
    <2>6. \A i \in 1..Len(s) : s[i].t < now
      BY <2>1 DEF OwnTime
    <2>7. SameWay(m) /\ KeptTrue(q, s, M) /\ Reopened(s)
      BY <2>1 DEF Remembering
    <2>8. \A label \in Labels : /\ E(label) \in Record /\ E(label).t = now /\ E(label).label = label /\ E(label).px = px
                                /\ E(label).dir = new.dir
                                /\ label = "CLOSE" \/ new.arb => Faithful(E(label))
      BY <2>1, EntryFaithful
    <2>9. CASE /\ seen'[m] = seen[m] /\ log'[m] = log[m] /\ pending'[m] = pending[m] /\ lastDir'[m] = lastDir[m]
               /\ was <=> new.arb
               /\ was => new.dir = state[m].dir
      BY <1>2, <2>1, <2>2, <2>3, <2>5, <2>9 DEF Remembering, SameWay
    <2>10. CASE /\ was /\ ~ new.arb /\ Sees("CLOSE") /\ log'[m] = log[m] /\ lastDir'[m] = lastDir[m]
                /\ pending'[m] # None /\ pending'[m].t = now
      <3> DEFINE e == E("CLOSE")
      <3>1. "CLOSE" \in Labels /\ "CLOSE" \notin Continuations
        BY DEF Labels, Continuations
      <3>2. e \in Record /\ e.label = "CLOSE" /\ Faithful(e) /\ e.t = now
        BY <2>8, <3>1
      <3>3. Len(s) > 0 /\ s[Len(s)].label # "CLOSE"
        BY <2>1, <2>10 DEF Remembering
      <3>4. seen'[m] = Append(s, e)
        BY <2>10
      <3> HIDE DEF e
      <3>5. KeptTrue(q, Append(s, e), M)
        <4> HIDE DEF q, s, M
        <4> QED BY <2>1, <2>7, <3>1, <3>2, KeptGrows
      <3>6. /\ Reopened(Append(s, e))
            /\ Directed(Append(s, e), lastDir[m], q, M, now)
        <4>1. Directed(s, lastDir[m], q, M, now)
          BY <2>7 DEF SameWay
        <4> HIDE DEF q, s, M
        <4> QED BY <2>1, <2>7, <3>2, <3>3, <4>1, SeesMore
      <3>7. now - now <= Window + FlushLag + 1
        BY <2>1, EpisodesAssumption
      <3> QED BY <1>2, <2>2, <2>3, <2>4, <2>5, <2>10, <3>4, <3>5, <3>6, <3>7 DEF Remembering, SameWay
    <2>11. CASE /\ ~ was /\ new.arb /\ Sees("OPEN") /\ pending'[m] = None /\ lastDir'[m] = new.dir
                /\ \/ log'[m] = log[m] /\ pending[m] # None /\ lastDir[m] = new.dir
                   \/ Logs("OPEN") /\ (pending[m] = None \/ Expired(m))
                   \/ Logs("FLIP") /\ pending[m] # None
      <3> DEFINE e == E("OPEN")
                 r == log'[m]
      <3>1. "OPEN" \in Labels /\ "FLIP" \in Labels /\ "OPEN" \notin Continuations
        BY DEF Labels, Continuations
      <3>2. e \in Record /\ e.label = "OPEN" /\ Faithful(e) /\ e.t = now /\ e.dir = new.dir /\ e.px = px
        BY <2>8, <2>11, <3>1
      <3>3. seen'[m] = Append(s, e)
        BY <2>11
      <3>4. pending[m] # None => Len(s) > 0 /\ s[Len(s)].label = "CLOSE"
        BY <2>1 DEF Seeing, EndsClosed
      <3> HIDE DEF e
      <3>5. /\ \/ r = q
               \/ \E d : LogsIt(s, e, d) /\ r = Append(q, d)
            /\ Directed(s, new.dir, r, M, now)
        <4>1. CASE log'[m] = log[m] /\ pending[m] # None /\ lastDir[m] = new.dir
          BY <2>7, <3>2, <4>1 DEF SameWay
        <4>2. CASE Logs("OPEN") /\ (pending[m] = None \/ Expired(m))
          <5> DEFINE d == E("OPEN")
          <5>1. d \in Record /\ Faithful(d) /\ d.label = "OPEN" /\ d.t = now /\ d.px = px
            BY <2>8, <2>11, <3>1
          <5>2. r = Append(q, d)
            BY <4>2
          <5> HIDE DEF d
          <5>3. LogsIt(s, e, d)
            BY <3>2, <5>1 DEF LogsIt, Told1
          <5>4. Directed(s, new.dir, r, M, now)
            <6>1. \A i \in 1..Len(s) : s[i].t < d.t
              BY <2>6, <5>1
            <6> HIDE DEF s, q, M, r, new
            <6>2. Directed(s, new.dir, Append(q, d), M, d.t)
              BY <2>1, <5>1, <6>1, FlipBreaks
            <6> QED BY <5>1, <5>2, <6>2
          <5> QED BY <5>2, <5>3, <5>4
        <4>3. CASE Logs("FLIP") /\ pending[m] # None
          <5> DEFINE d == E("FLIP")
          <5>1. d \in Record /\ Faithful(d) /\ d.label = "FLIP" /\ d.t = now /\ d.px = px
            BY <2>8, <2>11, <3>1
          <5>2. r = Append(q, d)
            BY <4>3
          <5> HIDE DEF d
          <5>3. LogsIt(s, e, d)
            BY <3>2, <3>4, <4>3, <5>1 DEF LogsIt, Told1
          <5>4. Directed(s, new.dir, r, M, now)
            <6>1. \A i \in 1..Len(s) : s[i].t < d.t
              BY <2>6, <5>1
            <6> HIDE DEF s, q, M, r, new
            <6>2. Directed(s, new.dir, Append(q, d), M, d.t)
              BY <2>1, <5>1, <6>1, FlipBreaks
            <6> QED BY <5>1, <5>2, <6>2
          <5> QED BY <5>2, <5>3, <5>4
        <4> QED BY <2>11, <4>1, <4>2, <4>3
      <3>6. KeptTrue(r, Append(s, e), M)
        <4>1. r \in Seq(Record)
          BY <2>4
        <4>2. \A i \in 1..Len(s) : s[i].label # "CLOSE" => s[i].dir = e.dir \/ Broken(r, M, s[i].t, e.t)
          BY <3>2, <3>5 DEF Directed
        <4> HIDE DEF q, s, M, r, new
        <4> QED BY <2>1, <2>7, <3>1, <3>2, <3>5, <4>1, <4>2, KeptGrows
      <3>7. /\ Append(s, e) \in Seq(Record) /\ Len(Append(s, e)) > 0 /\ Append(s, e)[Len(Append(s, e))] = e
            /\ Reopened(Append(s, e))
            /\ Directed(Append(s, e), new.dir, r, M, now)
        <4> HIDE DEF q, s, M, r, new
        <4> QED BY <2>1, <2>7, <3>2, <3>5, SeesMore
      <3>8. "OPEN" # "CLOSE"
        OBVIOUS
      <3> QED BY <1>2, <2>2, <2>3, <2>4, <2>5, <2>11, <3>2, <3>3, <3>6, <3>7, <3>8 DEF Remembering, SameWay
    <2>12. CASE /\ was /\ new.arb /\ pending'[m] = pending[m] /\ lastDir'[m] = new.dir
                /\ \E label \in Continuations : Sees(label) /\ Logs(label) /\ (label = "FLIP" <=> new.dir # state[m].dir)
      <3> DEFINE r == log'[m]
      <3>1. PICK label \in Continuations : Sees(label) /\ Logs(label) /\ (label = "FLIP" <=> new.dir # state[m].dir)
        BY <2>12
      <3> DEFINE e == E(label)
      <3>2. label \in Labels /\ label # "CLOSE" /\ label # "OPEN"
        BY DEF Labels, Continuations
      <3>3. e \in Record /\ e.label = label /\ Faithful(e) /\ e.t = now /\ e.dir = new.dir
        BY <2>8, <2>12, <3>2
      <3>4. seen'[m] = Append(s, e) /\ r = Append(q, e)
        BY <3>1
      <3>5. Len(s) > 0 /\ s[Len(s)].label # "CLOSE" /\ s[Len(s)].dir = state[m].dir /\ lastDir[m] = state[m].dir
        BY <2>1, <2>12 DEF Remembering
      <3> HIDE DEF e
      <3>6. LogsIt(s, e, e)
        BY <3>1, <3>2, <3>3, <3>5 DEF LogsIt, Told1
      <3>7. Directed(s, new.dir, r, M, now)
        <4>2. CASE label = "FLIP"
          <5>1. \A i \in 1..Len(s) : s[i].t < e.t
            BY <2>6, <3>3
          <5> HIDE DEF s, q, M, r, new
          <5>2. Directed(s, new.dir, Append(q, e), M, e.t)
            BY <2>1, <3>3, <4>2, <5>1, FlipBreaks
          <5> QED BY <3>3, <3>4, <5>2
        <4>3. CASE label # "FLIP"
          <5>1. lastDir[m] = new.dir
            BY <3>1, <3>5, <4>3
          <5>2. Grown(q, r) /\ Grown(M, M)
            BY <2>1, <3>3, <3>4, GrowsByOne
          <5>3. now <= now
            BY <2>1
          <5>4. Directed(s, new.dir, q, M, now)
            BY <2>7, <5>1 DEF SameWay
          <5> HIDE DEF s, q, M, r, new
          <5> QED BY <2>1, <5>2, <5>3, <5>4, SameWayStays
        <4> QED BY <4>2, <4>3
      <3>8. KeptTrue(r, Append(s, e), M)
        <4>1. r \in Seq(Record)
          BY <2>4
        <4>2. \A i \in 1..Len(s) : s[i].label # "CLOSE" => s[i].dir = e.dir \/ Broken(r, M, s[i].t, e.t)
          BY <3>3, <3>7 DEF Directed
        <4> HIDE DEF q, s, M, r, new
        <4> QED BY <2>1, <2>7, <3>3, <3>4, <3>6, <4>1, <4>2, KeptGrows
      <3>9. /\ Append(s, e) \in Seq(Record) /\ Len(Append(s, e)) > 0 /\ Append(s, e)[Len(Append(s, e))] = e
            /\ Reopened(Append(s, e))
            /\ Directed(Append(s, e), new.dir, r, M, now)
        <4> HIDE DEF q, s, M, r, new
        <4> QED BY <2>1, <2>7, <3>3, <3>5, <3>7, SeesMore
      <3>10. pending[m] = None
        BY <2>1, <2>12 DEF OneMarket
      <3> QED BY <1>2, <2>2, <2>3, <2>4, <2>5, <2>12, <3>2, <3>3, <3>4, <3>8, <3>9, <3>10 DEF Remembering, SameWay
    <2> QED BY <2>9, <2>10, <2>11, <2>12 DEF FrameTells
  <1> QED BY <1>1, <1>2

\* A close that is logged breaks with all that was seen before the edge died.
LEMMA CloseBreaks ==
  ASSUME NEW q \in Seq(Record), NEW d \in Record, d.label = "CLOSE", NEW s \in Seq(Record), NEW n \in Nat,
         d.t <= n, EndsClosed(s, d.t), InTurn(s, n), NEW M, NEW way
  PROVE  Directed(s, way, Append(q, d), M, n)
  <1> DEFINE r == Append(q, d)
             k == Len(q) + 1
  <1>1. Len(q) \in Nat /\ Len(r) = k /\ r[k] = d /\ Len(s) \in Nat
    BY LogGrows
  <1>2. d.t \in Nat
    BY DEF Record
  <1> HIDE DEF r
  <1>3. ASSUME NEW i \in 1..Len(s), s[i].label # "CLOSE" PROVE Broken(r, M, s[i].t, n)
    <2>1. i < Len(s) /\ Len(s) \in 1..Len(s) /\ s[Len(s)].t = d.t
      BY <1>1, <1>3 DEF EndsClosed
    <2>2. s[i].t < d.t
      BY <2>1 DEF InTurn
    <2>3. k \in 1..Len(r) /\ r[k].label \in Breaks /\ s[i].t < r[k].t /\ r[k].t <= n
      BY <1>1, <1>2, <2>2 DEF Breaks
    <2> QED BY <2>3 DEF Broken
  <1> QED BY <1>3 DEF Directed, r

\* A close that is flushed is remembered.
LEMMA FlushRemembers == ASSUME OrderInv, OrderInv', SeenInv, RememberInv, Flush PROVE RememberInv'
  <1>1. UNCHANGED <<now, up, state, settled, markers, downSince, seen>> /\ up
    BY DEF Flush, history
  <1>2. ASSUME NEW m \in Markets PROVE Remembering(m)'
    <2> DEFINE q == log[m]
               s == seen[m]
               M == markers
    <2>1. /\ q \in Seq(Record) /\ s \in Seq(Record) /\ M \in Seq(Nat) /\ now \in Nat
          /\ pending[m] \in {None} \cup [t : Nat, px : Books]
          /\ OneMarket(m) /\ Seeing(m) /\ Remembering(m)
      BY RemembersSeen
    <2>2. /\ log'[m] = IF Expired(m)
                       THEN Append(q, Entry(CloseTime(m), "CLOSE", EdgeState(pending[m].px), pending[m].px))
                       ELSE q
          /\ pending'[m] = IF Expired(m) THEN None ELSE pending[m]
          /\ lastDir'[m] = IF Expired(m) THEN None ELSE lastDir[m]
      BY DEF Flush
    <2>3. CASE ~ Expired(m)
      BY <1>1, <2>1, <2>2, <2>3 DEF Remembering, SameWay, Going
    <2>4. CASE Expired(m)
      <3> DEFINE d == Entry(CloseTime(m), "CLOSE", EdgeState(pending[m].px), pending[m].px)
      <3>1. pending[m] # None /\ pending[m].t \in Nat /\ pending[m].px \in Books /\ pending[m].t <= now
        BY <2>1, <2>4 DEF Expired, OneMarket
      <3>2. d \in Record /\ d.label = "CLOSE" /\ d.t = pending[m].t /\ Faithful(d)
        BY <3>1, EntryFaithful DEF CloseTime, Labels
      <3>3. log'[m] = Append(q, d) /\ pending'[m] = None /\ lastDir'[m] = None
        BY <2>2, <2>4
      <3> HIDE DEF d
      <3>4. EndsClosed(s, d.t) /\ InTurn(s, now) /\ KeptTrue(q, s, M) /\ Reopened(s)
        BY <2>1, <3>1, <3>2 DEF Seeing, Remembering
      <3>5. ~ (state[m] # None /\ state[m].arb)
        BY <2>1, <3>1 DEF OneMarket
      <3> HIDE DEF q, s, M
      <3>6. KeptTrue(Append(q, d), s, M)
        <4>1. Grown(M, M)
          BY <2>1, GrowsByOne
        <4> QED BY <2>1, <3>2, <3>4, <4>1, KeptStays
      <3>7. Directed(s, None, Append(q, d), M, now)
        <4>1. d.t <= now
          BY <3>1, <3>2
        <4> QED BY <2>1, <3>2, <3>4, <4>1, CloseBreaks
      <3>8. UpTo(Append(q, d), now)
        <4>1. \A i \in 1..Len(q) : q[i].t <= pending[m].t
          BY <2>1, <3>1 DEF OneMarket, Horizon, UpTo, q
        <4>2. \A i \in 1..Len(q) : q[i].t \in Nat
          BY <2>1, SeenTyped
        <4>3. /\ Len(q) \in Nat /\ Len(Append(q, d)) = Len(q) + 1 /\ Append(q, d)[Len(q) + 1] = d
              /\ \A i \in 1..Len(q) : Append(q, d)[i] = q[i]
          BY <2>1, <3>2, LogGrows
        <4>4. \A i \in 1..(Len(q) + 1) : i \in 1..Len(q) \/ i = Len(q) + 1
          BY <4>3
        <4>5. \A i \in 1..Len(q) : q[i].t <= now
          BY <2>1, <3>1, <4>1, <4>2
        <4> QED BY <3>1, <3>2, <4>3, <4>4, <4>5 DEF UpTo
      <3> QED BY <1>1, <3>3, <3>4, <3>5, <3>6, <3>7, <3>8 DEF Remembering, SameWay, Going, s, M
    <2> QED BY <2>3, <2>4
  <1> QED BY <1>2 DEF RememberInv

\* A marker, and time, take nothing away that is remembered.
LEMMA RememberUnmoved ==
  ASSUME OrderInv, SeenInv, RememberInv, UNCHANGED <<state, lastDir, pending, log, seen, settled>>, now' \in Nat, now <= now',
         markers' \in Seq(Nat), Grown(markers, markers'), Going' \in Nat, Going <= Going',
         \A m \in Markets : pending[m] # None => Going' - pending[m].t <= Window + FlushLag + 1
  PROVE  RememberInv'
  <1>1. ASSUME NEW m \in Markets PROVE Remembering(m)'
    <2> DEFINE q == log[m]
               s == seen[m]
               M == markers
               N == markers'
               d == lastDir[m]
               n == now
               n2 == now'
               g == Going
               h == Going'
    <2>1. /\ q \in Seq(Record) /\ s \in Seq(Record) /\ M \in Seq(Nat) /\ n \in Nat /\ Remembering(m) /\ g \in Nat
          /\ \A k \in 1..Len(q) : q[k].t \in Nat
      BY RemembersSeen DEF Going
    <2>2. N \in Seq(Nat) /\ Grown(M, N) /\ n2 \in Nat /\ n <= n2 /\ h \in Nat /\ g <= h
      OBVIOUS
    <2>3. KeptTrue(q, s, M) /\ UpTo(q, g) /\ (m \notin settled => Directed(s, d, q, M, n))
      BY <2>1 DEF Remembering, SameWay
    <2> HIDE DEF q, s, M, N, d, n, n2, g, h
    <2>4. KeptTrue(q, s, N)
      BY <2>1, <2>2, <2>3, KeptStays
    <2>5. UpTo(q, h)
      BY <2>1, <2>2, <2>3, UpToLater
    <2>6. m \notin settled => Directed(s, d, q, N, n2)
      <3>1. Grown(q, q)
        BY <2>1, GrowsByOne
      <3> QED BY <2>1, <2>2, <2>3, <3>1, SameWayStays
    <2>7. log'[m] = q /\ seen'[m] = s /\ lastDir'[m] = d /\ pending'[m] = pending[m] /\ state'[m] = state[m] /\ settled' = settled
      BY DEF q, s, d
    <2>8. Reopened(s)
      BY <2>1 DEF Remembering, s
    <2>9. pending[m] # None => h - pending[m].t <= Window + FlushLag + 1
      BY DEF h
    <2>10. /\ state[m] # None /\ state[m].arb =>
               Len(s) > 0 /\ s[Len(s)].label # "CLOSE" /\ s[Len(s)].dir = state[m].dir /\ d = state[m].dir
           /\ pending[m] = None /\ ~ (state[m] # None /\ state[m].arb) => d = None
      BY <2>1 DEF Remembering, s, d
    <2>11. KeptTrue(log'[m], seen'[m], markers') /\ UpTo(log'[m], Going') /\ (m \notin settled' => SameWay(m)')
      BY <2>4, <2>5, <2>6, <2>7 DEF SameWay, N, n2, h
    <2>12. pending'[m] # None => Going' - pending'[m].t <= Window + FlushLag + 1
      BY <2>7, <2>9 DEF h
    <2> HIDE DEF SameWay, Going
    <2> QED BY <2>7, <2>8, <2>10, <2>11, <2>12 DEF Remembering
  <1> QED BY <1>1 DEF RememberInv

\* A process that boots remembers nothing, and its marker is behind all that was seen.
LEMMA BootRemembers == ASSUME BootTicks >= TicksPerSecond, OrderInv, SeenInv, RememberInv, Boot PROVE RememberInv'
  <1>1. /\ ~ up /\ now >= downSince + BootTicks /\ up' = TRUE /\ state' = [m \in Markets |-> None]
        /\ lastDir' = [m \in Markets |-> None] /\ pending' = [m \in Markets |-> None]
        /\ Mark /\ UNCHANGED <<now, log, settled, downSince, seen>>
    BY DEF Boot, history
  <1>2. /\ markers' \in Seq(Nat) /\ Grown(markers, markers') /\ Stamp \in Nat
        /\ Len(markers') \in 1..Len(markers') /\ markers'[Len(markers')] = Stamp
    BY <1>1, MarkersGrow
  <1>3. now \in Nat /\ downSince \in Nat /\ downSince < Stamp /\ Stamp <= now
    BY <1>1, StampIsLate DEF OrderInv, EpisodesTypeOK
  <1>4. ASSUME NEW m \in Markets PROVE Remembering(m)'
    <2> DEFINE q == log[m]
               s == seen[m]
               M == markers
               N == markers'
    <2>1. /\ q \in Seq(Record) /\ s \in Seq(Record) /\ M \in Seq(Nat) /\ Remembering(m) /\ Seeing(m) /\ UpTo(q, now)
          /\ \A i \in 1..Len(s) : s[i].t \in Nat
      BY RemembersSeen
    <2>2. log'[m] = q /\ seen'[m] = s /\ lastDir'[m] = None /\ pending'[m] = None /\ state'[m] = None /\ Going' = now
      BY <1>1 DEF Going
    <2>3. KeptTrue(q, s, M) /\ Reopened(s)
      BY <2>1 DEF Remembering
    <2>4. KeptTrue(q, s, N)
      <3>1. N \in Seq(Nat) /\ Grown(M, N)
        BY <1>2
      <3> HIDE DEF q, s, M, N
      <3> QED BY <2>1, <2>3, <3>1, KeptStays
    <2>5. ASSUME NEW i \in 1..Len(s) PROVE Broken(q, N, s[i].t, now)
      <3>1. s[i].t <= downSince /\ s[i].t \in Nat
        BY <1>1, <2>1 DEF Seeing, InTurn
      <3>2. s[i].t < N[Len(N)] /\ N[Len(N)] <= now /\ Len(N) \in 1..Len(N)
        BY <1>2, <1>3, <3>1
      <3> QED BY <3>2 DEF Broken
    <2>6. Directed(s, None, q, N, now)
      BY <2>5 DEF Directed
    <2>7. SameWay(m)'
      BY <1>1, <2>2, <2>6 DEF SameWay
    <2>8. KeptTrue(log'[m], seen'[m], markers') /\ Reopened(seen'[m]) /\ UpTo(log'[m], Going')
      BY <2>1, <2>2, <2>3, <2>4
    <2> HIDE DEF SameWay, Going
    <2> QED BY <2>2, <2>7, <2>8 DEF Remembering
  <1> QED BY <1>4 DEF RememberInv

\* However long the flusher sleeps, with restarts that take a second, the trackers remember in every reachable state.
LEMMA RememberAlways ==
  ASSUME BootTicks >= TicksPerSecond
  PROVE  Spec => []RememberInv
  <1>1. Init => RememberInv
    <2> SUFFICES ASSUME Init PROVE RememberInv
      OBVIOUS
    <2>1. /\ pending = [m \in Markets |-> None] /\ log = [m \in Markets |-> <<>>] /\ seen = [m \in Markets |-> <<>>]
          /\ state = [m \in Markets |-> None] /\ lastDir = [m \in Markets |-> None]
      BY DEF Init
    <2>2. ASSUME NEW m \in Markets PROVE Remembering(m)
      <3>1. Len(log[m]) = 0 /\ Len(seen[m]) = 0 /\ pending[m] = None /\ state[m] = None /\ lastDir[m] = None
        BY <2>1
      <3>2. KeptTrue(log[m], seen[m], markers) /\ Reopened(seen[m]) /\ UpTo(log[m], Going) /\ SameWay(m)
        BY <3>1 DEF KeptTrue, Witnessed, Recorded, Turned, Steady, Reopened, UpTo, SameWay, Directed
      <3> QED BY <3>1, <3>2 DEF Remembering
    <2> QED BY <2>2 DEF RememberInv
  <1>2. OrderInv /\ OrderInv' /\ SeenInv /\ RememberInv /\ [Next]_vars => RememberInv'
    <2> SUFFICES ASSUME OrderInv, OrderInv', SeenInv, RememberInv, [Next]_vars PROVE RememberInv'
      OBVIOUS
    <2>1. /\ now \in Nat /\ markers \in Seq(Nat) /\ Grown(markers, markers) /\ downSince \in Nat /\ up \in BOOLEAN
          /\ pending \in [Markets -> {None} \cup [t : Nat, px : Books]] /\ state \in [Markets -> EdgeStates \cup {None}]
          /\ lastDir \in [Markets -> Dirs \cup {None}] /\ Window \in Nat /\ FlushLag \in Nat /\ Going \in Nat /\ downSince <= now
      BY GrowsByOne, EpisodesAssumption DEF OrderInv, EpisodesTypeOK, SeenInv, Going
    <2>2. \A m \in Markets : pending[m] # None => pending[m].t \in Nat /\ Going - pending[m].t <= Window + FlushLag + 1
      BY <2>1 DEF RememberInv, Remembering
    <2>3. ASSUME NEW m \in Markets, Frame(m) PROVE RememberInv'
      <3>1. PICK px \in Books : FrameOf(m, px)
        BY <2>3 DEF Frame, FrameOf
      <3>2. /\ UNCHANGED <<now, up, settled, markers, downSince>> /\ m \notin settled /\ up /\ OwnTime(m) /\ ~ Overdue(m)
        BY <2>3 DEF Frame
      <3>3. FrameTells(m, px)
        BY <3>1, FrameTellsIt DEF OrderInv
      <3>4. \A k \in Markets : Remembering(k)'
        BY <3>2, <3>3, FrameRemembers
      <3> QED BY <3>4 DEF RememberInv
    <2>4. ASSUME NEW m \in Markets, Teardown(m) PROVE RememberInv'
      <3>1. /\ settled' = settled \cup {m} /\ pending' = [pending EXCEPT ![m] = None]
            /\ state' = [state EXCEPT ![m] = None] /\ lastDir' = [lastDir EXCEPT ![m] = None]
            /\ UNCHANGED <<now, up, log, markers, downSince, seen>>
        BY <2>4 DEF Teardown, history
      <3>2. ASSUME NEW k \in Markets PROVE Remembering(k)'
        <4>1. Remembering(k) /\ Going' = Going
          BY <3>1 DEF RememberInv, Going
        <4>2. CASE k = m
          <5>1. pending'[k] = None /\ state'[k] = None /\ lastDir'[k] = None /\ k \in settled'
            BY <2>1, <3>1, <4>2
          <5> HIDE DEF Going
          <5> QED BY <3>1, <4>1, <5>1 DEF Remembering
        <4>3. CASE k # m
          <5>1. pending'[k] = pending[k] /\ state'[k] = state[k] /\ lastDir'[k] = lastDir[k] /\ (k \in settled' <=> k \in settled)
            BY <2>1, <3>1, <4>3
          <5>2. SameWay(k)' <=> SameWay(k)
            BY <3>1, <5>1 DEF SameWay
          <5> HIDE DEF SameWay, Going
          <5> QED BY <3>1, <4>1, <5>1, <5>2 DEF Remembering
        <4> QED BY <4>2, <4>3
      <3> QED BY <3>2 DEF RememberInv
    <2>5. CASE Flush
      BY <2>5, FlushRemembers
    <2>6. CASE Tick
      <3>1. now' = now + 1 /\ UNCHANGED <<up, state, lastDir, pending, log, settled, markers, downSince, seen>>
            /\ \A m \in Markets : ~ (up /\ Overdue(m))
        BY <2>6 DEF Tick, coreVars, history
      <3>2. now' \in Nat /\ now <= now' /\ Going' \in Nat /\ Going <= Going'
        BY <2>1, <3>1 DEF Going
      <3>3. ASSUME NEW m \in Markets, pending[m] # None PROVE Going' - pending[m].t <= Window + FlushLag + 1
        <4>1. CASE up
          <5>1. ~ (now - pending[m].t > Window + FlushLag) /\ Going' = now + 1 /\ pending[m].t \in Nat
            BY <2>2, <3>1, <3>3, <4>1 DEF Overdue, Going
          <5> QED BY <2>1, <5>1
        <4>2. CASE ~ up
          <5>1. Going' = Going
            BY <3>1, <4>2 DEF Going
          <5> QED BY <2>2, <3>3, <5>1
        <4> QED BY <4>1, <4>2
      <3> HIDE DEF Going
      <3> QED BY <2>1, <3>1, <3>2, <3>3, RememberUnmoved
    <2>7. CASE Reconnect
      <3>1. Mark /\ UNCHANGED <<now, up, state, lastDir, pending, log, settled, downSince, seen>>
        BY <2>7 DEF Reconnect, coreVars, history
      <3>2. Grown(markers, markers') /\ markers' \in Seq(Nat)
        BY <3>1, MarkersGrow
      <3>3. Going' = Going /\ now' \in Nat /\ now <= now' /\ Going <= Going'
        BY <2>1, <3>1 DEF Going
      <3> HIDE DEF Going
      <3> QED BY <2>1, <2>2, <3>1, <3>2, <3>3, RememberUnmoved
    <2>8. CASE Crash
      <3>1. up /\ up' = FALSE /\ downSince' = now /\ UNCHANGED <<now, state, lastDir, pending, log, settled, markers, seen>>
        BY <2>8 DEF Crash
      <3>2. Going' = Going /\ now' \in Nat /\ now <= now' /\ Going <= Going' /\ markers' \in Seq(Nat) /\ Grown(markers, markers')
        BY <2>1, <3>1 DEF Going
      <3> HIDE DEF Going
      <3> QED BY <2>1, <2>2, <3>1, <3>2, RememberUnmoved
    <2>9. CASE Boot
      BY <2>9, BootRemembers
    <2>10. CASE UNCHANGED vars
      <3>1. UNCHANGED <<now, up, state, lastDir, pending, log, settled, markers, downSince, seen>>
        BY <2>10 DEF vars, coreVars, history
      <3>2. Going' = Going /\ now' \in Nat /\ now <= now' /\ Going <= Going' /\ markers' \in Seq(Nat) /\ Grown(markers, markers')
        BY <2>1, <3>1 DEF Going
      <3> HIDE DEF Going
      <3> QED BY <2>1, <2>2, <3>1, <3>2, RememberUnmoved
    <2> QED BY <2>3, <2>4, <2>5, <2>6, <2>7, <2>8, <2>9, <2>10 DEF Next
  <1>3. Spec => []SeenInv
    BY SeenAlways
  <1> QED BY <1>1, <1>2, <1>3, OrderAlways, PTL DEF Spec

\* Numbers up to a bound have a greatest.
LEMMA GreatestNumber ==
  ASSUME NEW S \in SUBSET Nat, NEW b \in Nat, \A x \in S : x <= b, S # {}
  PROVE  \E x \in S : \A y \in S : y <= x
  <1> DEFINE T == {b - x : x \in S}
  <1>1. T \in SUBSET Int /\ T # {} /\ T \subseteq 0..b
    <2>1. ASSUME NEW y \in T PROVE y \in Int /\ y \in 0..b
      <3>1. PICK x \in S : y = b - x
        OBVIOUS
      <3>2. x \in Nat /\ x <= b
        OBVIOUS
      <3> QED BY <3>1, <3>2
    <2>2. T # {}
      OBVIOUS
    <2> HIDE DEF T
    <2> QED BY <2>1, <2>2
  <1>2. IsFiniteSet(T)
    <2>1. IsFiniteSet(0..b)
      <3>1. 0 \in Int /\ b \in Int
        OBVIOUS
      <3> QED BY <3>1, FS_Interval
    <2> QED BY <1>1, <2>1, FS_Subset
  <1>3. PICK z \in T : \A y \in T : z <= y
    <2> HIDE DEF T
    <2> QED BY <1>1, <1>2, LeastNumber
  <1>4. PICK x \in S : z = b - x
    BY <1>3
  <1>5. ASSUME NEW y \in S PROVE y <= x
    <2>1. b - y \in T
      OBVIOUS
    <2>2. b - x <= b - y
      BY <1>3, <1>4, <2>1
    <2> QED BY <2>2
  <1> QED BY <1>5

\* A set of numbers has a least.
LEMMA LeastOfMany ==
  ASSUME NEW S \in SUBSET Nat, S # {}
  PROVE  \E x \in S : \A y \in S : x <= y
  <1>1. PICK b \in S : TRUE
    OBVIOUS
  <1> DEFINE T == {x \in S : x <= b}
  <1>2. T \in SUBSET Int /\ T # {} /\ T \subseteq 0..b /\ b \in Nat
    <2>1. b \in Nat /\ b \in T
      BY <1>1
    <2>2. ASSUME NEW y \in T PROVE y \in Int /\ y \in 0..b
      <3>1. y \in Nat /\ y <= b
        OBVIOUS
      <3> QED BY <2>1, <3>1
    <2> HIDE DEF T
    <2> QED BY <2>1, <2>2
  <1>3. IsFiniteSet(T)
    <2>1. IsFiniteSet(0..b)
      <3>1. 0 \in Int /\ b \in Int
        BY <1>2
      <3> QED BY <3>1, FS_Interval
    <2> QED BY <1>2, <2>1, FS_Subset
  <1>4. PICK z \in T : \A y \in T : z <= y
    <2> HIDE DEF T
    <2> QED BY <1>2, <1>3, LeastNumber
  <1> QED BY <1>1, <1>4

\* A log in order is in order from any record to any later one.
LEMMA LaterInOrder ==
  ASSUME NEW q \in Seq(Record), InOrder(q), NEW i \in 1..Len(q), NEW j \in 1..Len(q), i <= j
  PROVE  q[i].t <= q[j].t
  <1> DEFINE N == j - i
             G == {n \in 0..N : q[i].t <= q[i + n].t}
  <1>1. Len(q) \in Nat /\ N \in Nat /\ \A k \in 1..Len(q) : q[k].t \in Nat
    BY SeenTyped
  <1>2. 0 \in G
    BY <1>1
  <1>3. \A n \in 0..(N - 1) : n \in G => n + 1 \in G
    <2> SUFFICES ASSUME NEW n \in 0..(N - 1), n \in G PROVE n + 1 \in G
      OBVIOUS
    <2>1. i + n \in 1..(Len(q) - 1) /\ i + n \in 1..Len(q) /\ (i + n) + 1 \in 1..Len(q) /\ n + 1 \in 0..N /\ i + (n + 1) = (i + n) + 1
      BY <1>1
    <2>2. q[i + n].t <= q[(i + n) + 1].t
      BY <2>1 DEF InOrder
    <2>3. q[i].t \in Nat /\ q[i + n].t \in Nat /\ q[(i + n) + 1].t \in Nat /\ q[i].t <= q[i + n].t
      BY <1>1, <2>1
    <2> DEFINE x == q[i].t
               y == q[i + n].t
               z == q[(i + n) + 1].t
    <2>4. x <= z
      <3>1. x \in Nat /\ y \in Nat /\ z \in Nat /\ x <= y /\ y <= z
        BY <2>2, <2>3
      <3> HIDE DEF x, y, z
      <3> QED BY <3>1
    <2> QED BY <2>1, <2>4
  <1>4. N \in 0..N /\ i + N = j
    BY <1>1
  <1> HIDE DEF G, N
  <1>5. N \in G
    BY ONLY <1>1, <1>2, <1>3, <1>4, Climb
  <1> QED BY <1>4, <1>5 DEF G

\* What holds of the log, of what was seen, and of what is remembered.
Remembered == OrderInv /\ SeenInv /\ RememberInv

\* What of it holds of a market.
LEMMA RememberedOf ==
  ASSUME Remembered, NEW m \in Markets
  PROVE  /\ EpisodesTypeOK /\ log[m] \in Seq(Record) /\ seen[m] \in Seq(Record) /\ markers \in Seq(Nat)
         /\ DOMAIN log[m] = 1..Len(log[m]) /\ DOMAIN seen[m] = 1..Len(seen[m]) /\ DOMAIN markers = 1..Len(markers)
         /\ Len(log[m]) \in Nat /\ Len(seen[m]) \in Nat /\ Len(markers) \in Nat
         /\ now \in Nat /\ Going \in Nat /\ Going <= now
         /\ InOrder(log[m]) /\ UpTo(log[m], Going) /\ InTurn(seen[m], now)
         /\ KeptTrue(log[m], seen[m], markers) /\ Reopened(seen[m])
         /\ WasSeen(log[m], seen[m]) /\ GapsShown(log[m], seen[m], markers)
         /\ \A k \in 1..Len(log[m]) : log[m][k].t \in Nat /\ log[m][k] \in Record
         /\ \A k \in 1..Len(seen[m]) : seen[m][k].t \in Nat /\ seen[m][k] \in Record
         /\ \A k \in 1..Len(markers) : markers[k] \in Nat
  <1>1. /\ EpisodesTypeOK /\ log[m] \in Seq(Record) /\ seen[m] \in Seq(Record) /\ markers \in Seq(Nat) /\ now \in Nat
        /\ downSince \in Nat /\ downSince <= now /\ up \in BOOLEAN
        /\ OneMarket(m) /\ Seeing(m) /\ Remembering(m)
    BY RemembersSeen DEF Remembered, OrderInv
  <1>2. Going \in Nat /\ Going <= now
    BY <1>1 DEF Going
  <1>3. /\ InOrder(log[m]) /\ UpTo(log[m], Going) /\ InTurn(seen[m], now)
        /\ KeptTrue(log[m], seen[m], markers) /\ Reopened(seen[m])
        /\ WasSeen(log[m], seen[m]) /\ GapsShown(log[m], seen[m], markers)
    BY <1>1 DEF OneMarket, Seeing, Remembering
  <1>4. \A k \in 1..Len(log[m]) : log[m][k].t \in Nat /\ log[m][k] \in Record
    BY <1>1, SeenTyped
  <1>5. \A k \in 1..Len(seen[m]) : seen[m][k].t \in Nat /\ seen[m][k] \in Record
    BY <1>1, SeenTyped
  <1> QED BY <1>1, <1>2, <1>3, <1>4, <1>5

\* The end of the data is the time of the last record of all.
LEMMA LastIsLast ==
  ASSUME Remembered, NEW m \in Markets, NEW i \in 1..Len(log[m])
  PROVE  LastT \in Nat /\ LastT <= Going /\ log[m][i].t <= LastT
  <1> DEFINE T == UNION {{log[k][j].t : j \in DOMAIN log[k]} : k \in Markets}
  <1>1. \A k \in Markets : /\ DOMAIN log[k] = 1..Len(log[k]) /\ UpTo(log[k], Going)
                           /\ \A j \in 1..Len(log[k]) : log[k][j].t \in Nat
    BY RememberedOf
  <1>2. Going \in Nat
    BY RememberedOf
  <1>3. T \in SUBSET Nat /\ (\A x \in T : x <= Going) /\ log[m][i].t \in T
    BY <1>1 DEF UpTo
  <1>4. LastT = CHOOSE t \in T : \A u \in T : u <= t
    BY DEF LastT
  <1> HIDE DEF T
  <1>5. \E t \in T : \A u \in T : u <= t
    BY <1>2, <1>3, GreatestNumber
  <1> QED BY <1>3, <1>4, <1>5

\* An event has a time.
LEMMA EventTyped == ASSUME EpisodesTypeOK, NEW m \in Markets, NEW c \in Events(m) PROVE c.t \in Nat
  <1>1. \A r \in Record : r.t \in Nat
    BY DEF Record
  <1>2. CASE IsMark(m, c)
    <2>1. PICK i \in 1..Len(markers) : c = Event(markers[i], 0, "MARK", i)
      BY <1>2 DEF IsMark
    <2> QED BY <2>1 DEF Event, EpisodesTypeOK
  <1>3. CASE IsRecord(m, c)
    <2>1. PICK i \in 1..Len(log[m]) : c = Event(log[m][i].t, 1, log[m][i].label, i)
      BY <1>3 DEF IsRecord
    <2>2. log[m] \in Seq(Record)
      BY DEF EpisodesTypeOK
    <2>3. log[m][i].t \in Nat
      BY <2>2, SeenTyped
    <2> QED BY <2>1, <2>3 DEF Event
  <1> QED BY <1>2, <1>3, EventsAre

\* The opening an episode begins with.
LEMMA SpanBegins ==
  ASSUME EpisodesTypeOK, NEW m \in Markets, NEW e, NEW p, NEW q, Span(m, e, p, q)
  PROVE  LET o == Timeline(m)[p]
         IN  /\ o \in Events(m) /\ o.label = "OPEN" /\ o.t = e.open_t /\ o.order = 1 /\ e.market = m
             /\ o.i \in 1..Len(log[m]) /\ log[m][o.i].t = e.open_t /\ log[m][o.i].label = "OPEN"
             /\ log[m][o.i].net = e.open_net /\ log[m][o.i].px.c2 = e.open_c2 /\ e.open_t \in Nat
  <1> DEFINE L == Timeline(m)
             o == L[p]
  <1>1. /\ p \in 1..Len(L) /\ e.market = m /\ o.label = "OPEN" /\ o.t = e.open_t
        /\ e.open_net = log[m][o.i].net /\ e.open_c2 = log[m][o.i].px.c2
    BY DEF Span, Begun, BeginsAt
  <1>2. o \in Events(m)
    BY <1>1, TimelineOrders
  <1> HIDE DEF o
  <1>3. /\ o.i \in 1..Len(log[m]) /\ log[m][o.i].t = o.t /\ log[m][o.i].label = "OPEN" /\ o.order = 1 /\ log[m][o.i] \in Record
    BY <1>1, <1>2, OpeningIs
  <1>4. log[m][o.i].t \in Nat
    BY <1>3 DEF Record
  <1> QED BY <1>1, <1>2, <1>3, <1>4 DEF o

\* A marker or a close behind its opening ends an episode, if nothing has before.
LEMMA SpanEndsBy ==
  ASSUME EpisodesTypeOK, NEW m \in Markets, NEW e, NEW p, NEW q, Span(m, e, p, q),
         NEW c \in Events(m), c.label \in {"MARK", "CLOSE"}, Earlier(Timeline(m)[p], c)
  PROVE  e.censored # "eod" /\ e.close_t <= c.t
  <1> DEFINE L == Timeline(m)
             N == Len(L)
  <1>1. /\ p \in 1..N /\ q \in 1..(N + 1) /\ Goes(L, p, q) /\ N \in Nat
        /\ IF q = N + 1 THEN e.censored = "eod" /\ e.close_t = LastT ELSE Ends(L, e, q)
    BY TimelineOrders DEF Span
  <1>2. q # N + 1
    BY <1>1, NothingBetween
  <1>3. q \in 1..N /\ Ends(L, e, q)
    BY <1>1, <1>2
  <1>4. ~ Earlier(c, L[q])
    BY <1>1, <1>3, NothingBetween
  <1>5. L[q].t = e.close_t /\ e.censored # "eod"
    BY <1>3 DEF Ends
  <1>6. L[q] \in Events(m)
    BY <1>3, TimelineOrders
  <1>7. L[q].t \in Int /\ c.t \in Int
    BY <1>6, EventTyped
  <1>8. ~ (c.t < L[q].t)
    BY <1>4 DEF Earlier
  <1> QED BY <1>5, <1>7, <1>8

\* An episode ends when it has begun, or later; a marker behind its opening ends it, or a close.
LEMMA EpisodeEnds ==
  ASSUME Remembered, NEW m \in Markets, NEW e \in EpisodesOf(m)
  PROVE  /\ e.market = m /\ e.open_t \in Nat /\ e.close_t \in Nat /\ e.open_t <= e.close_t
         /\ \E i \in 1..Len(log[m]) : log[m][i].label = "OPEN" /\ log[m][i].t = e.open_t
                                      /\ log[m][i].net = e.open_net /\ log[m][i].px.c2 = e.open_c2
         /\ \A i \in 1..Len(markers) : e.open_t < markers[i] => e.censored # "eod" /\ e.close_t <= markers[i]
         /\ \A i \in 1..Len(log[m]) : log[m][i].label = "CLOSE" /\ e.open_t < log[m][i].t =>
              e.censored # "eod" /\ e.close_t <= log[m][i].t
         /\ e.censored \in {"none", "eod", "restart"}
         /\ e.censored = "none" => \E k \in 1..Len(seen[m]) : seen[m][k].label = "CLOSE" /\ seen[m][k].t = e.close_t
         /\ e.censored = "eod" => e.close_t = LastT /\ e.close_t <= Going
  <1> DEFINE L == Timeline(m)
             N == Len(L)
  <1>1. EpisodesTypeOK
    BY RememberedOf
  <1>2. PICK p, q : Span(m, e, p, q)
    BY <1>1, EpisodesSpan
  <1> DEFINE o == L[p]
  <1>3. /\ o \in Events(m) /\ o.label = "OPEN" /\ o.t = e.open_t /\ o.order = 1 /\ e.market = m
        /\ o.i \in 1..Len(log[m]) /\ log[m][o.i].t = e.open_t /\ log[m][o.i].label = "OPEN"
        /\ log[m][o.i].net = e.open_net /\ log[m][o.i].px.c2 = e.open_c2 /\ e.open_t \in Nat
    BY <1>1, <1>2, SpanBegins
  <1>4. /\ p \in 1..N /\ q \in 1..(N + 1) /\ p < q /\ N \in Nat
        /\ IF q = N + 1 THEN e.censored = "eod" /\ e.close_t = LastT ELSE Ends(L, e, q)
    BY <1>1, <1>2, TimelineOrders DEF Span
  <1>5. ASSUME NEW i \in 1..Len(markers), e.open_t < markers[i] PROVE e.censored # "eod" /\ e.close_t <= markers[i]
    <2> DEFINE c == Event(markers[i], 0, "MARK", i)
    <2>1. c \in Events(m)
      BY <1>1, EventsAre
    <2>2. c.label = "MARK" /\ c.t = markers[i]
      BY DEF Event
    <2> HIDE DEF c
    <2>3. Earlier(o, c)
      BY <1>3, <1>5, <2>2 DEF Earlier
    <2> QED BY <1>1, <1>2, <2>1, <2>2, <2>3, SpanEndsBy
  <1>6. ASSUME NEW i \in 1..Len(log[m]), log[m][i].label = "CLOSE", e.open_t < log[m][i].t
        PROVE  e.censored # "eod" /\ e.close_t <= log[m][i].t
    <2> DEFINE c == Event(log[m][i].t, 1, log[m][i].label, i)
    <2>1. c \in Events(m)
      BY <1>1, EventsAre
    <2>2. c.label = "CLOSE" /\ c.t = log[m][i].t
      BY <1>6 DEF Event
    <2> HIDE DEF c
    <2>3. Earlier(o, c)
      BY <1>3, <1>6, <2>2 DEF Earlier
    <2> QED BY <1>1, <1>2, <2>1, <2>2, <2>3, SpanEndsBy
  <1> HIDE DEF o
  <1>7. CASE q = N + 1
    <2>1. e.censored = "eod" /\ e.close_t = LastT
      BY <1>4, <1>7
    <2>2. LastT \in Nat /\ LastT <= Going /\ log[m][o.i].t <= LastT
      BY <1>3, LastIsLast
    <2> QED BY <1>3, <1>5, <1>6, <2>1, <2>2
  <1>8. CASE q # N + 1
    <2> DEFINE d == L[q]
    <2>1. q \in 1..N /\ Ends(L, e, q)
      BY <1>4, <1>8
    <2>2. d \in Events(m) /\ Earlier(L[p], d) /\ d.t = e.close_t
      BY <1>1, <1>4, <2>1, TimelineOrders DEF Ends
    <2>3. d.t \in Nat /\ o.t <= d.t
      <3>1. d.t \in Nat /\ o.t \in Nat
        BY <1>1, <1>3, <2>2, EventTyped
      <3>2. Earlier(o, d)
        BY <2>2 DEF o
      <3> HIDE DEF d
      <3> QED BY <3>1, <3>2 DEF Earlier
    <2>4. e.censored \in {"none", "restart"} /\ (e.censored = "none" => d.label = "CLOSE")
      BY <2>1 DEF Ends
    <2> HIDE DEF d
    <2>5. e.censored = "none" => \E k \in 1..Len(seen[m]) : seen[m][k].label = "CLOSE" /\ seen[m][k].t = e.close_t
      <3> SUFFICES ASSUME d.label = "CLOSE" PROVE \E k \in 1..Len(seen[m]) : seen[m][k].label = "CLOSE" /\ seen[m][k].t = e.close_t
        BY <2>4
      <3>1. Saw(seen[m], d.t, "CLOSE")
        BY <1>1, <2>2, EndWasSeen DEF Remembered
      <3> QED BY <2>2, <3>1 DEF Saw
    <2>6. e.censored # "eod"
      BY <2>4
    <2> QED BY <1>3, <1>5, <1>6, <2>2, <2>3, <2>4, <2>5, <2>6
  <1> QED BY <1>7, <1>8

\* The episodes of a market follow one another.
LEMMA EpisodesApart ==
  ASSUME Remembered, NEW m \in Markets, NEW e \in EpisodesOf(m), NEW f \in EpisodesOf(m), e.open_t < f.open_t
  PROVE  e.close_t <= f.open_t
  <1> DEFINE L == Timeline(m)
             N == Len(L)
  <1>1. EpisodesTypeOK
    BY RememberedOf
  <1>2. PICK p, q : Span(m, e, p, q)
    BY <1>1, EpisodesSpan
  <1>3. PICK a, b : Span(m, f, a, b)
    BY <1>1, EpisodesSpan
  <1>4. /\ p \in 1..N /\ a \in 1..N /\ Fresh(L, a) /\ N \in Nat
        /\ \A i, j \in 1..N : i < j <=> Earlier(L[i], L[j])
    BY <1>1, <1>2, <1>3, TimelineOrders DEF Span, Begun
  <1>5. L[p].label = "OPEN" /\ L[p].t = e.open_t /\ L[a].t = f.open_t
    BY <1>1, <1>2, <1>3, SpanBegins
  <1>6. p < a
    <2>1. Earlier(L[p], L[a])
      BY <1>5 DEF Earlier
    <2> QED BY <1>4, <2>1
  <1>7. PICK j \in (p + 1)..(a - 1) : L[j].label \in {"MARK", "CLOSE"}
    <2>1. p \in 1..(a - 1)
      BY <1>4, <1>6
    <2> QED BY <1>4, <1>5, <2>1 DEF Fresh
  <1>8. j \in 1..N /\ p < j /\ j < a
    BY <1>4
  <1>9. Earlier(L[p], L[j]) /\ Earlier(L[j], L[a]) /\ L[j] \in Events(m) /\ L[a] \in Events(m)
    BY <1>1, <1>4, <1>8, TimelineOrders
  <1> DEFINE c == L[j]
  <1>10. c \in Events(m) /\ c.label \in {"MARK", "CLOSE"} /\ Earlier(L[p], c) /\ Earlier(c, L[a])
    BY <1>7, <1>9
  <1> HIDE DEF c
  <1>11. e.close_t <= c.t
    BY <1>1, <1>2, <1>10, SpanEndsBy
  <1>12. c.t <= L[a].t /\ c.t \in Nat /\ L[a].t \in Nat
    <2>1. c.t \in Nat /\ L[a].t \in Nat
      BY <1>1, <1>9, <1>10, EventTyped
    <2> QED BY <1>10, <2>1 DEF Earlier
  <1>13. e.close_t \in Nat
    BY EpisodeEnds
  <1> QED BY <1>5, <1>11, <1>12, <1>13

\* Two records of a log that tell the same of one moment are the same.
LEMMA SameMoment ==
  ASSUME NEW q \in Seq(Record), NEW s \in Seq(Record), NEW M, NEW n, KeptTrue(q, s, M), InTurn(s, n),
         NEW i \in 1..Len(q), NEW j \in 1..Len(q), q[i].t = q[j].t, q[i].label = q[j].label, q[i].label # "CLOSE"
  PROVE  q[i] = q[j]
  <1>1. PICK a \in 1..Len(s) : Told1(q[i], s[a])
    BY DEF KeptTrue, Witnessed
  <1>2. PICK b \in 1..Len(s) : Told1(q[j], s[b])
    BY DEF KeptTrue, Witnessed
  <1>3. a = b
    <2>1. s[a].t = s[b].t /\ s[a].t \in Nat
      BY <1>1, <1>2, SeenTyped DEF Told1
    <2>2. ~ (a < b) /\ ~ (b < a)
      BY <2>1 DEF InTurn
    <2> QED BY <2>2
  <1>4. q[i].px = q[j].px
    BY <1>1, <1>2, <1>3 DEF Told1
  <1>5. q[i] = Entry(q[i].t, q[i].label, EdgeState(q[i].px), q[i].px) /\ q[j] = Entry(q[j].t, q[j].label, EdgeState(q[j].px), q[j].px)
    BY DEF KeptTrue, Faithful
  <1> QED BY <1>4, <1>5

\* An edge that is there pays.
LEMMA EdgePays == ASSUME NEW b \in Books, EdgeState(b).arb PROVE EdgeState(b).net > 0
  <1> DEFINE opts == {d \in Dirs : Quoted(b, d) /\ ~ Stale(b)}
             best == IF "P" \in opts /\ \A d \in opts : NetOf(b, "P") >= NetOf(b, d) THEN "P" ELSE "K"
  <1>1. EdgeState(b) = IF opts = {} THEN [arb |-> FALSE, dir |-> "P", net |-> 0]
                       ELSE [arb |-> NetOf(b, best) > 0, dir |-> best, net |-> NetOf(b, best)]
    BY DEF EdgeState
  <1> DEFINE n == NetOf(b, best)
  <1> DEFINE z == n > 0
  <1>2. EdgeState(b) = IF opts = {} THEN [arb |-> FALSE, dir |-> "P", net |-> 0]
                       ELSE [arb |-> z, dir |-> best, net |-> n]
    BY <1>1
  <1> HIDE DEF opts, n, best, z
  <1>3. CASE opts = {}
    BY <1>2, <1>3
  <1>4. CASE opts # {}
    <2>1. EdgeState(b) = [arb |-> z, dir |-> best, net |-> n]
      BY <1>2, <1>4
    <2>2. EdgeState(b).arb = z
      BY <2>1
    <2>3. EdgeState(b).net = n
      BY <2>1
    <2>4. z
      BY <2>2
    <2>5. n > 0
      BY <2>4 DEF z
    <2> QED BY <2>3, <2>5
  <1> QED BY <1>3, <1>4

\* What an edge is worth is logged with it, and seen.
LEMMA RecordsPay ==
  ASSUME NEW r \in Record, Faithful(r)
  PROVE  /\ r.dir = EdgeState(r.px).dir /\ r.net = EdgeState(r.px).net /\ r.px \in Books /\ r.net \in Int /\ r.t \in Nat
         /\ r.label # "CLOSE" => EdgeState(r.px).arb /\ r.net > 0
  <1>1. r.px \in Books /\ r.net \in Int /\ r.t \in Nat
    BY DEF Record
  <1>2. r = Entry(r.t, r.label, EdgeState(r.px), r.px) /\ (r.label # "CLOSE" => EdgeState(r.px).arb)
    BY DEF Faithful
  <1>3. r.dir = EdgeState(r.px).dir /\ r.net = EdgeState(r.px).net
    BY <1>2 DEF Entry
  <1> QED BY <1>1, <1>2, <1>3, EdgePays

\* An episode was entered when the k-th thing seen of its market was seen.
EnteredAt(m, e, k) ==
  /\ k \in 1..Len(seen[m]) /\ seen[m][k] = EntryRecord(m, e) /\ seen[m][k].label = "OPEN" /\ seen[m][k].t = e.open_t
  /\ seen[m][k].net = e.open_net /\ seen[m][k].px.c2 = e.open_c2 /\ Faithful(seen[m][k])

\* The record of its entry is the opening it begins with, and was seen.
LEMMA EntryIs ==
  ASSUME Remembered, NEW m \in Markets, NEW e \in EpisodesOf(m)
  PROVE  \E k : EnteredAt(m, e, k)
  <1> DEFINE q == log[m]
             s == seen[m]
             opens == {i \in DOMAIN q : q[i].label = "OPEN" /\ q[i].t <= e.open_t}
  <1>1. /\ q \in Seq(Record) /\ s \in Seq(Record) /\ DOMAIN q = 1..Len(q) /\ Len(q) \in Nat
        /\ InOrder(q) /\ InTurn(s, now) /\ KeptTrue(q, s, markers)
        /\ \A i \in 1..Len(q) : q[i].t \in Nat /\ q[i] \in Record
        /\ \A i \in 1..Len(s) : s[i].t \in Nat /\ s[i] \in Record
    BY RememberedOf
  <1>2. PICK i \in 1..Len(q) : q[i].label = "OPEN" /\ q[i].t = e.open_t /\ q[i].net = e.open_net /\ q[i].px.c2 = e.open_c2
    BY EpisodeEnds
  <1>3. EntryRecord(m, e) = q[CHOOSE j \in opens : \A k \in opens : k <= j]
    BY DEF EntryRecord
  <1>4. i \in opens /\ opens \in SUBSET Nat /\ opens # {} /\ \A j \in opens : j <= Len(q)
    BY <1>1, <1>2
  <1> HIDE DEF opens
  <1>5. \E j \in opens : \A k \in opens : k <= j
    BY <1>1, <1>4, GreatestNumber
  <1>6. PICK j \in opens : EntryRecord(m, e) = q[j] /\ i <= j
    BY <1>3, <1>4, <1>5
  <1>7. j \in 1..Len(q) /\ q[j].label = "OPEN" /\ q[j].t <= e.open_t
    BY <1>1 DEF opens
  <1> HIDE DEF q, s
  <1>8. q[j] = q[i]
    <2>1. q[i].t <= q[j].t
      BY <1>1, <1>6, <1>7, LaterInOrder
    <2>2. q[j].t = q[i].t
      BY <1>1, <1>2, <1>7, <2>1
    <2>3. q[i].label = q[j].label /\ q[i].label # "CLOSE"
      BY <1>2, <1>7
    <2> QED BY <1>1, <1>7, <2>2, <2>3, SameMoment
  <1>9. PICK k \in 1..Len(s) : Told1(q[i], s[k])
    BY <1>1, <1>2 DEF KeptTrue, Witnessed
  <1>10. s[k] = q[i]
    <2>1. q[i] = Entry(q[i].t, q[i].label, EdgeState(q[i].px), q[i].px) /\ s[k] = Entry(s[k].t, s[k].label, EdgeState(s[k].px), s[k].px)
      BY <1>1 DEF KeptTrue, Faithful
    <2>2. q[i].t = s[k].t /\ q[i].px = s[k].px /\ q[i].label = s[k].label
      BY <1>2, <1>9 DEF Told1
    <2> QED BY <2>1, <2>2
  <1>11. Faithful(s[k])
    BY <1>1 DEF KeptTrue
  <1>12. EnteredAt(m, e, k)
    BY <1>2, <1>6, <1>8, <1>10, <1>11 DEF EnteredAt, s
  <1> QED BY <1>12

\* The continuations of an episode are those of its time.
LEMMA OwnsThem ==
  ASSUME Remembered, NEW m \in Markets, NEW e \in EpisodesOf(m), NEW i
  PROVE  i \in Trajectory(m, EpisodesOf(m), e) <=>
           /\ i \in 1..Len(log[m]) /\ log[m][i].label \in Continuations /\ e.open_t < log[m][i].t /\ log[m][i].t <= e.close_t
  <1>1. DOMAIN log[m] = 1..Len(log[m]) /\ \A j \in 1..Len(log[m]) : log[m][j].t \in Nat
    BY RememberedOf
  <1>2. ASSUME i \in 1..Len(log[m]), e.open_t < log[m][i].t,
               NEW f \in EpisodesOf(m), f.open_t <= log[m][i].t, log[m][i].t <= f.close_t
        PROVE  e.open_t <= f.open_t
    <2>1. e.open_t \in Nat /\ f.open_t \in Nat /\ f.close_t \in Nat /\ log[m][i].t \in Nat
      BY <1>1, <1>2, EpisodeEnds
    <2>2. f.open_t < e.open_t => f.close_t <= e.open_t
      BY EpisodesApart
    <2> QED BY <1>2, <2>1, <2>2
  <1> QED BY <1>1, <1>2 DEF Trajectory, OwnedBy

\* What was last seen at a time.
LEMMA LastSeenIs ==
  ASSUME Remembered, NEW m \in Markets, NEW x \in Nat, NEW a \in 1..Len(seen[m]), seen[m][a].t <= x
  PROVE  \E k \in 1..Len(seen[m]) : /\ LastSeen(m, x) = seen[m][k] /\ seen[m][k].t <= x /\ a <= k
                                    /\ \A j \in 1..Len(seen[m]) : seen[m][j].t <= x => j <= k
                                    /\ \A j \in 1..Len(seen[m]) : k < j => x < seen[m][j].t
  <1> DEFINE s == seen[m]
             past == {i \in DOMAIN s : s[i].t <= x}
  <1>1. /\ DOMAIN s = 1..Len(s) /\ Len(s) \in Nat /\ \A i \in 1..Len(s) : s[i].t \in Nat
    BY RememberedOf
  <1>2. LastSeen(m, x) = s[CHOOSE i \in past : \A j \in past : j <= i]
    BY DEF LastSeen
  <1>3. a \in past /\ past \in SUBSET Nat /\ past # {} /\ \A j \in past : j <= Len(s)
    BY <1>1
  <1>4. \E i \in past : \A j \in past : j <= i
    <2> HIDE DEF past
    <2> QED BY <1>1, <1>3, GreatestNumber
  <1>5. PICK k \in past : LastSeen(m, x) = s[k] /\ \A j \in past : j <= k
    <2> HIDE DEF past
    <2> QED BY <1>2, <1>4
  <1>6. k \in 1..Len(s) /\ s[k].t <= x /\ a <= k
    BY <1>1, <1>3, <1>5
  <1>7. \A j \in 1..Len(s) : s[j].t <= x => j <= k
    BY <1>1, <1>5
  <1>8. \A j \in 1..Len(s) : k < j => x < s[j].t
    BY <1>1, <1>6, <1>7
  <1> QED BY <1>5, <1>6, <1>7, <1>8

\* After a, and by b, the log shows an opening.
Again(q, a, b) == \E i \in 1..Len(q) : q[i].label = "OPEN" /\ a < q[i].t /\ q[i].t <= b

\* A time within a span.
LEMMA Spanned ==
  ASSUME NEW a \in Nat, NEW b \in Nat, NEW c \in Nat, NEW x \in Nat, NEW d \in Nat
  PROVE  /\ a < b /\ b <= c /\ c <= x /\ x < d => a < b /\ b <= x /\ b < d
         /\ a <= b /\ b < c => a < c
  OBVIOUS

\* A fill within an episode that has not turned meets the edge it was fired at, or one that has opened a second time, or has
\* been gone for a window and a sleep of the flusher at most.
LEMMA FillMeets ==
  ASSUME Remembered, NEW m \in Markets, NEW e \in EpisodesOf(m), e.censored # "restart",
         NEW x \in Nat, e.open_t <= x, x < e.close_t,
         \A i \in Trajectory(m, EpisodesOf(m), e) : log[m][i].label = "FLIP" => x < log[m][i].t
  PROVE  LET s == LastSeen(m, x) IN
           IF s.label = "CLOSE" THEN x - s.t <= Window + FlushLag \/ (e.censored = "eod" /\ m \in settled)
           ELSE s.dir = EntryRecord(m, e).dir \/ Again(log[m], e.open_t, x)
  <1> DEFINE q == log[m]
             s == seen[m]
             M == markers
  <1>1. /\ q \in Seq(Record) /\ s \in Seq(Record) /\ Len(s) \in Nat /\ now \in Nat /\ Going \in Nat /\ Going <= now
        /\ InTurn(s, now) /\ KeptTrue(q, s, M) /\ Reopened(s) /\ GapsShown(q, s, M)
        /\ \A i \in 1..Len(q) : q[i].t \in Nat
        /\ \A i \in 1..Len(s) : s[i].t \in Nat
        /\ \A i \in 1..Len(M) : M[i] \in Nat
    BY RememberedOf
  <1>2. /\ e.open_t \in Nat /\ e.close_t \in Nat
        /\ \A i \in 1..Len(M) : e.open_t < M[i] => e.censored # "eod" /\ e.close_t <= M[i]
        /\ \A i \in 1..Len(q) : q[i].label = "CLOSE" /\ e.open_t < q[i].t => e.censored # "eod" /\ e.close_t <= q[i].t
        /\ e.censored \in {"none", "eod"}
        /\ e.censored = "none" => \E k \in 1..Len(s) : s[k].label = "CLOSE" /\ s[k].t = e.close_t
        /\ e.censored = "eod" => e.close_t <= Going
    BY EpisodeEnds
  <1>3. PICK a : EnteredAt(m, e, a)
    BY EntryIs
  <1>4. a \in 1..Len(s) /\ s[a].t = e.open_t /\ s[a].label = "OPEN" /\ s[a].dir = EntryRecord(m, e).dir
    BY <1>3 DEF EnteredAt
  <1>5. PICK k \in 1..Len(s) : /\ LastSeen(m, x) = s[k] /\ s[k].t <= x /\ a <= k
                               /\ \A j \in 1..Len(s) : k < j => x < s[j].t
    BY <1>4, LastSeenIs
  <1>6. e.open_t <= s[k].t /\ (a < k => e.open_t < s[k].t)
    <2>1. a = k \/ a < k
      BY <1>4, <1>5
    <2>2. ASSUME a < k PROVE s[a].t < s[k].t
      BY <1>1, <1>4, <2>2 DEF InTurn
    <2>3. CASE a = k
      <3>1. s[k].t = e.open_t
        BY <1>4, <2>3
      <3> QED BY <1>2, <2>3, <3>1
    <2>4. CASE a < k
      <3>1. e.open_t < s[k].t
        BY <1>4, <2>2, <2>4
      <3>2. s[k].t \in Nat
        BY <1>1
      <3> QED BY <1>2, <3>1, <3>2
    <2> QED BY <2>1, <2>3, <2>4
  <1>7. ASSUME s[k].label # "CLOSE" PROVE s[k].dir = s[a].dir \/ Again(q, e.open_t, x)
    <2> SUFFICES ASSUME s[k].dir # s[a].dir, ~ Again(q, e.open_t, x) PROVE FALSE
      OBVIOUS
    <2>0. s[k].dir # s[a].dir
      OBVIOUS
    <2>1. a < k
      <3>1. a # k
        BY <2>0
      <3> QED BY <1>4, <1>5, <3>1
    <2>2. Broken(q, M, s[a].t, s[k].t)
      BY <1>1, <1>4, <1>7, <2>1 DEF KeptTrue, Steady
    <2>3. CASE \E i \in 1..Len(q) : q[i].label \in Breaks /\ s[a].t < q[i].t /\ q[i].t <= s[k].t
      <3>1. PICK i \in 1..Len(q) : q[i].label \in Breaks /\ s[a].t < q[i].t /\ q[i].t <= s[k].t
        BY <2>3
      <3>2. e.open_t < q[i].t /\ q[i].t <= x /\ q[i].t < e.close_t
        <4>1. s[k].t \in Nat /\ q[i].t \in Nat /\ s[a].t = e.open_t /\ s[k].t <= x
          BY <1>1, <1>4, <1>5
        <4> DEFINE y == q[i].t
                   z == s[k].t
        <4>2. /\ e.open_t \in Nat /\ e.close_t \in Nat /\ y \in Nat /\ z \in Nat /\ x \in Nat
              /\ e.open_t < y /\ y <= z /\ z <= x /\ x < e.close_t
          BY <1>2, <3>1, <4>1
        <4>3. e.open_t < y /\ y <= x /\ y < e.close_t
          <5> HIDE DEF y, z
          <5> QED BY <4>2
        <4> QED BY <4>3
      <3>3. CASE q[i].label = "CLOSE"
        BY <1>1, <1>2, <3>2, <3>3
      <3>4. CASE q[i].label = "FLIP"
        <4>1. i \in Trajectory(m, EpisodesOf(m), e)
          <5>1. log[m][i].label \in Continuations /\ e.open_t < log[m][i].t
            BY <3>2, <3>4 DEF Continuations
          <5>2. log[m][i].t <= e.close_t
            <6> DEFINE y == log[m][i].t
            <6>1. y \in Nat /\ e.close_t \in Nat /\ y < e.close_t
              BY <1>1, <1>2, <3>2
            <6>2. y <= e.close_t
              <7> HIDE DEF y
              <7> QED BY <6>1
            <6> QED BY <6>2
          <5> QED BY <5>1, <5>2, OwnsThem
        <4>2. x < q[i].t /\ q[i].t \in Nat
          BY <1>1, <3>4, <4>1
        <4> QED BY <3>2, <4>2
      <3>5. CASE q[i].label = "OPEN"
        BY <3>2, <3>5 DEF Again
      <3> QED BY <3>1, <3>3, <3>4, <3>5 DEF Breaks
    <2>4. CASE \E i \in 1..Len(M) : s[a].t < M[i] /\ M[i] <= s[k].t
      BY <1>1, <1>2, <1>4, <1>5, <2>4
    <2> QED BY <2>2, <2>3, <2>4 DEF Broken
  <1>8. ASSUME s[k].label = "CLOSE", ~ (e.censored = "eod" /\ m \in settled) PROVE x - s[k].t <= Window + FlushLag
    <2>1. e.open_t < s[k].t
      <3>1. a < k
        BY <1>4, <1>5, <1>8
      <3> QED BY <1>6, <3>1
    <2>2. \A i \in 1..Len(q) : ~ (q[i].t = s[k].t /\ q[i].label = "CLOSE")
      BY <1>1, <1>2, <1>5, <2>1
    <2>3. e.censored = "none" => \E j \in 1..Len(s) : k < j /\ s[j].label = "CLOSE" /\ s[j].t = e.close_t
      <3> SUFFICES ASSUME e.censored = "none" PROVE \E j \in 1..Len(s) : k < j /\ s[j].label = "CLOSE" /\ s[j].t = e.close_t
        OBVIOUS
      <3>1. PICK j \in 1..Len(s) : s[j].label = "CLOSE" /\ s[j].t = e.close_t
        BY <1>2
      <3>2. s[k].t < s[j].t
        BY <1>1, <1>2, <1>5, <3>1
      <3>3. j # k /\ ~ (j < k)
        BY <1>1, <3>2 DEF InTurn
      <3> QED BY <3>1, <3>3
    <2>4. CASE k < Len(s)
      <3>1. k + 1 \in 1..Len(s) /\ k < k + 1 /\ k \in 1..(Len(s) - 1)
        BY <1>1, <2>4
      <3> DEFINE b == s[k + 1].t
      <3>2. b \in Nat /\ x < b /\ s[k + 1].label = "OPEN"
        BY <1>1, <1>5, <1>8, <3>1 DEF Reopened
      <3>3. \A i \in 1..Len(M) : ~ (s[k].t < M[i] /\ M[i] <= b)
        <4> SUFFICES ASSUME NEW i \in 1..Len(M), s[k].t < M[i], M[i] <= b PROVE FALSE
          OBVIOUS
        <4>1. e.open_t < M[i]
          <5>1. M[i] \in Nat /\ s[k].t \in Nat
            BY <1>1
          <5> QED BY <1>2, <1>6, <5>1, Spanned
        <4>2. e.censored = "none" /\ e.close_t <= M[i]
          BY <1>2, <4>1
        <4>3. PICK j \in 1..Len(s) : k < j /\ s[j].label = "CLOSE" /\ s[j].t = e.close_t
          BY <2>3, <4>2
        <4>4. e.close_t <= b
          <5>1. M[i] \in Nat /\ M[i] <= b
            BY <1>1
          <5> HIDE DEF b
          <5> QED BY <1>2, <3>2, <4>2, <5>1
        <4>5. j = k + 1
          <5>1. ~ (k + 1 < j)
            BY <1>1, <3>1, <4>3, <4>4 DEF InTurn
          <5> QED BY <4>3, <5>1
        <4> QED BY <3>2, <4>3, <4>5
      <3>4. ~ (b - s[k].t > Window + FlushLag)
        <4> SUFFICES ASSUME b - s[k].t > Window + FlushLag PROVE FALSE
          OBVIOUS
        <4>1. Shown(q, M, s[k].t, b)
          BY <1>1, <1>8, <3>1, <3>2 DEF GapsShown
        <4> QED BY <2>2, <3>3, <4>1 DEF Shown
      <3> DEFINE y == s[k].t
      <3>5. y \in Nat /\ Window \in Nat /\ FlushLag \in Nat /\ b \in Nat /\ x < b /\ ~ (b - y > Window + FlushLag)
        BY <1>1, <3>2, <3>4, EpisodesAssumption
      <3>6. x - y <= Window + FlushLag
        <4> HIDE DEF b, y
        <4> QED BY <3>5
      <3> QED BY <3>6 DEF y
    <2>5. CASE k = Len(s)
      <3>1. e.censored = "eod" /\ m \notin settled /\ e.close_t <= Going
        <4>1. e.censored # "none"
          BY <1>1, <2>3, <2>5
        <4> QED BY <1>2, <1>8, <4>1
      <3>2. EndsClosed(s, s[k].t)
        BY <1>1, <1>8, <2>5 DEF EndsClosed
      <3>3. /\ Seeing(m) /\ Remembering(m) /\ pending[m] \in {None} \cup [t : Nat, px : Books]
        BY RemembersSeen DEF Remembered
      <3>4. CASE pending[m] = None
        <4>1. Shown(q, M, s[k].t, now)
          BY <1>1, <3>1, <3>2, <3>3, <3>4 DEF Seeing
        <4>2. PICK i \in 1..Len(M) : s[k].t < M[i] /\ M[i] <= now
          BY <2>2, <4>1 DEF Shown
        <4> QED BY <1>1, <1>2, <1>6, <3>1, <4>2
      <3>5. CASE pending[m] # None
        <4>1. pending[m].t = s[k].t /\ Going - pending[m].t <= Window + FlushLag + 1
          BY <2>5, <3>3, <3>5 DEF Seeing, EndsClosed, Remembering
        <4> QED BY <1>1, <1>2, <3>1, <4>1, EpisodesAssumption
      <3> QED BY <3>4, <3>5
    <2> QED BY <1>1, <2>4, <2>5
  <1> QED BY <1>4, <1>5, <1>7, <1>8

(***************************************************************************)
(* What the replays tell                                                   *)
(***************************************************************************)

\* A member of the cohort is an episode, with what the studies join to it.
AsTold(c, m, e) ==
  /\ m \in Markets /\ e \in EpisodesOf(m) /\ e.censored # "restart" /\ c.market = m
  /\ c.open_t = e.open_t /\ c.open_net = e.open_net /\ c.open_c2 = e.open_c2 /\ c.close_t = e.close_t
  /\ c.censored = e.censored /\ c.traj = Trajectory(m, EpisodesOf(m), e) /\ c.open_c2 >= 1
  /\ c.open_c1 = OpenC1(c) /\ c.cls \in Classes
  /\ c.both = {L \in Latencies : Outcome(c, L) = "both"} /\ c.one = {L \in Latencies : Outcome(c, L) = "one"}

\* A class is one of four.
LEMMA ClassIs == ASSUME NEW e PROVE ClassOf(e) \in Classes
  <1>1. ASSUME NEW d, NEW a, NEW b PROVE OpenAttrib(d, a, b) \in {"cheap_made", "dear_made", "mixed"}
    BY DEF OpenAttrib
  <1> DEFINE rows == OpenClasses(e.market) \cap OpensAt(e.market, e.open_t)
             x == OpenAttrib(log[e.market][Max(rows)].dir, log[e.market][Max(rows) - 1].px, log[e.market][Max(rows)].px)
  <1>2. ClassOf(e) = IF rows = {} THEN "unclassified" ELSE x
    BY DEF ClassOf
  <1>3. x \in {"cheap_made", "dear_made", "mixed"}
    BY <1>1
  <1> HIDE DEF rows, x
  <1> QED BY <1>2, <1>3 DEF Classes

\* As many as there are to make them from, at most.
LEMMA ImageFinite ==
  ASSUME NEW S, IsFiniteSet(S), NEW f, DOMAIN f = S
  PROVE  IsFiniteSet({f[x] : x \in S})
  <1> DEFINE T == {f[x] : x \in S}
             g == [x \in S |-> f[x]]
  <1>1. g \in Surjection(S, T)
    BY DEF Surjection
  <1> HIDE DEF T, g
  <1>2. IsFiniteSet(T)
    BY <1>1, FS_Surjection
  <1> QED BY <1>2 DEF T

\* The members of the cohort are episodes, and finitely many.
LEMMA CohortIs ==
  ASSUME Remembered
  PROVE  IsFiniteSet(Cohort) /\ \A c \in Cohort : \E m, e : AsTold(c, m, e)
  <1> DEFINE Part(m) == {Joined(Traced(m, EpisodesOf(m), e)) : e \in Capturable(EpisodesOf(m))}
             Parts == {Part(m) : m \in Markets}
  <1>1. Cohort = UNION Parts
    BY DEF Cohort
  <1>2. IsFiniteSet(Parts)
    <2> DEFINE f == [m \in Markets |-> Part(m)]
    <2>1. DOMAIN f = Markets /\ Parts = {f[m] : m \in Markets}
      OBVIOUS
    <2> HIDE DEF f, Parts
    <2> QED BY <2>1, PersistenceAssumption, ImageFinite
  <1>3. ASSUME NEW m \in Markets PROVE IsFiniteSet(Part(m))
    <2>1. EpisodesTypeOK
      BY RememberedOf
    <2>2. IsFiniteSet(EpisodesOf(m))
      BY <2>1, EpisodesSpan
    <2>3. IsFiniteSet(Capturable(EpisodesOf(m)))
      BY <2>2, FS_Subset DEF Capturable
    <2> DEFINE S == Capturable(EpisodesOf(m))
               f == [e \in S |-> Joined(Traced(m, EpisodesOf(m), e))]
    <2>4. Part(m) = {f[e] : e \in S} /\ DOMAIN f = S
      OBVIOUS
    <2>5. IsFiniteSet(S)
      BY <2>3
    <2> HIDE DEF S, f, Part
    <2> QED BY <2>4, <2>5, ImageFinite
  <1>4. IsFiniteSet(Cohort)
    <2>1. \A P \in Parts : IsFiniteSet(P)
      BY <1>3
    <2> HIDE DEF Parts
    <2> QED BY <1>1, <1>2, <2>1, FS_UNION
  <1>5. ASSUME NEW c \in Cohort PROVE \E m, e : AsTold(c, m, e)
    <2>0. PICK m \in Markets : c \in Part(m)
      BY <1>1
    <2>1. PICK e \in Capturable(EpisodesOf(m)) : c = Joined(Traced(m, EpisodesOf(m), e))
      BY <2>0
    <2> DEFINE t == Traced(m, EpisodesOf(m), e)
    <2>2. e \in EpisodesOf(m) /\ e.open_c2 >= 1 /\ e.censored # "restart"
      BY DEF Capturable
    <2> DEFINE traj == Trajectory(m, EpisodesOf(m), e)
    <2>3. /\ t.market = m /\ t.open_t = e.open_t /\ t.open_net = e.open_net /\ t.open_c2 = e.open_c2 /\ t.close_t = e.close_t
          /\ t.censored = e.censored /\ t.traj = traj
      <3>1. t = [market |-> e.market, open_t |-> e.open_t, open_net |-> e.open_net, open_c2 |-> e.open_c2,
                 close_t |-> e.close_t, censored |-> e.censored, traj |-> traj]
        BY DEF Traced
      <3>2. e.market = m
        BY <2>2, EpisodeEnds
      <3> HIDE DEF t, traj
      <3> QED BY <3>1, <3>2
    <2>4. c = Joined(t)
      BY <2>1
    <2> HIDE DEF t
    <2>5. /\ c.market = t.market /\ c.open_t = t.open_t /\ c.open_net = t.open_net /\ c.open_c2 = t.open_c2 /\ c.close_t = t.close_t
          /\ c.censored = t.censored /\ c.traj = t.traj /\ c.open_c1 = OpenC1(t) /\ c.cls = ClassOf(t)
          /\ c.both = {L \in Latencies : Outcome(t, L) = "both"} /\ c.one = {L \in Latencies : Outcome(t, L) = "one"}
      BY <2>4 DEF Joined
    <2>6. OpenC1(c) = OpenC1(t)
      BY <2>5 DEF OpenC1
    <2>7. ASSUME NEW L PROVE Outcome(c, L) = Outcome(t, L)
      <3>1. FlipTimes(c) = FlipTimes(t) /\ \A x : EdgeAt(c, x) = EdgeAt(t, x)
        BY <2>5 DEF FlipTimes, EdgeAt
      <3> QED BY <2>5, <3>1 DEF Outcome
    <2>8. ClassOf(t) \in Classes
      BY ClassIs
    <2>9. AsTold(c, m, e)
      BY <2>2, <2>3, <2>5, <2>6, <2>7, <2>8 DEF AsTold
    <2> QED BY <2>9
  <1> QED BY <1>4, <1>5

\* What of an episode its member of the cohort tells.
LEMMA ToldTyped ==
  ASSUME Remembered, NEW c, NEW m, NEW e, AsTold(c, m, e)
  PROVE  /\ m \in Markets /\ e \in EpisodesOf(m) /\ c.market = m /\ c.open_t \in Nat /\ c.close_t \in Nat /\ c.open_t <= c.close_t
         /\ c.open_net \in Int /\ c.open_net > 0 /\ c.open_c2 \in Nat /\ c.open_c2 >= 1
         /\ c.traj \subseteq 1..Len(log[m])
         /\ \A i \in c.traj : log[m][i].label \in Continuations /\ c.open_t < log[m][i].t /\ log[m][i].t <= c.close_t
                              /\ log[m][i].t \in Nat /\ log[m][i].net \in Int /\ log[m][i].net > 0 /\ log[m][i] \in Record
  <1>1. m \in Markets /\ e \in EpisodesOf(m) /\ c.market = m /\ c.open_t = e.open_t /\ c.close_t = e.close_t
        /\ c.open_net = e.open_net /\ c.open_c2 = e.open_c2 /\ c.open_c2 >= 1 /\ c.traj = Trajectory(m, EpisodesOf(m), e)
    BY DEF AsTold
  <1>2. PICK k : EnteredAt(m, e, k)
    BY <1>1, EntryIs
  <1>3. seen[m][k] \in Record /\ Faithful(seen[m][k]) /\ seen[m][k].label = "OPEN" /\ seen[m][k].net = c.open_net /\ seen[m][k].px.c2 = c.open_c2
    BY <1>1, <1>2, RememberedOf DEF EnteredAt
  <1>4. c.open_net \in Int /\ c.open_net > 0 /\ c.open_c2 \in Nat
    <2>1. seen[m][k].px \in Books /\ seen[m][k].net \in Int /\ seen[m][k].net > 0
      BY <1>3, RecordsPay
    <2> QED BY <1>3, <2>1, EpisodesAssumption
  <1>5. c.open_t \in Nat /\ c.close_t \in Nat /\ c.open_t <= c.close_t
    BY <1>1, EpisodeEnds
  <1>6. ASSUME NEW i \in c.traj
        PROVE  /\ i \in 1..Len(log[m]) /\ log[m][i].label \in Continuations /\ c.open_t < log[m][i].t /\ log[m][i].t <= c.close_t
               /\ log[m][i].t \in Nat /\ log[m][i].net \in Int /\ log[m][i].net > 0 /\ log[m][i] \in Record
    <2>1. /\ i \in 1..Len(log[m]) /\ log[m][i].label \in Continuations /\ c.open_t < log[m][i].t /\ log[m][i].t <= c.close_t
      BY <1>1, OwnsThem
    <2>2. log[m][i] \in Record /\ KeptTrue(log[m], seen[m], markers)
      BY <1>1, <2>1, RememberedOf
    <2>3. Faithful(log[m][i]) /\ log[m][i].label # "CLOSE"
      BY <2>1, <2>2 DEF KeptTrue, Continuations
    <2> QED BY <2>1, <2>2, <2>3, RecordsPay
  <1> QED BY <1>1, <1>4, <1>5, <1>6

\* Once it has been continued an episode has the edge of its last continuation.
LastInForce(c, m, x) ==
  \A a \in c.traj : log[m][a].t <= x => \E i \in c.traj : log[m][i].t <= x /\ a <= i /\ EdgeAt(c, x) = log[m][i].net

\* The edge in force at a time is that of the opening, or of the last continuation by then.
LEMMA EdgeAtIs ==
  ASSUME Remembered, NEW c, NEW m, NEW e, AsTold(c, m, e), NEW x \in Nat
  PROVE  EdgeAt(c, x) \in Int /\ EdgeAt(c, x) > 0 /\ LastInForce(c, m, x)
  <1> DEFINE past == {i \in c.traj : log[m][i].t <= x}
  <1>1. /\ m \in Markets /\ c.market = m /\ c.open_net \in Int /\ c.open_net > 0 /\ c.traj \subseteq 1..Len(log[m])
        /\ \A i \in c.traj : log[m][i].net \in Int /\ log[m][i].net > 0
    BY ToldTyped
  <1>2. EdgeAt(c, x) = IF past = {} THEN c.open_net ELSE log[m][CHOOSE i \in past : \A j \in past : j <= i].net
    BY <1>1 DEF EdgeAt
  <1>3. CASE past = {}
    <2>1. \A a \in c.traj : ~ (log[m][a].t <= x)
      BY <1>3
    <2> HIDE DEF past
    <2> QED BY <1>1, <1>2, <1>3, <2>1 DEF LastInForce
  <1>4. CASE past # {}
    <2>1. Len(log[m]) \in Nat
      BY <1>1, RememberedOf
    <2>2. past \in SUBSET Nat /\ \A j \in past : j <= Len(log[m])
      BY <1>1, <2>1
    <2>3. \E i \in past : \A j \in past : j <= i
      <3> HIDE DEF past
      <3> QED BY <1>4, <2>1, <2>2, GreatestNumber
    <2>4. PICK i \in past : EdgeAt(c, x) = log[m][i].net /\ \A j \in past : j <= i
      <3> HIDE DEF past
      <3> QED BY <1>2, <1>4, <2>3
    <2>5. i \in c.traj /\ log[m][i].t <= x
      OBVIOUS
    <2>6. \A a \in c.traj : log[m][a].t <= x => a <= i
      BY <2>4
    <2>7. LastInForce(c, m, x)
      BY <2>4, <2>5, <2>6 DEF LastInForce
    <2> QED BY <1>1, <2>4, <2>5, <2>7
  <1> QED BY <1>3, <1>4

\* A fill survives an episode's latency before its end and before its first flip, and fails after.
LEMMA OutcomeIs ==
  ASSUME Remembered, NEW c, NEW m, NEW e, AsTold(c, m, e), NEW L \in Latencies
  PROVE  /\ L \in Nat /\ c.open_t + L \in Nat /\ L \in c.both \cup c.one
         /\ L \in c.both <=> c.open_t + L < c.close_t /\ \A i \in c.traj : log[m][i].label = "FLIP" => c.open_t + L < log[m][i].t
         /\ L \in c.one <=> L \notin c.both
  <1> DEFINE x == c.open_t + L
             gone == x >= c.close_t \/ \E f \in FlipTimes(c) : f <= x
  <1>1. /\ c.market = m /\ c.open_t \in Nat /\ c.close_t \in Nat /\ L \in Nat
        /\ \A i \in c.traj : log[m][i].t \in Nat
    BY ToldTyped, PersistenceAssumption
  <1>2. x \in Nat
    BY <1>1
  <1>3. Outcome(c, L) = IF gone THEN "one" ELSE IF EdgeAt(c, x) > 0 THEN "both" ELSE "neither"
    BY DEF Outcome
  <1>4. EdgeAt(c, x) > 0
    BY <1>2, EdgeAtIs
  <1>5. (L \in c.both <=> Outcome(c, L) = "both") /\ (L \in c.one <=> Outcome(c, L) = "one")
    BY DEF AsTold
  <1>6. ~ gone <=> x < c.close_t /\ \A i \in c.traj : log[m][i].label = "FLIP" => x < log[m][i].t
    <2>1. FlipTimes(c) = {log[m][i].t : i \in {j \in c.traj : log[m][j].label = "FLIP"}}
      BY <1>1 DEF FlipTimes
    <2> HIDE DEF x
    <2>2. (\E f \in FlipTimes(c) : f <= x) <=> \E i \in c.traj : log[m][i].label = "FLIP" /\ log[m][i].t <= x
      BY <2>1
    <2>3. \A i \in c.traj : log[m][i].t <= x <=> ~ (x < log[m][i].t)
      BY <1>1, <1>2
    <2>4. x >= c.close_t <=> ~ (x < c.close_t)
      BY <1>1, <1>2
    <2> QED BY <2>2, <2>3, <2>4
  <1>7. Outcome(c, L) = IF gone THEN "one" ELSE "both"
    BY <1>3, <1>4
  <1> HIDE DEF gone
  <1>8. (L \in c.both <=> ~ gone) /\ (L \in c.one <=> gone)
    BY <1>5, <1>7
  <1> QED BY <1>1, <1>2, <1>6, <1>8

\* Who survives a latency met the edge it was fired at.
LEMMA SurvivorsWereThere == ASSUME Remembered PROVE SurvivorWasThere(Cohort)
  <1> SUFFICES ASSUME NEW L \in Latencies, NEW c \in Survivors(Cohort, L)
               PROVE  LET s == LastSeen(c.market, c.open_t + L) IN
                        IF s.label = "CLOSE" THEN c.open_t + L - s.t <= Window + FlushLag \/ (c.censored = "eod" /\ c.market \in settled)
                        ELSE s.dir = EntryRecord(c.market, c).dir \/ OpenedAgain(c, c.open_t + L)
    BY DEF SurvivorWasThere
  <1>1. c \in Cohort /\ L \in c.both
    BY DEF Survivors
  <1>2. PICK m, e : AsTold(c, m, e)
    BY <1>1, CohortIs
  <1>3. /\ m \in Markets /\ e \in EpisodesOf(m) /\ e.censored # "restart" /\ c.market = m /\ c.open_t = e.open_t
        /\ c.close_t = e.close_t /\ c.censored = e.censored /\ c.traj = Trajectory(m, EpisodesOf(m), e)
    BY <1>2 DEF AsTold
  <1>4. EntryRecord(m, c) = EntryRecord(m, e)
    BY <1>3 DEF EntryRecord
  <1> DEFINE x == c.open_t + L
  <1>5. /\ x \in Nat /\ x < e.close_t /\ \A i \in Trajectory(m, EpisodesOf(m), e) : log[m][i].label = "FLIP" => x < log[m][i].t
    BY <1>1, <1>2, <1>3, OutcomeIs
  <1>6. e.open_t <= x
    <2>1. c.open_t \in Nat /\ L \in Nat
      BY <1>2, ToldTyped, OutcomeIs
    <2> QED BY <1>3, <2>1
  <1> HIDE DEF x
  <1>7. LET s == LastSeen(m, x) IN
          IF s.label = "CLOSE" THEN x - s.t <= Window + FlushLag \/ (e.censored = "eod" /\ m \in settled)
          ELSE s.dir = EntryRecord(m, e).dir \/ Again(log[m], e.open_t, x)
    BY <1>3, <1>5, <1>6, FillMeets
  <1> DEFINE s == LastSeen(m, x)
             d == EntryRecord(m, e).dir
  <1>8. (s.label = "CLOSE" => x - s.t <= Window + FlushLag \/ (e.censored = "eod" /\ m \in settled)) /\ (s.label # "CLOSE" => s.dir = d \/ Again(log[m], e.open_t, x))
    BY <1>7
  <1>9. LastSeen(c.market, c.open_t + L) = s /\ EntryRecord(c.market, c).dir = d /\ x = c.open_t + L
    BY <1>3, <1>4 DEF x
  <1>10. s.t \in Int /\ c.open_t \in Int /\ L \in Int
    <2>1. PICK a : EnteredAt(m, e, a)
      BY <1>3, EntryIs
    <2>2. a \in 1..Len(seen[m]) /\ seen[m][a].t <= x
      BY <1>6, <2>1 DEF EnteredAt
    <2>3. PICK k \in 1..Len(seen[m]) : s = seen[m][k]
      BY <1>3, <1>5, <2>2, LastSeenIs
    <2>4. seen[m][k].t \in Nat
      BY <1>3, RememberedOf
    <2>5. c.open_t \in Nat /\ L \in Nat
      BY <1>2, ToldTyped, OutcomeIs
    <2> QED BY <2>3, <2>4, <2>5
  <1>11. CASE s.label = "CLOSE"
    <2>1. x - s.t <= Window + FlushLag \/ (c.censored = "eod" /\ c.market \in settled)
      BY <1>3, <1>8, <1>11
    <2> HIDE DEF s, d
    <2>2. LastSeen(c.market, c.open_t + L) = s
      BY <1>9
    <2>3. c.open_t + L - s.t = x - s.t
      BY <1>10 DEF x
    <2> QED BY <1>11, <2>1, <2>2, <2>3
  <1>12. CASE s.label # "CLOSE"
    <2>1. s.dir = d \/ Again(log[m], e.open_t, x)
      BY <1>8, <1>12
    <2>2. Again(log[m], e.open_t, x) => OpenedAgain(c, c.open_t + L)
      <3>1. DOMAIN log[m] = 1..Len(log[m])
        BY <1>3, RememberedOf
      <3> QED BY <1>3, <1>9, <3>1 DEF Again, OpenedAgain
    <2> HIDE DEF s, d
    <2> QED BY <1>9, <1>12, <2>1, <2>2
  <1> QED BY <1>11, <1>12

\* A fill that failed met an edge that was gone, or had been.
LEMMA FailuresWereReal == ASSUME Remembered PROVE FailureWasReal(Cohort)
  <1>1. ASSUME NEW c \in Cohort PROVE c.both \cup c.one = Latencies
    <2>1. PICK m, e : AsTold(c, m, e)
      BY CohortIs
    <2>2. \A L \in Latencies : L \in c.both \cup c.one
      BY <2>1, OutcomeIs
    <2>3. c.both \subseteq Latencies /\ c.one \subseteq Latencies
      BY <2>1 DEF AsTold
    <2> QED BY <2>2, <2>3
  <1>2. ASSUME NEW L \in Latencies, NEW c \in Lost(Cohort, L), c.censored = "none"
        PROVE  \E i \in DOMAIN seen[c.market] : LET s == seen[c.market][i] IN
                 /\ c.open_t <= s.t /\ s.t <= c.open_t + L
                 /\ s.label = "CLOSE" \/ s.dir # EntryRecord(c.market, c).dir
    <2>1. c \in Cohort /\ L \in c.one
      BY DEF Lost
    <2>2. PICK m, e : AsTold(c, m, e)
      BY <2>1, CohortIs
    <2>3. /\ m \in Markets /\ e \in EpisodesOf(m) /\ c.market = m /\ c.open_t = e.open_t
          /\ c.close_t = e.close_t /\ c.censored = e.censored
      BY <2>2 DEF AsTold
    <2>4. EntryRecord(m, c) = EntryRecord(m, e)
      BY <2>3 DEF EntryRecord
    <2> DEFINE x == c.open_t + L
               s == seen[m]
               q == log[m]
               Gone(j) == c.open_t <= s[j].t /\ s[j].t <= x /\ (s[j].label = "CLOSE" \/ s[j].dir # EntryRecord(m, e).dir)
    <2>5. /\ x \in Nat /\ c.open_t \in Nat /\ c.close_t \in Nat /\ c.open_t <= c.close_t
          /\ \A i \in c.traj : i \in 1..Len(q) /\ c.open_t < q[i].t /\ q[i].t \in Nat
      BY <2>2, ToldTyped, OutcomeIs
    <2>6. /\ Len(s) \in Nat /\ DOMAIN s = 1..Len(s) /\ InTurn(s, now) /\ KeptTrue(q, s, markers) /\ \A j \in 1..Len(s) : s[j].t \in Nat
      BY <2>3, RememberedOf
    <2>7. ~ (x < c.close_t) \/ \E i \in c.traj : q[i].label = "FLIP" /\ ~ (x < q[i].t)
      BY <2>1, <2>2, OutcomeIs
    <2>8. CASE ~ (x < c.close_t)
      <3>1. PICK k \in 1..Len(s) : s[k].label = "CLOSE" /\ s[k].t = c.close_t
        BY <1>2, <2>3, EpisodeEnds
      <3>2. c.close_t <= x
        <4> HIDE DEF x
        <4> QED BY <2>5, <2>8
      <3>3. Gone(k)
        <4> HIDE DEF x
        <4> QED BY <2>5, <3>1, <3>2
      <3> QED BY <2>3, <2>4, <2>6, <3>3
    <2>9. CASE \E i \in c.traj : q[i].label = "FLIP" /\ ~ (x < q[i].t)
      <3>1. PICK i \in c.traj : q[i].label = "FLIP" /\ ~ (x < q[i].t)
        BY <2>9
      <3>2. PICK j \in 1..(Len(s) - 1) : s[j + 1].t = q[i].t /\ (s[j].label = "CLOSE" \/ s[j].dir # s[j + 1].dir)
        BY <2>5, <2>6, <3>1 DEF KeptTrue, Turned
      <3>3. PICK a : EnteredAt(m, e, a)
        BY <2>3, EntryIs
      <3>4. a \in 1..Len(s) /\ s[a].t = c.open_t
        BY <2>3, <3>3 DEF EnteredAt
      <3>5. j \in 1..Len(s) /\ j + 1 \in 1..Len(s) /\ j < j + 1
        BY <2>6
      <3>6. c.open_t < s[j + 1].t /\ s[j + 1].t <= x
        <4> HIDE DEF x, s, q
        <4> QED BY <2>5, <3>1, <3>2
      <3>7. a <= j
        <4>1. a # j + 1
          BY <2>5, <3>4, <3>6
        <4>2. ~ (j + 1 < a)
          <5>1. j + 1 < a => s[j + 1].t < s[a].t
            BY <2>6, <3>4, <3>5 DEF InTurn
          <5>2. s[j + 1].t \in Nat
            BY <2>6, <3>5
          <5> HIDE DEF s
          <5> QED BY <2>5, <3>4, <3>6, <5>1, <5>2
        <4> QED BY <3>4, <3>5, <4>1, <4>2
      <3>8. c.open_t <= s[j].t /\ s[j].t < s[j + 1].t
        <4>1. s[j].t < s[j + 1].t
          BY <2>6, <3>5 DEF InTurn
        <4>2. a = j \/ s[a].t < s[j].t
          BY <2>6, <3>4, <3>5, <3>7 DEF InTurn
        <4>3. s[j].t \in Nat
          BY <2>6, <3>5
        <4> HIDE DEF s
        <4> QED BY <2>5, <3>4, <4>1, <4>2, <4>3
      <3>9. c.open_t <= s[j + 1].t /\ s[j].t <= x
        <4>1. s[j].t \in Nat /\ s[j + 1].t \in Nat
          BY <2>6, <3>5
        <4> HIDE DEF s, x
        <4> QED BY <2>5, <3>6, <3>8, <4>1
      <3>10. Gone(j) \/ Gone(j + 1)
        BY <3>2, <3>6, <3>8, <3>9
      <3> HIDE DEF Gone
      <3>11. \E k \in 1..Len(s) : Gone(k)
        BY <3>5, <3>10
      <3> QED BY <2>3, <2>4, <2>6, <3>11 DEF Gone
    <2> QED BY <2>7, <2>8, <2>9
  <1> QED BY <1>1, <1>2 DEF FailureWasReal

\* Who survives a latency survives a shorter one.
LEMMA SurvivalsFall == ASSUME Remembered PROVE SurvivalFalls(Cohort)
  <1> SUFFICES ASSUME NEW L \in Latencies, NEW S \in Latencies, S <= L, NEW c \in Cohort, L \in c.both PROVE S \in c.both
    BY DEF SurvivalFalls, Survivors
  <1>1. PICK m, e : AsTold(c, m, e)
    BY CohortIs
  <1>2. /\ L \in Nat /\ S \in Nat /\ c.open_t \in Nat /\ c.close_t \in Nat /\ \A i \in c.traj : log[m][i].t \in Nat
    BY <1>1, ToldTyped, OutcomeIs
  <1>3. c.open_t + L < c.close_t /\ \A i \in c.traj : log[m][i].label = "FLIP" => c.open_t + L < log[m][i].t
    BY <1>1, OutcomeIs
  <1>4. \A y \in Nat : c.open_t + L < y => c.open_t + S < y
    BY <1>2
  <1>5. c.open_t + S < c.close_t /\ \A i \in c.traj : log[m][i].label = "FLIP" => c.open_t + S < log[m][i].t
    BY <1>2, <1>3, <1>4
  <1> QED BY <1>1, <1>5, OutcomeIs

\* A survivor is paid the edge last seen.
LEMMA SurvivorsArePaid == ASSUME Remembered PROVE SurvivorIsPaid(Cohort)
  <1> SUFFICES ASSUME NEW L \in Latencies, NEW c \in Survivors(Cohort, L),
                      LastSeen(c.market, c.open_t + L).label \in {"WIDEN", "NARROW"}
               PROVE  NetAt(c, L) = LastSeen(c.market, c.open_t + L).net
    BY DEF SurvivorIsPaid
  <1>1. c \in Cohort /\ L \in c.both
    BY DEF Survivors
  <1>2. PICK m, e : AsTold(c, m, e)
    BY <1>1, CohortIs
  <1>3. /\ m \in Markets /\ e \in EpisodesOf(m) /\ c.market = m /\ c.open_t = e.open_t /\ c.close_t = e.close_t
        /\ c.traj = Trajectory(m, EpisodesOf(m), e)
    BY <1>2 DEF AsTold
  <1> DEFINE x == c.open_t + L
             s == seen[m]
             q == log[m]
  <1>4. x \in Nat /\ c.open_t <= x /\ x < c.close_t /\ c.close_t \in Nat /\ c.open_t \in Nat
    <2>1. c.open_t \in Nat /\ L \in Nat /\ c.close_t \in Nat
      BY <1>2, ToldTyped, OutcomeIs
    <2>2. x < c.close_t
      BY <1>1, <1>2, OutcomeIs
    <2> QED BY <2>1, <2>2
  <1>5. /\ q \in Seq(Record) /\ s \in Seq(Record) /\ Len(q) \in Nat /\ Len(s) \in Nat
        /\ InOrder(q) /\ InTurn(s, now) /\ KeptTrue(q, s, markers)
        /\ (\A j \in 1..Len(s) : s[j].t \in Nat /\ s[j] \in Record) /\ \A i \in 1..Len(q) : q[i].t \in Nat /\ q[i] \in Record
    BY <1>3, RememberedOf
  <1>6. PICK a : EnteredAt(m, e, a)
    BY <1>3, EntryIs
  <1>7. a \in 1..Len(s) /\ s[a].t = c.open_t /\ s[a].label = "OPEN"
    BY <1>3, <1>6 DEF EnteredAt
  <1> HIDE DEF x
  <1>8. PICK k \in 1..Len(s) : /\ LastSeen(m, x) = s[k] /\ s[k].t <= x /\ a <= k
                               /\ \A j \in 1..Len(s) : s[j].t <= x => j <= k
    BY <1>3, <1>4, <1>7, LastSeenIs
  <1>9. s[k].label \in {"WIDEN", "NARROW"}
    BY <1>3, <1>8 DEF x
  <1>10. a < k /\ c.open_t < s[k].t
    <2>1. a # k
      BY <1>7, <1>9
    <2>2. a < k
      BY <1>7, <1>8, <2>1
    <2> QED BY <1>5, <1>7, <2>2 DEF InTurn
  <1>11. PICK b \in 1..Len(q) : q[b].t = s[k].t /\ q[b].px = s[k].px /\ q[b].label = s[k].label
    BY <1>5, <1>9 DEF KeptTrue, Recorded, Continuations
  <1> HIDE DEF s, q
  <1>12. b \in c.traj /\ q[b].t <= x
    <2>1. q[b].t <= x /\ c.open_t < q[b].t
      BY <1>8, <1>10, <1>11
    <2>2. q[b].t <= c.close_t
      BY <1>4, <1>5, <2>1
    <2>3. q[b].label \in Continuations
      BY <1>9, <1>11 DEF Continuations
    <2>4. b \in Trajectory(m, EpisodesOf(m), e)
      BY <1>3, <2>1, <2>2, <2>3, OwnsThem DEF q
    <2> QED BY <1>3, <2>1, <2>4
  <1>13. PICK i \in c.traj : q[i].t <= x /\ b <= i /\ EdgeAt(c, x) = q[i].net
    <2>1. b \in c.traj /\ log[m][b].t <= x
      BY <1>12 DEF q
    <2>2. LastInForce(c, m, x)
      BY <1>2, <1>4, EdgeAtIs
    <2>3. \E i \in c.traj : log[m][i].t <= x /\ b <= i /\ EdgeAt(c, x) = log[m][i].net
      BY <2>1, <2>2 DEF LastInForce
    <2> QED BY <2>3 DEF q
  <1>14. i \in 1..Len(q) /\ q[i].label \in Continuations
    BY <1>2, ToldTyped DEF q
  <1>15. PICK j \in 1..Len(s) : Told1(q[i], s[j])
    BY <1>5, <1>14 DEF KeptTrue, Witnessed, Continuations
  <1>16. j = k
    <2>1. s[j].t = q[i].t /\ s[j].t <= x
      BY <1>13, <1>15 DEF Told1
    <2>2. s[k].t <= s[j].t
      BY <1>5, <1>11, <1>13, <1>14, <2>1, LaterInOrder
    <2>3. j <= k
      BY <1>8, <2>1
    <2>4. ~ (j < k)
      <3>1. j < k => s[j].t < s[k].t
        BY <1>5 DEF InTurn
      <3>2. s[j].t \in Nat /\ s[k].t \in Nat
        BY <1>5
      <3> QED BY <2>2, <3>1, <3>2
    <2> QED BY <2>3, <2>4
  <1>17. q[i].px = s[k].px
    BY <1>15, <1>16 DEF Told1
  <1>18. q[i].net = EdgeState(q[i].px).net /\ s[k].net = EdgeState(s[k].px).net
    <2>1. Faithful(q[i]) /\ Faithful(s[k]) /\ q[i] \in Record /\ s[k] \in Record
      BY <1>5, <1>14 DEF KeptTrue
    <2> QED BY <2>1, RecordsPay
  <1>19. NetAt(c, L) = EdgeAt(c, x)
    BY DEF NetAt, x
  <1>20. LastSeen(c.market, c.open_t + L) = s[k]
    BY <1>3, <1>8 DEF x
  <1> QED BY <1>13, <1>17, <1>18, <1>19, <1>20

\* The less and the more of two numbers.
LEMMA MinMaxOfTwo ==
  ASSUME NEW a \in Int, NEW b \in Int
  PROVE  Min({a, b}) = (IF a <= b THEN a ELSE b) /\ Max({a, b}) = (IF a >= b THEN a ELSE b)
  <1> DEFINE least == IF a <= b THEN a ELSE b
             most  == IF a >= b THEN a ELSE b
  <1>1. Min({a, b}) = CHOOSE x \in {a, b} : \A y \in {a, b} : x <= y
    BY DEF Min
  <1>2. Max({a, b}) = CHOOSE x \in {a, b} : \A y \in {a, b} : x >= y
    BY DEF Max
  <1>3. /\ least \in {a, b} /\ (\A y \in {a, b} : least <= y) /\ \A x \in {a, b} : (\A y \in {a, b} : x <= y) => x = least
        /\ most \in {a, b} /\ (\A y \in {a, b} : most >= y) /\ \A x \in {a, b} : (\A y \in {a, b} : x >= y) => x = most
    OBVIOUS
  <1> HIDE DEF least, most
  <1>4. Min({a, b}) = least /\ Max({a, b}) = most
    BY <1>1, <1>2, <1>3
  <1> QED BY <1>4 DEF least, most

\* Things are counted by their classes.
LEMMA CountedByClass ==
  ASSUME NEW A, IsFiniteSet(A), NEW S, IsFiniteSet(S), \A e \in S : e.cls \in A,
         NEW f, \A a \in A : f[a] = Cardinality({e \in S : e.cls = a})
  PROVE  SumFunctionOnSet(f, A) = Cardinality(S)
  <1> DEFINE R == {p \in A \X S : p[2].cls = p[1]}
             of == [a \in A |-> {e \in S : e.cls = a}]
             g == [e \in S |-> <<e.cls, e>>]
  <1>1. R \in SUBSET (A \X S) /\ (\A a \in A : of[a] \in SUBSET S) /\ \A a \in A : f[a] = Cardinality(of[a])
    OBVIOUS
  <1>2. \A a \in A, e \in S : e \in of[a] <=> <<a, e>> \in R
    OBVIOUS
  <1>3. g \in Bijection(S, R)
    <2>1. \A e \in S : g[e] = <<e.cls, e>> /\ g[e] \in R
      OBVIOUS
    <2>2. g \in [S -> R]
      BY <2>1
    <2>3. \A e \in S, d \in S : g[e] = g[d] => e = d
      BY <2>1
    <2>4. \A p \in R : \E e \in S : g[e] = p
      <3> SUFFICES ASSUME NEW p \in R PROVE \E e \in S : g[e] = p
        OBVIOUS
      <3>1. p[2] \in S /\ p = <<p[1], p[2]>> /\ p[2].cls = p[1]
        OBVIOUS
      <3> QED BY <2>1, <3>1
    <2> HIDE DEF g, R
    <2> QED BY <2>2, <2>3, <2>4 DEF Bijection, Injection, Surjection, IsInjective
  <1> HIDE DEF R, of, g
  <1>4. SumFunctionOnSet(f, A) = Cardinality(R)
    BY <1>1, <1>2, CountedByFirst
  <1>5. Cardinality(S) = Cardinality(R)
    <2>1. ExistsBijection(S, R)
      BY <1>3 DEF ExistsBijection
    <2> QED BY <2>1, FS_Bijection
  <1> QED BY <1>4, <1>5

\* A sum is no less than another, term by term.
LEMMA SumKeepsOrder ==
  ASSUME NEW S, IsFiniteSet(S), NEW f, NEW g, \A x \in S : f[x] \in Int /\ g[x] \in Int /\ f[x] <= g[x]
  PROVE  SumFunctionOnSet(f, S) <= SumFunctionOnSet(g, S) /\ SumFunctionOnSet(f, S) \in Int /\ SumFunctionOnSet(g, S) \in Int
  <1> DEFINE d == [x \in S |-> g[x] - f[x]]
  <1>1. \A x \in S : d[x] \in Nat /\ d[x] \in Int /\ f[x] \in Int /\ g[x] = f[x] + d[x]
    OBVIOUS
  <1> HIDE DEF d
  <1>2. SumFunctionOnSet(g, S) = SumFunctionOnSet(f, S) + SumFunctionOnSet(d, S)
    BY <1>1, SumOfBoth
  <1>3. SumFunctionOnSet(d, S) \in Nat
    BY <1>1, SumNat
  <1>4. SumFunctionOnSet(f, S) \in Int
    BY SumType
  <1>5. SumFunctionOnSet(g, S) \in Int
    BY SumType
  <1> QED BY <1>2, <1>3, <1>4, <1>5

\* The depth at a cent is no less than the depth at two.
LEMMA DeeperLens ==
  ASSUME Remembered, NEW c, NEW m, NEW e, AsTold(c, m, e)
  PROVE  c.open_c1 \in Nat /\ c.open_c1 >= c.open_c2
  <1>1. /\ m \in Markets /\ e \in EpisodesOf(m) /\ c.market = m /\ c.open_t = e.open_t /\ c.open_c2 = e.open_c2 /\ c.open_c1 = OpenC1(c)
    BY DEF AsTold
  <1>2. c.open_c2 \in Nat
    BY ToldTyped
  <1> DEFINE q == log[m]
             opens == OpensAt(m, c.open_t)
             j == Min(opens)
  <1>3. /\ q \in Seq(Record) /\ seen[m] \in Seq(Record) /\ DOMAIN q = 1..Len(q) /\ Len(q) \in Nat
        /\ InTurn(seen[m], now) /\ KeptTrue(q, seen[m], markers) /\ \A i \in 1..Len(q) : q[i] \in Record
    BY <1>1, RememberedOf
  <1>4. PICK i \in 1..Len(q) : q[i].label = "OPEN" /\ q[i].t = e.open_t /\ q[i].px.c2 = e.open_c2
    BY <1>1, EpisodeEnds
  <1>5. opens \in SUBSET Nat /\ i \in opens
    BY <1>1, <1>3, <1>4 DEF OpensAt
  <1>6. j \in opens
    <2> HIDE DEF opens
    <2>1. \E x \in opens : \A y \in opens : x <= y
      BY <1>5, LeastOfMany
    <2>2. j = CHOOSE x \in opens : \A y \in opens : x <= y
      BY DEF Min
    <2> QED BY <2>1, <2>2
  <1>7. j \in 1..Len(q) /\ q[j].label = "OPEN" /\ q[j].t = e.open_t
    BY <1>1, <1>3, <1>6 DEF OpensAt
  <1> DEFINE c1 == q[j].px.c1
  <1>8. OpenC1(c) = IF c1 = None THEN c.open_c2 ELSE c1
    <2>1. opens # {}
      BY <1>5
    <2>2. OpenC1(c) = LET d == IF opens = {} THEN None ELSE c1 IN IF d = None THEN c.open_c2 ELSE d
      BY <1>1 DEF OpenC1
    <2> HIDE DEF opens, c1
    <2> QED BY <2>1, <2>2
  <1> HIDE DEF j, opens
  <1>9. q[j] = q[i]
    <2>1. q[j].t = q[i].t /\ q[j].label = q[i].label /\ q[j].label # "CLOSE"
      BY <1>4, <1>7
    <2> HIDE DEF q
    <2> QED BY <1>3, <1>7, <2>1, SameMoment
  <1>10. q[j].px \in Books /\ q[j].px.c2 = c.open_c2
    BY <1>1, <1>3, <1>4, <1>7, <1>9 DEF Record
  <1>11. c1 # None => c1 \in Nat /\ c1 >= c.open_c2
    BY <1>10, LatencyAssumption
  <1> QED BY <1>1, <1>2, <1>8, <1>11

\* The size is what the lens shows, or the clip.
LEMMA Sized ==
  ASSUME NEW c, c.open_c1 \in Nat, c.open_c2 \in Nat, c.open_c1 >= c.open_c2, NEW clip \in Nat
  PROVE  /\ Size(c, "c1", clip) \in Nat /\ Size(c, "c2", clip) \in Nat /\ Size(c, "c2", clip) <= Size(c, "c1", clip)
         /\ c.open_c2 >= 1 /\ clip = 1 => Size(c, "c2", clip) = 1
  <1> DEFINE a == c.open_c1
             b == c.open_c2
  <1>1. Size(c, "c1", clip) = Min({a, clip}) /\ Size(c, "c2", clip) = Min({b, clip})
    BY DEF Size
  <1>2. a \in Int /\ b \in Int /\ clip \in Int
    OBVIOUS
  <1>3. a \in Nat /\ b \in Nat /\ a >= b /\ (c.open_c2 >= 1 <=> b >= 1)
    OBVIOUS
  <1> HIDE DEF a, b
  <1>4. Min({a, clip}) = IF a <= clip THEN a ELSE clip
    BY <1>2, MinMaxOfTwo
  <1>5. Min({b, clip}) = IF b <= clip THEN b ELSE clip
    BY <1>2, MinMaxOfTwo
  <1> QED BY <1>1, <1>3, <1>4, <1>5

\* What the fills of a cohort bring.
LEMMA NetsPay ==
  ASSUME Remembered, NEW c \in Cohort, NEW L \in Latencies
  PROVE  NetAt(c, L) \in Nat /\ c.open_c1 \in Nat /\ c.open_c2 \in Nat /\ c.open_c1 >= c.open_c2 /\ c.open_c2 >= 1
  <1>1. PICK m, e : AsTold(c, m, e)
    BY CohortIs
  <1>2. c.open_t + L \in Nat
    BY <1>1, OutcomeIs
  <1>3. EdgeAt(c, c.open_t + L) \in Int /\ EdgeAt(c, c.open_t + L) > 0
    BY <1>1, <1>2, EdgeAtIs
  <1>4. NetAt(c, L) \in Nat
    BY <1>3 DEF NetAt
  <1> QED BY <1>1, <1>4, ToldTyped, DeeperLens

\* With one contract an episode the two views count the same.
LEMMA ViewsDoAgree == ASSUME Remembered PROVE ViewsAgree(Cohort)
  <1> SUFFICES ASSUME NEW L \in Latencies, NEW u \in UnwindCosts
               PROVE  Dollarize(Cohort, L, u, "c2", 1) = Ev(EvRow(Cohort, L), u)
    BY DEF ViewsAgree
  <1> DEFINE S == Survivors(Cohort, L)
             T == Lost(Cohort, L)
             f == [e \in S |-> Size(e, "c2", 1) * NetAt(e, L)]
             g == [e \in S |-> NetAt(e, L)]
             h == [e \in T |-> Size(e, "c2", 1) * u]
  <1>1. IsFiniteSet(S) /\ IsFiniteSet(T) /\ S \subseteq Cohort /\ T \subseteq Cohort /\ u \in Int
    <2>1. S \subseteq Cohort /\ T \subseteq Cohort
      BY DEF Survivors, Lost
    <2> HIDE DEF S, T
    <2> QED BY <2>1, CohortIs, FS_Subset, LatencyAssumption
  <1>2. \A e \in Cohort : Size(e, "c2", 1) = 1 /\ NetAt(e, L) \in Int
    <2> SUFFICES ASSUME NEW e \in Cohort PROVE Size(e, "c2", 1) = 1 /\ NetAt(e, L) \in Int
      OBVIOUS
    <2>1. NetAt(e, L) \in Nat /\ e.open_c1 \in Nat /\ e.open_c2 \in Nat /\ e.open_c1 >= e.open_c2 /\ e.open_c2 >= 1
      BY NetsPay
    <2> QED BY <2>1, Sized
  <1>3. Dollarize(Cohort, L, u, "c2", 1) = SumFunctionOnSet(f, S) - SumFunctionOnSet(h, T)
    BY DEF Dollarize, SumFunction
  <1>4. Ev(EvRow(Cohort, L), u) = SumFunctionOnSet(g, S) - u * Cardinality(T)
    BY DEF Ev, EvRow, SumFunction
  <1>5. SumFunctionOnSet(f, S) = SumFunctionOnSet(g, S)
    <2>1. \A e \in S : f[e] = g[e]
      BY <1>1, <1>2
    <2> HIDE DEF S, f, g
    <2> QED BY <1>1, <2>1, SumExtensional
  <1>6. SumFunctionOnSet(h, T) = u * Cardinality(T)
    <2>1. \A e \in T : h[e] = u
      BY <1>1, <1>2
    <2> HIDE DEF T, h
    <2> QED BY <1>1, <2>1, SumOfConstant
  <1> HIDE DEF S, T, f, g, h
  <1> QED BY <1>3, <1>4, <1>5, <1>6

\* The deeper lens shows no less.
LEMMA DeeperPays == ASSUME Remembered PROVE C1IsDeeper(Cohort)
  <1> SUFFICES ASSUME NEW L \in Latencies, Lost(Cohort, L) = {}, NEW clip \in Clips
               PROVE  Dollarize(Cohort, L, 0, "c1", clip) >= Dollarize(Cohort, L, 0, "c2", clip)
    BY DEF C1IsDeeper
  <1> DEFINE S == Survivors(Cohort, L)
             f == [e \in S |-> Size(e, "c2", clip) * NetAt(e, L)]
             g == [e \in S |-> Size(e, "c1", clip) * NetAt(e, L)]
  <1>1. IsFiniteSet(S) /\ S \subseteq Cohort /\ clip \in Nat
    <2>1. S \subseteq Cohort
      BY DEF Survivors
    <2> HIDE DEF S
    <2> QED BY <2>1, CohortIs, FS_Subset, LatencyAssumption
  <1>2. \A e \in S : f[e] \in Int /\ g[e] \in Int /\ f[e] <= g[e]
    <2> SUFFICES ASSUME NEW e \in Cohort
                 PROVE  /\ Size(e, "c2", clip) * NetAt(e, L) \in Int /\ Size(e, "c1", clip) * NetAt(e, L) \in Int
                        /\ Size(e, "c2", clip) * NetAt(e, L) <= Size(e, "c1", clip) * NetAt(e, L)
      BY <1>1
    <2>1. NetAt(e, L) \in Nat /\ e.open_c1 \in Nat /\ e.open_c2 \in Nat /\ e.open_c1 >= e.open_c2
      BY NetsPay
    <2>2. Size(e, "c1", clip) \in Nat /\ Size(e, "c2", clip) \in Nat /\ Size(e, "c2", clip) <= Size(e, "c1", clip)
      BY <1>1, <2>1, Sized
    <2>3. \A x \in Nat, y \in Nat, k \in Nat : x <= y => x * k <= y * k /\ x * k \in Int /\ y * k \in Int
      OBVIOUS
    <2> QED BY <2>1, <2>2, <2>3
  <1>3. /\ Dollarize(Cohort, L, 0, "c1", clip) = SumFunctionOnSet(g, S) - SumFunctionOnSet([e \in {} |-> Size(e, "c1", clip) * 0], {})
        /\ Dollarize(Cohort, L, 0, "c2", clip) = SumFunctionOnSet(f, S) - SumFunctionOnSet([e \in {} |-> Size(e, "c2", clip) * 0], {})
    BY DEF Dollarize, SumFunction
  <1> HIDE DEF S, f, g
  <1>4. SumFunctionOnSet(f, S) <= SumFunctionOnSet(g, S) /\ SumFunctionOnSet(f, S) \in Int /\ SumFunctionOnSet(g, S) \in Int
    BY <1>1, <1>2, SumKeepsOrder
  <1>5. \A h : SumFunctionOnSet(h, {}) = 0
    BY SumOfNothing
  <1>6. Dollarize(Cohort, L, 0, "c1", clip) = SumFunctionOnSet(g, S) /\ Dollarize(Cohort, L, 0, "c2", clip) = SumFunctionOnSet(f, S)
    BY <1>3, <1>4, <1>5
  <1> QED BY <1>4, <1>6

\* The parts of a cohort by class, and by hour.
LEMMA ClassesAddUp ==
  ASSUME Remembered, NEW L \in Latencies
  PROVE  LET stats == [c \in Classes |-> ClassStats(Cohort, c, L)] IN
           /\ SumFunction([c \in Classes |-> stats[c].survived]) = Cardinality(Survivors(Cohort, L))
           /\ SumFunction([c \in Classes \ {"cheap_made"} |-> stats[c].n]) = Cardinality(Gated(Cohort))
  <1> DEFINE stats == [c \in Classes |-> ClassStats(Cohort, c, L)]
             S == Survivors(Cohort, L)
             G == Gated(Cohort)
             A == Classes \ {"cheap_made"}
             f == [c \in Classes |-> stats[c].survived]
             g == [c \in A |-> stats[c].n]
  <1>1. /\ S \subseteq Cohort /\ G \subseteq Cohort
    BY DEF Survivors, Gated
  <1>2. IsFiniteSet(Classes) /\ IsFiniteSet(A)
    <2>1. IsFiniteSet({"unclassified"})
      BY FS_Singleton
    <2>2. IsFiniteSet({"mixed"} \cup {"unclassified"})
      BY <2>1, FS_AddElement
    <2>3. IsFiniteSet({"mixed"} \cup {"unclassified"} \cup {"dear_made"})
      BY <2>2, FS_AddElement
    <2>4. IsFiniteSet({"mixed"} \cup {"unclassified"} \cup {"dear_made"} \cup {"cheap_made"})
      BY <2>3, FS_AddElement
    <2>5. Classes = {"mixed"} \cup {"unclassified"} \cup {"dear_made"} \cup {"cheap_made"}
      BY DEF Classes
    <2> QED BY <2>4, <2>5, FS_Subset
  <1>3. IsFiniteSet(S) /\ IsFiniteSet(G)
    <2> HIDE DEF S, G
    <2> QED BY <1>1, CohortIs, FS_Subset
  <1>4. \A e \in Cohort : e.cls \in Classes
    <2> SUFFICES ASSUME NEW e \in Cohort PROVE e.cls \in Classes
      OBVIOUS
    <2>1. PICK m, d : AsTold(e, m, d)
      BY CohortIs
    <2> QED BY <2>1 DEF AsTold
  <1>5. (\A e \in S : e.cls \in Classes) /\ \A e \in G : e.cls \in A
    BY <1>1, <1>4 DEF Gated
  <1>6. \A c \in Classes : f[c] = Cardinality({e \in S : e.cls = c})
    <2> SUFFICES ASSUME NEW c \in Classes PROVE f[c] = Cardinality({e \in S : e.cls = c})
      OBVIOUS
    <2>1. f[c] = ClassStats(Cohort, c, L).survived
      OBVIOUS
    <2>2. ClassStats(Cohort, c, L).survived = Cardinality(Survivors({e \in Cohort : e.cls = c}, L))
      BY DEF ClassStats
    <2>3. Survivors({e \in Cohort : e.cls = c}, L) = {e \in S : e.cls = c}
      BY DEF Survivors
    <2> HIDE DEF f, S
    <2> QED BY <2>1, <2>2, <2>3
  <1>7. \A c \in A : g[c] = Cardinality({e \in G : e.cls = c})
    <2> SUFFICES ASSUME NEW c \in A PROVE g[c] = Cardinality({e \in G : e.cls = c})
      OBVIOUS
    <2>1. g[c] = ClassStats(Cohort, c, L).n /\ c # "cheap_made"
      OBVIOUS
    <2>2. ClassStats(Cohort, c, L).n = Cardinality({e \in Cohort : e.cls = c})
      BY DEF ClassStats
    <2>3. {e \in Cohort : e.cls = c} = {e \in G : e.cls = c}
      BY <2>1 DEF Gated
    <2> HIDE DEF g, G
    <2> QED BY <2>1, <2>2, <2>3
  <1>8. SumFunction(f) = SumFunctionOnSet(f, Classes) /\ SumFunction(g) = SumFunctionOnSet(g, A)
    BY DEF SumFunction
  <1> HIDE DEF S, G, A, f, g
  <1>9. SumFunctionOnSet(f, Classes) = Cardinality(S)
    BY <1>2, <1>3, <1>5, <1>6, CountedByClass
  <1>10. SumFunctionOnSet(g, A) = Cardinality(G)
    BY <1>2, <1>3, <1>5, <1>7, CountedByClass
  <1>11. SumFunction(f) = Cardinality(S) /\ SumFunction(g) = Cardinality(G)
    BY <1>8, <1>9, <1>10
  <1> QED BY <1>11 DEF f, g, S, G, A

\* The hours of a cohort add up.
LEMMA HoursAddUp ==
  ASSUME Remembered, NEW L \in Latencies, NEW inside \in SUBSET Cohort
  PROVE  \A field \in DOMAIN Metrics(Cohort, L) :
           Metrics(inside, L)[field] + Metrics(Cohort \ inside, L)[field] = Metrics(Cohort, L)[field]
  <1> DEFINE out == Cohort \ inside
  <1>1. IsFiniteSet(Cohort) /\ \A e \in Cohort : e.open_net \in Int /\ e.open_c2 \in Nat
    <2>1. ASSUME NEW e \in Cohort PROVE e.open_net \in Int /\ e.open_c2 \in Nat
      <3>1. PICK m, d : AsTold(e, m, d)
        BY CohortIs
      <3> QED BY <3>1, ToldTyped
    <2> QED BY <2>1, CohortIs
  <1>2. IsFiniteSet(inside) /\ IsFiniteSet(out)
    BY <1>1, FS_Subset
  <1>3. \A T \in SUBSET Cohort : Cardinality(T) + Cardinality(Cohort \ T) = Cardinality(Cohort)
    <2> SUFFICES ASSUME NEW T \in SUBSET Cohort PROVE Cardinality(T) + Cardinality(Cohort \ T) = Cardinality(Cohort)
      OBVIOUS
    <2>1. Cohort \cap T = T
      OBVIOUS
    <2>2. Cardinality(Cohort \ T) = Cardinality(Cohort) - Cardinality(T)
      BY <1>1, <2>1, FS_Difference
    <2>3. Cardinality(Cohort) \in Nat /\ Cardinality(T) \in Nat
      BY <1>1, FS_Subset, FS_CardinalityType
    <2> QED BY <2>2, <2>3
  <1>4. Cardinality(Survivors(inside, L)) + Cardinality(Survivors(out, L)) = Cardinality(Survivors(Cohort, L))
    <2> DEFINE S == Survivors(Cohort, L)
               T == Survivors(inside, L)
    <2>1. T \subseteq S /\ S \subseteq Cohort /\ Survivors(out, L) = S \ T /\ S \cap T = T
      BY DEF Survivors
    <2> HIDE DEF S, T
    <2>2. IsFiniteSet(S) /\ IsFiniteSet(T)
      BY <1>1, <2>1, FS_Subset
    <2>3. Cardinality(S \ T) = Cardinality(S) - Cardinality(T)
      BY <2>1, <2>2, FS_Difference
    <2>4. Cardinality(S) \in Nat /\ Cardinality(T) \in Nat
      BY <2>2, FS_CardinalityType
    <2>5. Cardinality(T) + Cardinality(S \ T) = Cardinality(S)
      BY <2>3, <2>4
    <2> QED BY <2>1, <2>5 DEF S, T
  <1>5. ASSUME NEW w, DOMAIN w = Cohort, \A e \in Cohort : w[e] \in Int
        PROVE  SumFunctionOnSet(w, inside) + SumFunctionOnSet(w, out) = SumFunctionOnSet(w, Cohort)
    BY <1>1, <1>5, SumSplit
  <1>6. ASSUME NEW w, NEW v, NEW T \in SUBSET Cohort, DOMAIN v = T, \A e \in T : v[e] = w[e]
        PROVE  SumFunction(v) = SumFunctionOnSet(w, T)
    <2>1. IsFiniteSet(T)
      BY <1>1, FS_Subset
    <2>2. SumFunctionOnSet(v, T) = SumFunctionOnSet(w, T)
      BY <1>6, <2>1, SumExtensional
    <2> QED BY <1>6, <2>2 DEF SumFunction
  <1> DEFINE w == [e \in Cohort |-> ProfitPer(e) * e.open_c2]
             k == [e \in Cohort |-> CostPer(e) * e.open_c2]
  <1>7. /\ DOMAIN w = Cohort /\ DOMAIN k = Cohort /\ \A e \in Cohort : w[e] \in Int /\ k[e] \in Int
    <2> SUFFICES ASSUME NEW e \in Cohort PROVE ProfitPer(e) * e.open_c2 \in Int /\ CostPer(e) * e.open_c2 \in Int
      OBVIOUS
    <2> DEFINE n == e.open_net
               a == (n + 50) \div 2
               b == 10000 - n
    <2>1. n \in Int /\ a \in Int /\ b \in Int /\ e.open_c2 \in Int
      <3>1. n \in Int /\ e.open_c2 \in Nat
        BY <1>1
      <3> HIDE DEF n
      <3>2. n + 50 \in Int /\ b \in Int /\ e.open_c2 \in Int
        BY <3>1
      <3>3. a \in Int
        BY <3>2
      <3> QED BY <3>1, <3>2, <3>3
    <2>2. ProfitPer(e) = Max({50, a}) /\ CostPer(e) = Max({1000, b})
      BY DEF ProfitPer, CostPer
    <2> HIDE DEF n, a, b
    <2>3. Max({50, a}) \in Int
      <3>1. Max({50, a}) = IF 50 >= a THEN 50 ELSE a
        BY <2>1, MinMaxOfTwo
      <3> QED BY <2>1, <3>1
    <2>4. Max({1000, b}) \in Int
      <3>1. Max({1000, b}) = IF 1000 >= b THEN 1000 ELSE b
        BY <2>1, MinMaxOfTwo
      <3> QED BY <2>1, <3>1
    <2> QED BY <2>1, <2>2, <2>3, <2>4
  <1> DEFINE W(T) == SumFunction([e \in T |-> ProfitPer(e) * e.open_c2])
             K(T) == SumFunction([e \in T |-> CostPer(e) * e.open_c2])
  <1>8. ASSUME NEW T \in SUBSET Cohort PROVE W(T) = SumFunctionOnSet(w, T) /\ K(T) = SumFunctionOnSet(k, T)
    <2> DEFINE x == [e \in T |-> ProfitPer(e) * e.open_c2]
               y == [e \in T |-> CostPer(e) * e.open_c2]
    <2>1. DOMAIN x = T /\ DOMAIN y = T /\ \A e \in T : x[e] = w[e] /\ y[e] = k[e]
      OBVIOUS
    <2>2. W(T) = SumFunction(x) /\ K(T) = SumFunction(y)
      OBVIOUS
    <2> HIDE DEF x, y, w, k, W, K
    <2> QED BY <1>6, <2>1, <2>2
  <1>9. W(inside) + W(out) = W(Cohort) /\ K(inside) + K(out) = K(Cohort)
    <2>1. inside \in SUBSET Cohort /\ out \in SUBSET Cohort /\ Cohort \in SUBSET Cohort
      OBVIOUS
    <2> HIDE DEF W, K, w, k, out
    <2> QED BY <1>5, <1>7, <1>8, <2>1
  <1>10. ASSUME NEW T
         PROVE  Metrics(T, L) = [n |-> Cardinality(T), survived |-> Cardinality(Survivors(T, L)), edge |-> W(T), cost |-> K(T)]
    BY DEF Metrics
  <1> HIDE DEF W, K, w, k
  <1>11. Cardinality(inside) + Cardinality(out) = Cardinality(Cohort)
    BY <1>3
  <1> SUFFICES ASSUME NEW field \in {"n", "survived", "edge", "cost"}
               PROVE  Metrics(inside, L)[field] + Metrics(out, L)[field] = Metrics(Cohort, L)[field]
    BY <1>10
  <1>12. CASE field = "n"
    BY <1>10, <1>11, <1>12
  <1>13. CASE field = "survived"
    BY <1>4, <1>10, <1>13
  <1>14. CASE field = "edge"
    BY <1>9, <1>10, <1>14
  <1>15. CASE field = "cost"
    BY <1>9, <1>10, <1>15
  <1> QED BY <1>12, <1>13, <1>14, <1>15

\* The parts of a cohort add up to it.
LEMMA PartsDoAddUp == ASSUME Remembered PROVE PartsAddUp(Cohort)
  <1>1. \A L \in Latencies : {e \in Cohort : InWindow(e)} \in SUBSET Cohort
    OBVIOUS
  <1> QED BY <1>1, ClassesAddUp, HoursAddUp DEF PartsAddUp

\* An episode that is filled.
LEMMA FilledIs ==
  ASSUME NEW e \in UNION {Filled(m) : m \in Markets}, Remembered
  PROVE  e.market \in Markets /\ e \in EpisodesOf(e.market)
  <1>1. PICK m \in Markets : e \in Filled(m)
    OBVIOUS
  <1>2. e \in EpisodesOf(m)
    BY <1>1 DEF Filled, Capturable
  <1>3. e.market = m
    BY <1>2, EpisodeEnds
  <1> QED BY <1>2, <1>3

\* A flip that is acted on.
LEMMA FlipIs ==
  ASSUME Remembered, NEW m \in Markets, NEW e, NEW i \in FlipEvents(m, e)
  PROVE  /\ i \in 1..Len(log[m]) /\ log[m][i].label = "FLIP" /\ log[m][i] \in Record /\ Faithful(log[m][i])
         /\ EdgeState(log[m][i].px).dir # EntryRecord(m, e).dir
  <1>1. i \in DOMAIN log[m] /\ log[m][i].label = "FLIP" /\ ReverseEdge(log[m][i].px).dir # EntryRecord(m, e).dir
    BY DEF FlipEvents, FirstOf
  <1>2. i \in 1..Len(log[m]) /\ log[m][i] \in Record /\ Faithful(log[m][i])
    BY <1>1, RememberedOf DEF KeptTrue
  <1>3. ReverseEdge(log[m][i].px).dir = EdgeState(log[m][i].px).dir
    BY DEF ReverseEdge
  <1> QED BY <1>1, <1>2, <1>3

\* What was entered was seen, the other way.
LEMMA FlipsDoTurn == ASSUME Remembered PROVE FlipsTurnThePosition(UNION {Filled(m) : m \in Markets})
  <1> SUFFICES ASSUME NEW e \in UNION {Filled(m) : m \in Markets}, NEW i \in FlipEvents(e.market, e)
               PROVE  \E j \in DOMAIN seen[e.market] :
                        /\ seen[e.market][j].t = e.open_t /\ seen[e.market][j].label = "OPEN"
                        /\ seen[e.market][j].dir # EdgeState(log[e.market][i].px).dir
    BY DEF FlipsTurnThePosition
  <1>1. e.market \in Markets /\ e \in EpisodesOf(e.market)
    BY FilledIs
  <1>2. PICK k : EnteredAt(e.market, e, k)
    BY <1>1, EntryIs
  <1>3. k \in DOMAIN seen[e.market]
    BY <1>1, <1>2, RememberedOf DEF EnteredAt
  <1>4. EdgeState(log[e.market][i].px).dir # EntryRecord(e.market, e).dir
    BY <1>1, FlipIs
  <1> QED BY <1>2, <1>3, <1>4 DEF EnteredAt

\* What Kalshi rounds up on an order is less than a cent, and both venues charge either side of a price the same.
LEMMA RoundedUp ==
  ASSUME NEW p \in Int
  PROVE  /\ KFee(p) \in Int /\ PFee(p) \in Int /\ KOrderFee(p, 1) \in Int
         /\ KFee(p) <= KOrderFee(p, 1) /\ KOrderFee(p, 1) < KFee(p) + 100
         /\ KFee(100 - p) = KFee(p) /\ PFee(100 - p) = PFee(p)
  <1> DEFINE w == 7 * p * (100 - p)
  <1>1. w \in Int /\ KFee(p) \in Int /\ PFee(p) \in Int
    BY FeesTyped
  <1>2. KFee(100 - p) = KFee(p) /\ PFee(100 - p) = PFee(p)
    <2>1. 100 - (100 - p) = p /\ 100 - p \in Int
      OBVIOUS
    <2>2. Priced(100 - p) <=> Priced(p)
      BY DEF Priced
    <2>3. 7 * (100 - p) * p = 7 * p * (100 - p) /\ 5 * (100 - p) * p = 5 * p * (100 - p)
      OBVIOUS
    <2> QED BY <2>1, <2>2, <2>3 DEF KFee, PFee
  <1>3. CASE ~ Priced(p)
    BY <1>1, <1>2, <1>3 DEF KFee, KOrderFee
  <1>4. CASE Priced(p)
    <2>1. KFee(p) = w \div 100 /\ KOrderFee(p, 1) = 100 * ((w + 9999) \div 10000)
      <3>1. 7 * 1 * p * (100 - p) = w
        OBVIOUS
      <3> QED BY <1>4, <3>1 DEF KFee, KOrderFee
    <2>2. 0 < p /\ p < 100
      BY <1>4 DEF Priced
    <2>3. CASE p <= 17 \/ p >= 83
      <3>1. 1 <= w /\ w <= 10000
        <4>1. (p - 17) * (p - 83) >= 0 /\ (p - 17) * (p - 83) = p * p - 100 * p + 1411
          BY <2>2, <2>3
        <4>2. (p - 1) * (99 - p) >= 0 /\ (p - 1) * (99 - p) = 100 * p - p * p - 99
          BY <2>2
        <4>3. w = 7 * (100 * p - p * p)
          OBVIOUS
        <4> DEFINE z == 100 * p - p * p
        <4>4. z \in Int /\ z <= 1411 /\ z >= 99 /\ w = 7 * z
          BY <4>1, <4>2, <4>3
        <4> HIDE DEF w, z
        <4> QED BY <4>4
      <3>2. w >= 693 /\ w <= 9900
        <4>1. (p - 17) * (p - 83) >= 0 /\ (p - 17) * (p - 83) = p * p - 100 * p + 1411
          BY <2>2, <2>3
        <4>2. (p - 1) * (99 - p) >= 0 /\ (p - 1) * (99 - p) = 100 * p - p * p - 99
          BY <2>2
        <4>3. w = 7 * (100 * p - p * p)
          OBVIOUS
        <4> DEFINE z == 100 * p - p * p
        <4>4. z \in Int /\ z <= 1411 /\ z >= 99 /\ w = 7 * z
          BY <4>1, <4>2, <4>3
        <4> HIDE DEF w, z
        <4> QED BY <4>4
      <3> HIDE DEF w
      <3>3. (w + 9999) \div 10000 = 1 /\ w \div 100 <= 100 /\ w \div 100 > 0
        BY <1>1, <3>2
      <3> QED BY <1>1, <1>2, <2>1, <3>3
    <2>4. CASE 18 <= p /\ p <= 82
      <3>1. w >= 10332 /\ w <= 17500
        <4>1. (p - 18) * (82 - p) >= 0 /\ (p - 18) * (82 - p) = 100 * p - p * p - 1476
          BY <2>4
        <4>2. (p - 50) * (p - 50) >= 0 /\ (p - 50) * (p - 50) = p * p - 100 * p + 2500
          OBVIOUS
        <4>3. w = 7 * (100 * p - p * p)
          OBVIOUS
        <4> DEFINE z == 100 * p - p * p
        <4>4. z \in Int /\ z <= 2500 /\ z >= 1476 /\ w = 7 * z
          BY <4>1, <4>2, <4>3
        <4> HIDE DEF w, z
        <4> QED BY <4>4
      <3> HIDE DEF w
      <3>2. (w + 9999) \div 10000 = 2 /\ w \div 100 <= 200 /\ w \div 100 > 100
        BY <1>1, <3>1
      <3> QED BY <1>1, <1>2, <2>1, <3>2
    <2> QED BY <2>3, <2>4
  <1> QED BY <1>3, <1>4

\* The books of an edge give its direction its quotes, and its net.
LEMMA EdgeQuoted ==
  ASSUME NEW b \in Books, EdgeState(b).arb
  PROVE  EdgeState(b).dir \in Dirs /\ Quoted(b, EdgeState(b).dir) /\ EdgeState(b).net = NetOf(b, EdgeState(b).dir)
  <1> DEFINE opts == {d \in Dirs : Quoted(b, d) /\ ~ Stale(b)}
             best == IF "P" \in opts /\ \A d \in opts : NetOf(b, "P") >= NetOf(b, d) THEN "P" ELSE "K"
             x == NetOf(b, best)
             y == x > 0
  <1>1. EdgeState(b) = IF opts = {} THEN [arb |-> FALSE, dir |-> "P", net |-> 0] ELSE [arb |-> y, dir |-> best, net |-> x]
    BY DEF EdgeState
  <1>2. opts # {}
    <2>1. opts = {} => EdgeState(b).arb = FALSE
      BY <1>1
    <2> QED BY <2>1
  <1>3. EdgeState(b).dir = best /\ EdgeState(b).net = x
    <2> HIDE DEF opts, best, x, y
    <2> QED BY <1>1, <1>2
  <1>4. best \in opts
    <2>1. "P" \in opts \/ "K" \in opts
      BY <1>2 DEF Dirs
    <2>2. CASE "K" \notin opts
      <3>1. opts = {"P"}
        BY <2>1, <2>2 DEF Dirs
      <3>2. NetOf(b, "P") \in Int
        <4>1. "P" \in Dirs /\ Quoted(b, "P")
          BY <3>1
        <4> QED BY <4>1, NetTyped
      <3>3. \A d \in opts : NetOf(b, "P") >= NetOf(b, d)
        <4> HIDE DEF opts
        <4> QED BY <3>1, <3>2
      <3> HIDE DEF opts
      <3> QED BY <3>1, <3>3
    <2>3. CASE "K" \in opts
      <3> HIDE DEF opts
      <3> QED BY <2>3
    <2> QED BY <2>2, <2>3
  <1>5. best \in Dirs /\ Quoted(b, best)
    BY <1>4
  <1> HIDE DEF best
  <1> QED BY <1>3, <1>5

\* The longer a held position is watched the more of its adds are seen, and the first of them stays.
LEMMA AddsStay ==
  ASSUME Remembered, NEW m \in Markets, NEW e \in EpisodesOf(m), NEW h \in Nat, NEW k \in Nat, h <= k
  PROVE  /\ AddEvents(m, e, h) \subseteq AddEvents(m, e, k)
         /\ \A i \in AddEvents(m, e, k) : i \in AddEvents(m, e, h) \/ log[m][i].t > e.open_t + h
  <1> DEFINE q == log[m]
             S(x) == {i \in DOMAIN q : /\ q[i].label = "WIDEN" /\ Held(e, q[i].t, x)
                                       /\ q[i].dir = OpenDir(m) /\ q[i].net - e.open_net >= TauGain}
  <1>1. AddEvents(m, e, h) = {i \in S(h) : \A j \in S(h) : i <= j} /\ AddEvents(m, e, k) = {i \in S(k) : \A j \in S(k) : i <= j}
    BY DEF AddEvents, FirstOf
  <1>2. /\ q \in Seq(Record) /\ DOMAIN q = 1..Len(q) /\ InOrder(q) /\ \A i \in 1..Len(q) : q[i].t \in Nat
    BY RememberedOf
  <1>3. e.open_t \in Nat
    BY EpisodeEnds
  <1>4. S(h) \subseteq S(k)
    <2> SUFFICES ASSUME NEW i \in 1..Len(q), Held(e, q[i].t, h) PROVE Held(e, q[i].t, k)
      BY <1>2
    <2> DEFINE t == q[i].t
    <2>1. t \in Nat
      BY <1>2
    <2>2. Held(e, t, h) => Held(e, t, k)
      <3> HIDE DEF t
      <3> QED BY <1>3, <2>1 DEF Held
    <2> QED BY <2>2
  <1>5. ASSUME NEW i \in S(k), q[i].t <= e.open_t + h PROVE i \in S(h)
    BY <1>5 DEF Held
  <1>6. ASSUME NEW i \in S(h), NEW j \in S(k), j <= i PROVE j \in S(h)
    <2>1. i \in 1..Len(q) /\ j \in 1..Len(q) /\ q[i].t <= e.open_t + h
      BY <1>2 DEF Held
    <2>2. q[j].t <= q[i].t
      BY <1>2, <1>6, <2>1, LaterInOrder
    <2> DEFINE t == q[i].t
               u == q[j].t
    <2>3. t \in Nat /\ u \in Nat /\ u <= t /\ t <= e.open_t + h
      BY <1>2, <2>1, <2>2
    <2>4. u <= e.open_t + h
      <3> HIDE DEF t, u
      <3> QED BY <1>3, <2>3
    <2> QED BY <1>5, <2>4
  <1>7. \A i \in S(k) : i \in Nat /\ q[i].t \in Nat
    BY <1>2
  <1>8. AddEvents(m, e, h) \subseteq AddEvents(m, e, k)
    <2> SUFFICES ASSUME NEW i \in S(h), \A j \in S(h) : i <= j, NEW j \in S(k) PROVE i <= j
      BY <1>1, <1>4
    <2>1. i \in Nat /\ j \in Nat
      BY <1>4, <1>7
    <2>2. j <= i => j \in S(h)
      BY <1>6
    <2> HIDE DEF S
    <2> QED BY <2>1, <2>2
  <1>9. ASSUME NEW i \in AddEvents(m, e, k), ~ (log[m][i].t > e.open_t + h) PROVE i \in AddEvents(m, e, h)
    <2>1. i \in S(k) /\ \A j \in S(k) : i <= j
      BY <1>1
    <2>2. q[i].t <= e.open_t + h
      <3>1. q[i].t \in Nat
        BY <1>7, <2>1
      <3> QED BY <1>3, <1>9, <3>1
    <2>3. i \in S(h)
      BY <1>5, <2>1, <2>2
    <2>4. \A j \in S(h) : i <= j
      <3> HIDE DEF S
      <3> QED BY <1>4, <2>1
    <2> HIDE DEF S
    <2> QED BY <1>1, <2>3, <2>4
  <1> QED BY <1>8, <1>9

\* A true add stays with a longer hold.
LEMMA AddsDoKeep == ASSUME Remembered PROVE TrueAddsKeep(UNION {Filled(m) : m \in Markets})
  <1> DEFINE filled == UNION {Filled(m) : m \in Markets}
             Of(h, clip) == UNION {{AddOf(e.market, e, i, clip) : i \in AddEvents(e.market, e, h)} : e \in filled}
  <1>1. ASSUME NEW h, NEW clip
        PROVE  /\ Adds(filled, h, clip, FALSE) = {a \in Of(h, clip) : a.size > 0}
               /\ Adds(filled, h, clip, TRUE) = {a \in Adds(filled, h, clip, FALSE) : ~ a.flat}
    BY DEF Adds
  <1>2. ASSUME NEW h \in Holds, NEW k \in Holds, h <= k, NEW clip
        PROVE  /\ Of(h, clip) \subseteq Of(k, clip)
               /\ \A a \in Of(k, clip) : a \in Of(h, clip) \/ a.t > a.e.open_t + h
    <2>1. h \in Nat /\ k \in Nat
      BY LatencyAssumption
    <2>2. ASSUME NEW e \in filled
          PROVE  /\ AddEvents(e.market, e, h) \subseteq AddEvents(e.market, e, k)
                 /\ \A i \in AddEvents(e.market, e, k) : i \in AddEvents(e.market, e, h) \/ log[e.market][i].t > e.open_t + h
      <3>1. e.market \in Markets /\ e \in EpisodesOf(e.market)
        BY FilledIs
      <3> QED BY <1>2, <2>1, <3>1, AddsStay
    <2>3. ASSUME NEW e, NEW i PROVE AddOf(e.market, e, i, clip).t = log[e.market][i].t /\ AddOf(e.market, e, i, clip).e = e
      BY DEF AddOf
    <2> HIDE DEF filled
    <2>4. Of(h, clip) \subseteq Of(k, clip)
      BY <2>2
    <2>5. ASSUME NEW a \in Of(k, clip) PROVE a \in Of(h, clip) \/ a.t > a.e.open_t + h
      <3>1. PICK e \in filled : a \in {AddOf(e.market, e, i, clip) : i \in AddEvents(e.market, e, k)}
        OBVIOUS
      <3>2. PICK i \in AddEvents(e.market, e, k) : a = AddOf(e.market, e, i, clip)
        BY <3>1
      <3>3. i \in AddEvents(e.market, e, h) \/ log[e.market][i].t > e.open_t + h
        BY <2>2
      <3> QED BY <2>3, <3>2, <3>3
    <2> QED BY <2>4, <2>5
  <1> HIDE DEF Of, filled
  <1>3. ASSUME NEW clip \in Clips, NEW h \in Holds, NEW k \in Holds, h <= k
        PROVE  /\ TrueAdds(Adds(filled, h, clip, FALSE)) \subseteq TrueAdds(Adds(filled, k, clip, FALSE))
               /\ \A a \in TrueAdds(Adds(filled, k, clip, FALSE)) \ TrueAdds(Adds(filled, h, clip, FALSE)) : a.t > a.e.open_t + h
    <2> DEFINE A == Of(h, clip)
               B == Of(k, clip)
    <2>1. A \subseteq B /\ \A a \in B : a \in A \/ a.t > a.e.open_t + h
      BY <1>2, <1>3
    <2>2. /\ TrueAdds(Adds(filled, h, clip, FALSE)) = {a \in A : a.size > 0 /\ a.true}
          /\ TrueAdds(Adds(filled, k, clip, FALSE)) = {a \in B : a.size > 0 /\ a.true}
      BY <1>1 DEF TrueAdds
    <2> HIDE DEF A, B
    <2> QED BY <2>1, <2>2
  <1>4. TrueAddsKeep(filled)
    <2> SUFFICES ASSUME NEW clip \in Clips
                 PROVE  LET adds == [h \in Holds |-> Adds(filled, h, clip, FALSE)] IN
                          /\ \A h \in Holds, k \in Holds : h <= k =>
                               /\ TrueAdds(adds[h]) \subseteq TrueAdds(adds[k])
                               /\ \A a \in TrueAdds(adds[k]) \ TrueAdds(adds[h]) : a.t > a.e.open_t + h
                          /\ \A h \in Holds : Adds(filled, h, clip, TRUE) = {a \in adds[h] : ~ a.flat}
      BY DEF TrueAddsKeep
    <2> DEFINE adds == [h \in Holds |-> Adds(filled, h, clip, FALSE)]
    <2>1. \A h \in Holds : adds[h] = Adds(filled, h, clip, FALSE)
      OBVIOUS
    <2> HIDE DEF adds
    <2>2. /\ \A h \in Holds, k \in Holds : h <= k =>
                /\ TrueAdds(adds[h]) \subseteq TrueAdds(adds[k])
                /\ \A a \in TrueAdds(adds[k]) \ TrueAdds(adds[h]) : a.t > a.e.open_t + h
          /\ \A h \in Holds : Adds(filled, h, clip, TRUE) = {a \in adds[h] : ~ a.flat}
      BY <1>1, <1>3, <2>1
    <2> QED BY <2>2 DEF adds
  <1> QED BY <1>4 DEF filled

\* A pair that is entered holds one contract of each venue.
LEMMA EnteredPair ==
  ASSUME NEW a, NEW d \in Dirs
  PROVE  LET l == Pair!Entered(Pair!Flat, a, d, 1)
         IN  /\ l.yes["P"] = (IF d = "P" THEN 1 ELSE 0) /\ l.yes["K"] = (IF d = "K" THEN 1 ELSE 0)
             /\ l.no["P"] = (IF d = "K" THEN 1 ELSE 0) /\ l.no["K"] = (IF d = "P" THEN 1 ELSE 0)
             /\ l.cash = 0 - Pair!PairCost(a, d, 1)
  <1> DEFINE z == [v \in {"P", "K"} |-> 0]
             f == [yes |-> z, no |-> z, cash |-> 0, edges |-> 0]
             c == Pair!PairCost(a, d, 1)
             o == IF d = "P" THEN "K" ELSE "P"
             l == [f EXCEPT !.yes[d] = @ + 1, !.no[o] = @ + 1, !.cash = @ - c, !.edges = @ + 10000 * 1 - c]
  <1>1. Pair!Entered(Pair!Flat, a, d, 1) = l
    BY DEF Pair!Entered, Pair!Flat, Pair!Venues, Pair!Other
  <1>2. d \in {"P", "K"}
    BY DEF Dirs
  <1>3. l.cash = 0 - c
    OBVIOUS
  <1>4. l.yes = [z EXCEPT ![d] = 0 + 1] /\ l.no = [z EXCEPT ![o] = 0 + 1]
    BY <1>2
  <1>5. /\ [z EXCEPT ![d] = 0 + 1]["P"] = (IF d = "P" THEN 1 ELSE 0) /\ [z EXCEPT ![d] = 0 + 1]["K"] = (IF d = "K" THEN 1 ELSE 0)
        /\ [z EXCEPT ![o] = 0 + 1]["P"] = (IF d = "K" THEN 1 ELSE 0) /\ [z EXCEPT ![o] = 0 + 1]["K"] = (IF d = "P" THEN 1 ELSE 0)
    BY <1>2
  <1> HIDE DEF l, c, z, o
  <1> QED BY <1>1, <1>3, <1>4, <1>5 DEF c

\* What an order costs at each venue.
LEMMA OrderFeeIs == ASSUME NEW p \in Int PROVE Pair!OrderFee("K", p, 1) = KOrderFee(p, 1) /\ Pair!OrderFee("P", p, 1) = PFee(p)
  <1>1. 5 * 1 * p * (100 - p) = 5 * p * (100 - p)
    OBVIOUS
  <1>2. Pair!OrderFee("P", p, 1) = PFee(p)
    BY <1>1 DEF Pair!OrderFee, PFee, Priced, Pair!Priced
  <1>3. Pair!OrderFee("K", p, 1) = KOrderFee(p, 1)
    BY DEF Pair!OrderFee, KOrderFee, Priced, Pair!Priced, Pair!KOrderFee
  <1> QED BY <1>2, <1>3

\* What selling a contract at a bid brings.
LEMMA SaleIs ==
  ASSUME NEW p \in Int
  PROVE  /\ Pair!Sale("K", p, 1) = 100 * p - KOrderFee(p, 1) /\ Pair!Sale("P", p, 1) = 100 * p - PFee(p)
         /\ \A v, x : Pair!Sale(v, x, 0) = 0
  <1>1. p # None /\ 100 * 1 * p = 100 * p
    BY QuotesAssumption
  <1> QED BY <1>1, OrderFeeIs DEF Pair!Sale

\* A pair that is turned from P brings both edges, less what is rounded up.
LEMMA CloseFromP ==
  ASSUME NEW a \in Books, NEW b \in Books, Quoted(a, "P"), Quoted(b, "K"), Pair!ClosePnl(a, b, "P") # None
  PROVE  /\ NetOf(a, "P") + NetOf(b, "K") - 200 < Pair!ClosePnl(a, b, "P")
         /\ Pair!ClosePnl(a, b, "P") <= NetOf(a, "P") + NetOf(b, "K")
  <1> DEFINE l == Pair!Entered(Pair!Flat, a, "P", 1)
             p == a.p_ya
             k == 100 - a.k_yb
             r == b.p_yb
             s == 100 - b.k_ya
  <1>1. p \in Int /\ k \in Int /\ r \in Int /\ s \in Int /\ a.k_yb \in Int /\ b.k_ya \in Int /\ b.p_yb # None /\ b.k_ya # None
    BY EpisodesAssumption DEF Quoted
  <1>2. l.yes["P"] = 1 /\ l.yes["K"] = 0 /\ l.no["P"] = 0 /\ l.no["K"] = 1 /\ l.cash = 0 - Pair!PairCost(a, "P", 1)
    BY EnteredPair DEF Dirs
  <1>3. Pair!ClosePnl(a, b, "P") = l.cash + Pair!Proceeds(l, b)
    <2>1. Pair!ClosePnl(a, b, "P") = Pair!Unwound(l, b).cash
      BY DEF Pair!ClosePnl
    <2> HIDE DEF l
    <2> QED BY <2>1 DEF Pair!Unwound, Pair!Flat
  <1> HIDE DEF l
  <1>4. Pair!Proceeds(l, b) = Pair!Sale("P", r, 1) + Pair!Sale("K", s, 1)
    <2>1. Pair!YesBid(b, "P") = r /\ Pair!NoBid(b, "K") = s
      BY <1>1 DEF Pair!YesBid, Pair!NoBid
    <2>2. Pair!Proceeds(l, b) = Pair!Sale("P", r, 1) + 0 + 0 + Pair!Sale("K", s, 1)
      <3>1. \A v, x : Pair!Sale(v, x, 0) = 0
        BY SaleIs
      <3>2. Pair!Proceeds(l, b) = Pair!Sale("P", r, 1) + Pair!Sale("P", Pair!NoBid(b, "P"), 0)
                                  + Pair!Sale("K", Pair!YesBid(b, "K"), 0) + Pair!Sale("K", s, 1)
        BY <1>2, <2>1 DEF Pair!Proceeds
      <3> HIDE DEF r, s
      <3> QED BY <3>1, <3>2
    <2>3. Pair!Sale("P", r, 1) \in Int /\ Pair!Sale("K", s, 1) \in Int
      <3> HIDE DEF r, s
      <3>1. /\ Pair!Sale("P", r, 1) = 100 * r - PFee(r) /\ Pair!Sale("K", s, 1) = 100 * s - KOrderFee(s, 1)
        BY <1>1, SaleIs
      <3>2. PFee(r) \in Int /\ KOrderFee(s, 1) \in Int
        BY <1>1, RoundedUp
      <3> QED BY <1>1, <3>1, <3>2
    <2> HIDE DEF r, s
    <2> QED BY <2>2, <2>3
  <1>5. Pair!PairCost(a, "P", 1) = 100 * (p + k) + PFee(p) + KOrderFee(k, 1)
    <2>1. Pair!YesAsk(a, "P") = p /\ Pair!NoAsk(a, "P") = k /\ Pair!Other("P") = "K"
      BY DEF Pair!YesAsk, Pair!NoAsk, Pair!Other
    <2>2. Pair!PairCost(a, "P", 1) = 100 * 1 * (p + k) + Pair!OrderFee("P", p, 1) + Pair!OrderFee("K", k, 1)
      BY <2>1 DEF Pair!PairCost
    <2> HIDE DEF p, k
    <2> QED BY <1>1, <2>2, OrderFeeIs
  <1>6. NetOf(a, "P") = 100 * (100 - p - k) - (PFee(p) + KFee(k))
    BY DEF NetOf, YesAsk, NoAsk
  <1>7. NetOf(b, "K") = 100 * (100 - (100 - s) - (100 - r)) - (KFee(100 - s) + PFee(100 - r))
    <2>1. b.k_ya = 100 - s
      BY <1>1
    <2> QED BY <2>1 DEF NetOf, YesAsk, NoAsk
  <1> HIDE DEF p, k, r, s
  <1>8. Pair!Sale("P", r, 1) = 100 * r - PFee(r) /\ Pair!Sale("K", s, 1) = 100 * s - KOrderFee(s, 1)
    BY <1>1, SaleIs
  <1>9. /\ PFee(p) \in Int /\ KFee(k) \in Int /\ KOrderFee(k, 1) \in Int /\ KFee(k) <= KOrderFee(k, 1) /\ KOrderFee(k, 1) < KFee(k) + 100
        /\ PFee(r) \in Int /\ KFee(s) \in Int /\ KOrderFee(s, 1) \in Int /\ KFee(s) <= KOrderFee(s, 1) /\ KOrderFee(s, 1) < KFee(s) + 100
        /\ KFee(100 - s) = KFee(s) /\ PFee(100 - r) = PFee(r)
    BY <1>1, RoundedUp
  <1> QED BY <1>1, <1>2, <1>3, <1>4, <1>5, <1>6, <1>7, <1>8, <1>9

\* So does a pair that is turned from K.
LEMMA CloseFromK ==
  ASSUME NEW a \in Books, NEW b \in Books, Quoted(a, "K"), Quoted(b, "P"), Pair!ClosePnl(a, b, "K") # None
  PROVE  /\ NetOf(a, "K") + NetOf(b, "P") - 200 < Pair!ClosePnl(a, b, "K")
         /\ Pair!ClosePnl(a, b, "K") <= NetOf(a, "K") + NetOf(b, "P")
  <1> DEFINE l == Pair!Entered(Pair!Flat, a, "K", 1)
             k == a.k_ya
             p == 100 - a.p_yb
             r == b.k_yb
             s == 100 - b.p_ya
  <1>1. p \in Int /\ k \in Int /\ r \in Int /\ s \in Int /\ a.p_yb \in Int /\ b.p_ya \in Int /\ b.k_yb # None /\ b.p_ya # None
    BY EpisodesAssumption DEF Quoted
  <1>2. l.yes["P"] = 0 /\ l.yes["K"] = 1 /\ l.no["P"] = 1 /\ l.no["K"] = 0 /\ l.cash = 0 - Pair!PairCost(a, "K", 1)
    BY EnteredPair DEF Dirs
  <1>3. Pair!ClosePnl(a, b, "K") = l.cash + Pair!Proceeds(l, b)
    <2>1. Pair!ClosePnl(a, b, "K") = Pair!Unwound(l, b).cash
      BY DEF Pair!ClosePnl
    <2> HIDE DEF l
    <2> QED BY <2>1 DEF Pair!Unwound, Pair!Flat
  <1> HIDE DEF l
  <1>4. Pair!Proceeds(l, b) = Pair!Sale("P", s, 1) + Pair!Sale("K", r, 1)
    <2>1. Pair!YesBid(b, "K") = r /\ Pair!NoBid(b, "P") = s
      BY <1>1 DEF Pair!YesBid, Pair!NoBid
    <2>2. Pair!Proceeds(l, b) = 0 + Pair!Sale("P", s, 1) + Pair!Sale("K", r, 1) + 0
      <3>1. \A v, x : Pair!Sale(v, x, 0) = 0
        BY SaleIs
      <3>2. Pair!Proceeds(l, b) = Pair!Sale("P", Pair!YesBid(b, "P"), 0) + Pair!Sale("P", s, 1)
                                  + Pair!Sale("K", r, 1) + Pair!Sale("K", Pair!NoBid(b, "K"), 0)
        BY <1>2, <2>1 DEF Pair!Proceeds
      <3> HIDE DEF r, s
      <3> QED BY <3>1, <3>2
    <2>3. Pair!Sale("P", s, 1) \in Int /\ Pair!Sale("K", r, 1) \in Int
      <3> HIDE DEF r, s
      <3>1. /\ Pair!Sale("P", s, 1) = 100 * s - PFee(s) /\ Pair!Sale("K", r, 1) = 100 * r - KOrderFee(r, 1)
        BY <1>1, SaleIs
      <3>2. PFee(s) \in Int /\ KOrderFee(r, 1) \in Int
        BY <1>1, RoundedUp
      <3> QED BY <1>1, <3>1, <3>2
    <2> HIDE DEF r, s
    <2> QED BY <2>2, <2>3
  <1>5. Pair!PairCost(a, "K", 1) = 100 * (k + p) + KOrderFee(k, 1) + PFee(p)
    <2>1. Pair!YesAsk(a, "K") = k /\ Pair!NoAsk(a, "K") = p /\ Pair!Other("K") = "P"
      BY DEF Pair!YesAsk, Pair!NoAsk, Pair!Other
    <2>2. Pair!PairCost(a, "K", 1) = 100 * 1 * (k + p) + Pair!OrderFee("K", k, 1) + Pair!OrderFee("P", p, 1)
      BY <2>1 DEF Pair!PairCost
    <2> HIDE DEF p, k
    <2> QED BY <1>1, <2>2, OrderFeeIs
  <1>6. NetOf(a, "K") = 100 * (100 - k - p) - (KFee(k) + PFee(p))
    BY DEF NetOf, YesAsk, NoAsk
  <1>7. NetOf(b, "P") = 100 * (100 - (100 - s) - (100 - r)) - (PFee(100 - s) + KFee(100 - r))
    <2>1. b.p_ya = 100 - s
      BY <1>1
    <2> QED BY <2>1 DEF NetOf, YesAsk, NoAsk
  <1> HIDE DEF p, k, r, s
  <1>8. Pair!Sale("P", s, 1) = 100 * s - PFee(s) /\ Pair!Sale("K", r, 1) = 100 * r - KOrderFee(r, 1)
    BY <1>1, SaleIs
  <1>9. /\ PFee(p) \in Int /\ KFee(k) \in Int /\ KOrderFee(k, 1) \in Int /\ KFee(k) <= KOrderFee(k, 1) /\ KOrderFee(k, 1) < KFee(k) + 100
        /\ PFee(s) \in Int /\ KFee(r) \in Int /\ KOrderFee(r, 1) \in Int /\ KFee(r) <= KOrderFee(r, 1) /\ KOrderFee(r, 1) < KFee(r) + 100
        /\ KFee(100 - r) = KFee(r) /\ PFee(100 - s) = PFee(s)
    BY <1>1, RoundedUp
  <1> QED BY <1>1, <1>2, <1>3, <1>4, <1>5, <1>6, <1>7, <1>8, <1>9

\* Closing what flipped brings both edges, less what is rounded up.
LEMMA ClosesBringBoth == ASSUME Remembered PROVE CloseIsBothEdges(UNION {Filled(m) : m \in Markets})
  <1> DEFINE filled == UNION {Filled(m) : m \in Markets}
             C(e, i) == Pair!ClosePnl(EntryRecord(e.market, e).px, log[e.market][i].px, EntryRecord(e.market, e).dir)
  <1>1. ASSUME NEW e \in filled, NEW i \in FlipEvents(e.market, e), C(e, i) # None
        PROVE  LET net == ReverseEdge(log[e.market][i].px).net IN e.open_net + net - 200 < C(e, i) /\ C(e, i) <= e.open_net + net
    <2>1. e.market \in Markets /\ e \in EpisodesOf(e.market)
      BY FilledIs
    <2> DEFINE m == e.market
               b == log[m][i].px
               x == EntryRecord(m, e)
               a == x.px
    <2>2. PICK k : EnteredAt(m, e, k)
      BY <2>1, EntryIs
    <2>3. x \in Record /\ Faithful(x) /\ x.label = "OPEN" /\ x.net = e.open_net
      BY <2>1, <2>2, RememberedOf DEF EnteredAt
    <2>4. log[m][i].label = "FLIP" /\ log[m][i] \in Record /\ Faithful(log[m][i]) /\ EdgeState(b).dir # x.dir
      BY <2>1, FlipIs
    <2>5. b \in Books /\ EdgeState(b).arb
      BY <2>4, RecordsPay
    <2>6. a \in Books /\ EdgeState(a).arb /\ x.dir = EdgeState(a).dir /\ x.net = EdgeState(a).net
      <3> HIDE DEF x
      <3> QED BY <2>3, RecordsPay
    <2>7. ReverseEdge(b).net = EdgeState(b).net
      BY DEF ReverseEdge
    <2>8. C(e, i) = Pair!ClosePnl(a, b, EdgeState(a).dir)
      BY <2>6
    <2> HIDE DEF a, b, x, C
    <2>9. EdgeState(a).dir \in Dirs /\ Quoted(a, EdgeState(a).dir) /\ EdgeState(a).net = NetOf(a, EdgeState(a).dir)
      BY <2>6, EdgeQuoted
    <2>10. EdgeState(b).dir \in Dirs /\ Quoted(b, EdgeState(b).dir) /\ EdgeState(b).net = NetOf(b, EdgeState(b).dir)
      BY <2>5, EdgeQuoted
    <2>11. CASE EdgeState(a).dir = "P"
      <3>1. EdgeState(b).dir = "K"
        BY <2>4, <2>6, <2>10, <2>11 DEF Dirs
      <3>2. NetOf(a, "P") + NetOf(b, "K") - 200 < C(e, i) /\ C(e, i) <= NetOf(a, "P") + NetOf(b, "K")
        BY <1>1, <2>5, <2>6, <2>8, <2>9, <2>10, <2>11, <3>1, CloseFromP
      <3> QED BY <2>3, <2>6, <2>7, <2>9, <2>10, <2>11, <3>1, <3>2 DEF b, m
    <2>12. CASE EdgeState(a).dir = "K"
      <3>1. EdgeState(b).dir = "P"
        BY <2>4, <2>6, <2>10, <2>12 DEF Dirs
      <3>2. NetOf(a, "K") + NetOf(b, "P") - 200 < C(e, i) /\ C(e, i) <= NetOf(a, "K") + NetOf(b, "P")
        BY <1>1, <2>5, <2>6, <2>8, <2>9, <2>10, <2>12, <3>1, CloseFromK
      <3> QED BY <2>3, <2>6, <2>7, <2>9, <2>10, <2>12, <3>1, <3>2 DEF b, m
    <2> QED BY <2>9, <2>11, <2>12 DEF Dirs
  <1>2. ASSUME NEW f \in FlipsPriced(filled), f.close # None
        PROVE  LET net == ReverseEdge(log[f.e.market][f.i].px).net IN f.e.open_net + net - 200 < f.close /\ f.close <= f.e.open_net + net
    <2>1. PICK e \in filled : f \in {[e |-> e, i |-> i, close |-> C(e, i)] : i \in FlipEvents(e.market, e)}
      BY DEF FlipsPriced
    <2>2. PICK i \in FlipEvents(e.market, e) : f = [e |-> e, i |-> i, close |-> C(e, i)]
      BY <2>1
    <2> HIDE DEF C, filled
    <2>3. f.e = e /\ f.i = i /\ f.close = C(e, i)
      BY <2>2
    <2>4. LET net == ReverseEdge(log[e.market][i].px).net IN e.open_net + net - 200 < C(e, i) /\ C(e, i) <= e.open_net + net
      BY <1>1, <1>2, <2>3
    <2> QED BY <2>3, <2>4
  <1>3. CloseIsBothEdges(filled)
    <2> HIDE DEF filled
    <2> QED BY <1>2 DEF CloseIsBothEdges
  <1> QED BY <1>3 DEF filled

\* What the replays tell of an episode is what would have happened: a fill that survives a latency met the edge it was fired
\* at, or one gone for no longer than the window and a sleep of the flusher, or one that opened again behind a close that came
\* too late to be logged, and is paid what the trackers last saw; one that fails had lost it; who survives a latency survives a
\* shorter one; the two views of the value count one cohort, whose classes and hours add up; a flip turns the position that was
\* entered and brings both edges, less what Kalshi rounds up; and a longer hold keeps every true add.  It takes a restart that
\* is a second or longer.  (ev_at_latency.py, shadow_fill.py, flip_add_backtest.py over the log of FlipDebouncer and
\* TransitionLogger)
THEOREM ReplayAlwaysReal == BootTicks >= TicksPerSecond => (Spec => []ReplayIsReal)
  <1>1. ASSUME Remembered PROVE ReplayIsReal
    BY <1>1, FlipsDoTurn, ClosesBringBoth, AddsDoKeep, SurvivorsWereThere, FailuresWereReal, SurvivorsArePaid, SurvivalsFall,
       ViewsDoAgree, DeeperPays, PartsDoAddUp DEF ReplayIsReal
  <1>2. OrderInv /\ SeenInv /\ RememberInv => ReplayIsReal
    BY <1>1 DEF Remembered
  <1> SUFFICES ASSUME BootTicks >= TicksPerSecond PROVE Spec => []ReplayIsReal
    OBVIOUS
  <1>3. Spec => []OrderInv
    BY OrderAlways
  <1>4. Spec => []SeenInv
    BY SeenAlways
  <1>5. Spec => []RememberInv
    BY RememberAlways
  <1> QED BY <1>2, <1>3, <1>4, <1>5, PTL

(***************************************************************************)
(* The wire                                                                *)
(*                                                                         *)
(* Frames are numbered without a gap up to the last one sent; a loss takes *)
(* the first of those under way.  Each frame says what makes the books     *)
(* before it the books after it, and the last one is of the venue's books  *)
(* now.                                                                    *)
(***************************************************************************)
Change == [side : Sides, px : Rests, by : Int]

Wired ==
  [seq : Nat, ticker : Teams, type : {"snapshot"}, body : Book, after : [Teams -> Book]]
    \cup [seq : Nat, ticker : Teams, type : {"delta"}, body : Change, after : [Teams -> Book]]

\* f is the step from the books p.
Follows(f, p) ==
  /\ \A u \in Teams : u # f.ticker => f.after[u] = p[u]
  /\ f.type = "delta" => f.after[f.ticker] = ApplyDelta(p[f.ticker], f.body.side, f.body.px, f.body.by)

Honest(f) == f.type = "snapshot" => f.body = f.after[f.ticker]

Numbered(q, n) == \A i \in 1..Len(q) : q[i].seq = n - 1 - Len(q) + i

Linked(q, v) ==
  /\ \A i \in 1..Len(q) : Honest(q[i])
  /\ \A i \in 1..Len(q) : i + 1 <= Len(q) => Follows(q[i + 1], q[i].after)
  /\ q # <<>> => q[Len(q)].after = v

\* The next frame to come is the one expected only if no frame was lost before it; then it is a step from the books shown.
InStep(q, n, e, sh, v) ==
  e # None => /\ e <= n - Len(q)
              /\ e = n - Len(q) /\ q = <<>> => sh = v
              /\ e = n - Len(q) /\ q # <<>> => Follows(q[1], sh)

\* A sequence is empty when it has no elements.
LEMMA EmptyWire ==
  /\ \A q : Len(q) # 0 => q # <<>>
  /\ \A q \in Seq(Wired) : Len(q) = 0 => q = <<>>
  BY EmptySeq

\* The sequence with one element more, and without its first.
LEMMA WireOneMore ==
  ASSUME NEW q \in Seq(Wired), NEW f \in Wired
  PROVE  /\ Append(q, f) \in Seq(Wired) /\ Append(q, f) # <<>> /\ Len(q) \in Nat /\ Len(Append(q, f)) = Len(q) + 1
         /\ \A i \in 1..Len(q) : Append(q, f)[i] = q[i]
         /\ Append(q, f)[Len(q) + 1] = f
         /\ (q = <<>> <=> Len(q) = 0)
  <1>1. /\ Append(q, f) \in Seq(Wired) /\ Len(q) \in Nat /\ Len(Append(q, f)) = Len(q) + 1
        /\ \A i \in 1..Len(q) : Append(q, f)[i] = q[i]
        /\ Append(q, f)[Len(q) + 1] = f
    OBVIOUS
  <1>2. Len(Append(q, f)) # 0
    BY <1>1
  <1> QED BY <1>1, <1>2, EmptyWire, Zenon

LEMMA WireOneLess ==
  ASSUME NEW q \in Seq(Wired), q # <<>>
  PROVE  /\ Tail(q) \in Seq(Wired) /\ Len(q) \in Nat \ {0} /\ Len(Tail(q)) = Len(q) - 1
         /\ Head(q) = q[1] /\ Head(q) \in Wired
         /\ \A i \in 1..Len(Tail(q)) : Tail(q)[i] = q[i + 1]
         /\ (Tail(q) = <<>> <=> Len(q) = 1)
  <1>1. /\ Tail(q) \in Seq(Wired) /\ Len(q) \in Nat \ {0} /\ Len(Tail(q)) = Len(q) - 1
        /\ Head(q) = q[1] /\ Head(q) \in Wired
        /\ \A i \in 1..Len(Tail(q)) : Tail(q)[i] = q[i + 1]
    OBVIOUS
  <1>2. Len(Tail(q)) = 0 <=> Len(q) = 1
    BY <1>1
  <1>3. Len(Tail(q)) = 0 <=> Tail(q) = <<>>
    BY <1>1, EmptyWire, Zenon
  <1> QED BY <1>1, <1>2, <1>3, Zenon

\* The venue sends a frame that follows from its books.
LEMMA WireGrows ==
  ASSUME NEW q \in Seq(Wired), NEW n \in Nat, NEW v, NEW sh, NEW e \in Nat \cup {None}, NEW f \in Wired,
         Numbered(q, n), Linked(q, v), InStep(q, n, e, sh, v), f.seq = n, Follows(f, v), Honest(f)
  PROVE  /\ Numbered(Append(q, f), n + 1) /\ Linked(Append(q, f), f.after)
         /\ InStep(Append(q, f), n + 1, e, sh, f.after)
  <1> DEFINE r == Append(q, f)
  <1>1. /\ Len(q) \in Nat /\ Len(r) = Len(q) + 1 /\ r[Len(q) + 1] = f /\ r # <<>>
        /\ \A i \in 1..Len(q) : r[i] = q[i]
        /\ q = <<>> <=> Len(q) = 0
    BY WireOneMore
  <1> HIDE DEF r
  <1>2. Numbered(r, n + 1)
    <2> SUFFICES ASSUME NEW i \in 1..Len(r) PROVE r[i].seq = (n + 1) - 1 - Len(r) + i
      BY DEF Numbered
    <2>1. CASE i \in 1..Len(q)
      <3>1. r[i].seq = n - 1 - Len(q) + i
        BY <1>1, <2>1 DEF Numbered
      <3> QED BY <1>1, <2>1, <3>1
    <2>2. CASE i = Len(q) + 1
      BY <1>1, <2>2
    <2> QED BY <1>1, <2>1, <2>2
  <1>3. Linked(r, f.after)
    <2>1. ASSUME NEW i \in 1..Len(r) PROVE Honest(r[i])
      <3>1. CASE i \in 1..Len(q)
        BY <1>1, <3>1 DEF Linked
      <3>2. CASE i = Len(q) + 1
        BY <1>1, <3>2
      <3> QED BY <1>1, <3>1, <3>2
    <2>2. ASSUME NEW i \in 1..Len(r), i + 1 <= Len(r) PROVE Follows(r[i + 1], r[i].after)
      <3>1. i \in 1..Len(q) /\ r[i] = q[i]
        BY <1>1, <2>2
      <3>2. CASE i + 1 <= Len(q)
        <4>1. r[i + 1] = q[i + 1] /\ Follows(q[i + 1], q[i].after)
          BY <1>1, <3>1, <3>2 DEF Linked
        <4> QED BY <3>1, <4>1
      <3>3. CASE i = Len(q)
        <4>1. q # <<>> /\ q[i].after = v
          BY <1>1, <3>1, <3>3 DEF Linked
        <4> QED BY <1>1, <3>1, <3>3, <4>1
      <3> QED BY <1>1, <3>1, <3>2, <3>3
    <2>3. r[Len(r)].after = f.after
      BY <1>1
    <2> QED BY <2>1, <2>2, <2>3 DEF Linked
  <1>4. InStep(r, n + 1, e, sh, f.after)
    <2> SUFFICES ASSUME e # None
                 PROVE  /\ e <= (n + 1) - Len(r)
                        /\ e = (n + 1) - Len(r) => Follows(r[1], sh)
      BY <1>1 DEF InStep
    <2>1. (n + 1) - Len(r) = n - Len(q)
      BY <1>1
    <2>2. CASE q = <<>>
      <3>1. r[1] = f
        BY <1>1, <2>2
      <3> QED BY <2>1, <2>2, <3>1 DEF InStep
    <2>3. CASE q # <<>>
      <3>1. r[1] = q[1]
        BY <1>1, <2>3
      <3> QED BY <2>1, <2>3, <3>1 DEF InStep
    <2> QED BY <2>2, <2>3
  <1> QED BY <1>2, <1>3, <1>4 DEF r

\* The first frame under way is lost, or read.
LEMMA WireShrinks ==
  ASSUME NEW q \in Seq(Wired), NEW n \in Nat, NEW v, q # <<>>, Numbered(q, n), Linked(q, v)
  PROVE  /\ Numbered(Tail(q), n) /\ Linked(Tail(q), v) /\ Len(q) \in Nat
         /\ \A sh, e : e \in Nat \cup {None} /\ InStep(q, n, e, sh, v) => InStep(Tail(q), n, e, sh, v)
         /\ q[1].seq = n - Len(q) /\ Honest(q[1]) /\ InStep(Tail(q), n, q[1].seq + 1, q[1].after, v)
  <1> DEFINE r == Tail(q)
  <1>1. /\ Len(q) \in Nat \ {0} /\ Len(r) = Len(q) - 1 /\ (r = <<>> <=> Len(q) = 1)
        /\ \A i \in 1..Len(r) : r[i] = q[i + 1]
    BY WireOneLess
  <1> HIDE DEF r
  <1>2. Numbered(r, n)
    <2> SUFFICES ASSUME NEW i \in 1..Len(r) PROVE r[i].seq = n - 1 - Len(r) + i
      BY DEF Numbered
    <2>1. i + 1 \in 1..Len(q) /\ r[i] = q[i + 1]
      BY <1>1
    <2>2. q[i + 1].seq = n - 1 - Len(q) + (i + 1)
      BY <2>1 DEF Numbered
    <2> QED BY <1>1, <2>1, <2>2
  <1>3. Linked(r, v)
    <2>1. ASSUME NEW i \in 1..Len(r) PROVE Honest(r[i])
      <3>1. i + 1 \in 1..Len(q) /\ r[i] = q[i + 1]
        BY <1>1
      <3> QED BY <3>1 DEF Linked
    <2>2. ASSUME NEW i \in 1..Len(r), i + 1 <= Len(r) PROVE Follows(r[i + 1], r[i].after)
      <3>1. i + 1 \in 1..Len(r) /\ i + 1 \in 1..Len(q) /\ (i + 1) + 1 <= Len(q)
        BY <1>1, <2>2
      <3>2. r[i] = q[i + 1] /\ r[i + 1] = q[(i + 1) + 1]
        BY <1>1, <3>1
      <3>3. Follows(q[(i + 1) + 1], q[i + 1].after)
        BY <3>1 DEF Linked
      <3> QED BY <3>2, <3>3
    <2>3. r # <<>> => r[Len(r)].after = v
      <3> SUFFICES ASSUME r # <<>> PROVE r[Len(r)].after = v
        OBVIOUS
      <3>1. Len(r) \in 1..Len(r) /\ Len(r) + 1 = Len(q)
        BY <1>1
      <3>2. r[Len(r)] = q[Len(q)]
        BY <1>1, <3>1
      <3> QED BY <3>2 DEF Linked
    <2> QED BY <2>1, <2>2, <2>3 DEF Linked
  <1>4. ASSUME NEW sh, NEW e \in Nat \cup {None}, InStep(q, n, e, sh, v)
        PROVE  InStep(r, n, e, sh, v)
    <2> SUFFICES ASSUME e # None PROVE e <= n - Len(r) /\ e # n - Len(r)
      BY DEF InStep
    <2>1. e \in Nat /\ e <= n - Len(q)
      BY <1>4 DEF InStep
    <2> QED BY <1>1, <2>1
  <1>5. q[1].seq = n - Len(q) /\ Honest(q[1])
    <2>1. 1 \in 1..Len(q) /\ q[1].seq = n - 1 - Len(q) + 1
      BY <1>1 DEF Numbered
    <2> QED BY <1>1, <2>1 DEF Linked
  <1>6. InStep(r, n, q[1].seq + 1, q[1].after, v)
    <2>1. q[1].seq + 1 = n - Len(r)
      BY <1>1, <1>5
    <2>2. CASE r = <<>>
      <3>1. q[1].after = v
        BY <1>1, <2>2 DEF Linked
      <3> QED BY <1>1, <2>1, <2>2, <3>1 DEF InStep
    <2>3. CASE r # <<>>
      <3>1. 1 \in 1..Len(r) /\ 1 + 1 <= Len(q) /\ r[1] = q[1 + 1]
        BY <1>1, <2>3
      <3>2. Follows(q[1 + 1], q[1].after)
        BY <1>1, <3>1 DEF Linked
      <3> QED BY <1>1, <2>1, <2>3, <3>1, <3>2 DEF InStep
    <2> QED BY <2>2, <2>3
  <1> QED BY <1>1, <1>2, <1>3, <1>4, <1>5, <1>6 DEF r

(***************************************************************************)
(* One book                                                                *)
(***************************************************************************)

\* A delta makes a book of a book.
LEMMA AppliedTyped ==
  ASSUME NEW book \in Book, NEW s \in Sides, NEW p \in Rests, NEW n \in Int
  PROVE  ApplyDelta(book, s, p, n) \in Book
  <1>1. book[s] \in [Rests -> Nat] /\ book[s][p] \in Nat
    BY DEF Book
  <1>2. (IF book[s][p] + n > 0 THEN book[s][p] + n ELSE 0) \in Nat
    BY <1>1
  <1> QED BY <1>1, <1>2 DEF ApplyDelta, Book

OneMoved(v, t, s, p, n) == [v EXCEPT ![t][s][p] = @ + n]

\* What an order changes at the venue is what the delta says that is sent of it.
LEMMA RestIsApplied ==
  ASSUME NEW v \in [Teams -> Book], NEW t \in Teams, NEW s \in Sides, NEW p \in Rests, NEW n \in Int, v[t][s][p] + n >= 0
  PROVE  /\ OneMoved(v, t, s, p, n) \in [Teams -> Book]
         /\ OneMoved(v, t, s, p, n)[t] = ApplyDelta(v[t], s, p, n)
         /\ \A u \in Teams : u # t => OneMoved(v, t, s, p, n)[u] = v[u]
  <1> DEFINE w == OneMoved(v, t, s, p, n)
  <1>1. v[t] \in Book /\ v[t][s] \in [Rests -> Nat] /\ v[t][s][p] \in Nat
    BY DEF Book
  <1>2. (IF v[t][s][p] + n > 0 THEN v[t][s][p] + n ELSE 0) = v[t][s][p] + n
    BY <1>1
  <1>3. w[t] = ApplyDelta(v[t], s, p, n)
    BY <1>2 DEF ApplyDelta, OneMoved
  <1>4. ApplyDelta(v[t], s, p, n) \in Book
    BY <1>1, AppliedTyped
  <1>5. w = [v EXCEPT ![t] = ApplyDelta(v[t], s, p, n)]
    BY <1>2 DEF ApplyDelta, OneMoved
  <1> QED BY <1>3, <1>4, <1>5

(***************************************************************************)
(* The stream                                                              *)
(***************************************************************************)
StreamTypes ==
  /\ venue \in [Teams -> Book] /\ shown \in [Teams -> Book] /\ books \in [Teams -> Book \cup {None}]
  /\ wire \in Seq(Wired) /\ sent \in Nat /\ link \in BOOLEAN /\ expected \in Nat \cup {None}

\* The stream keeps the books of the connection in step with its frames.
StreamInv ==
  /\ StreamTypes
  /\ ~ link => wire = <<>>
  /\ link => /\ Numbered(wire, sent) /\ Linked(wire, venue) /\ InStep(wire, sent, expected, shown, venue)
             /\ expected = None => \A t \in Teams : books[t] = None
  /\ BookIsVenues

streamVars == <<venue, wire, sent, link, expected, books, shown>>

\* An order is placed or taken.
LEMMA RestKeeps ==
  ASSUME StreamInv, NEW t \in Teams, NEW s \in Sides, NEW p \in Rests, NEW n \in Deltas, Rest(t, s, p, n)
  PROVE  StreamInv'
  <1>1. /\ StreamTypes /\ BookIsVenues /\ n \in Int
        /\ venue[t][s][p] + n >= 0 /\ venue' = [venue EXCEPT ![t][s][p] = @ + n]
        /\ UNCHANGED <<link, expected, books, shown>>
    BY GameBooksAssumption DEF StreamInv, Rest
  <1>2. /\ venue' \in [Teams -> Book] /\ venue'[t] = ApplyDelta(venue[t], s, p, n)
        /\ \A u \in Teams : u # t => venue'[u] = venue[u]
    <2>1. venue \in [Teams -> Book] /\ venue[t][s][p] + n >= 0 /\ n \in Int
      BY <1>1 DEF StreamTypes
    <2>2. venue' = OneMoved(venue, t, s, p, n)
      BY <1>1 DEF OneMoved
    <2> QED BY <2>1, <2>2, RestIsApplied
  <1>3. CASE ~ link
    <2>1. UNCHANGED <<wire, sent>> /\ wire = <<>>
      BY <1>3 DEF Rest, StreamInv
    <2> QED BY <1>1, <1>2, <1>3, <2>1 DEF StreamInv, StreamTypes, BookIsVenues
  <1>4. CASE link
    <2> DEFINE f == GameFrame(sent, t, "delta", [side |-> s, px |-> p, by |-> n])
    <2>1. /\ f \in Wired /\ f.seq = sent /\ f.after = venue' /\ Follows(f, venue) /\ Honest(f)
      <3>1. [side |-> s, px |-> p, by |-> n] \in Change
        BY <1>1 DEF Change
      <3>2. /\ f \in Wired /\ f.seq = sent /\ f.after = venue' /\ f.type = "delta" /\ f.ticker = t
            /\ f.body.side = s /\ f.body.px = p /\ f.body.by = n
        BY <1>1, <1>2, <3>1 DEF GameFrame, Wired, StreamTypes
      <3> HIDE DEF f
      <3> QED BY <1>2, <3>2 DEF Follows, Honest
    <2>2. wire' = Append(wire, f) /\ sent' = sent + 1
      BY <1>4 DEF Rest
    <2> HIDE DEF f
    <2>3. /\ wire \in Seq(Wired) /\ sent \in Nat /\ expected \in Nat \cup {None}
          /\ Numbered(wire, sent) /\ Linked(wire, venue) /\ InStep(wire, sent, expected, shown, venue)
      BY <1>1, <1>4 DEF StreamInv, StreamTypes
    <2>4. /\ Numbered(wire', sent') /\ Linked(wire', venue') /\ InStep(wire', sent', expected, shown, venue')
      BY <2>1, <2>2, <2>3, WireGrows
    <2>5. wire' \in Seq(Wired) /\ sent' \in Nat
      BY <2>1, <2>2, <2>3
    <2> QED BY <1>1, <1>2, <1>4, <2>4, <2>5 DEF StreamInv, StreamTypes, BookIsVenues
  <1> QED BY <1>3, <1>4

\* The first frame under way is lost.
LEMMA LoseKeeps ==
  ASSUME StreamInv, Lose
  PROVE  StreamInv'
  <1>1. /\ wire # <<>> /\ wire' = Tail(wire) /\ UNCHANGED <<venue, sent, link, expected, books, shown>>
        /\ link /\ StreamTypes /\ BookIsVenues
    BY DEF Lose, StreamInv
  <1>2. /\ wire \in Seq(Wired) /\ sent \in Nat /\ expected \in Nat \cup {None}
        /\ Numbered(wire, sent) /\ Linked(wire, venue) /\ InStep(wire, sent, expected, shown, venue)
    BY <1>1 DEF StreamInv, StreamTypes
  <1>3. Numbered(wire', sent) /\ Linked(wire', venue) /\ InStep(wire', sent, expected, shown, venue)
    BY <1>1, <1>2, WireShrinks
  <1>4. wire' \in Seq(Wired)
    BY <1>1, <1>2, WireOneLess
  <1> QED BY <1>1, <1>3, <1>4 DEF StreamInv, StreamTypes, BookIsVenues

\* The connection ends.
LEMMA EndKeeps ==
  ASSUME StreamInv, link' = FALSE, wire' = <<>>, UNCHANGED <<venue, sent, expected, books, shown>>
  PROVE  StreamInv'
  <1>1. StreamTypes /\ wire' \in Seq(Wired)
    BY DEF StreamInv
  <1>2. StreamTypes'
    BY <1>1 DEF StreamTypes
  <1>3. BookIsVenues'
    BY DEF BookIsVenues
  <1> QED BY <1>2, <1>3 DEF StreamInv

\* A connection opens.
LEMMA ConnectKeeps ==
  ASSUME StreamInv, Connect
  PROVE  StreamInv'
  <1>1. PICK first \in Teams, other \in Teams :
          /\ other # first
          /\ wire' = <<GameFrame(1, first, "snapshot", venue[first]), GameFrame(2, other, "snapshot", venue[other])>>
    <2>1. PICK first \in Teams :
            LET other == CHOOSE t \in Teams : t # first
            IN  wire' = <<GameFrame(1, first, "snapshot", venue[first]), GameFrame(2, other, "snapshot", venue[other])>>
      BY DEF Connect
    <2>2. \E t \in Teams : t # first
      BY DEF Teams
    <2> QED BY <2>1, <2>2
  <1> DEFINE f == GameFrame(1, first, "snapshot", venue[first])
             g == GameFrame(2, other, "snapshot", venue[other])
  <1>2. /\ link' /\ expected' = None /\ books' = [t \in Teams |-> None] /\ venue' = venue /\ sent' = 3
        /\ shown' = shown /\ StreamTypes
    BY DEF Connect, StreamInv
  <1>3. /\ f \in Wired /\ g \in Wired /\ f.seq = 1 /\ g.seq = 2 /\ f.after = venue /\ g.after = venue
        /\ Honest(f) /\ Honest(g) /\ g.type = "snapshot" /\ g.ticker = other
    BY <1>1, <1>2 DEF GameFrame, Wired, StreamTypes, Honest
  <1>4. wire' = <<f, g>>
    BY <1>1
  <1> HIDE DEF f, g
  <1>5. Follows(g, f.after)
    BY <1>3 DEF Follows
  <1>6. /\ wire' \in Seq(Wired) /\ Len(wire') = 2 /\ wire'[1] = f /\ wire'[2] = g
    BY <1>3, <1>4
  <1>7. Numbered(wire', 3)
    BY <1>3, <1>6 DEF Numbered
  <1>8. Linked(wire', venue)
    BY <1>3, <1>5, <1>6 DEF Linked
  <1> QED BY <1>2, <1>6, <1>7, <1>8 DEF StreamInv, StreamTypes, BookIsVenues, InStep

\* A frame in its turn makes of the books shown the books after it.
LEMMA KalshiFrameKeeps ==
  ASSUME StreamInv, KalshiFrame
  PROVE  StreamInv'
  <1> DEFINE f == Head(wire)
  <1>1. /\ link /\ wire # <<>> /\ InSequence(f) /\ wire' = Tail(wire) /\ expected' = f.seq + 1 /\ shown' = f.after
        /\ books' = [books EXCEPT ![f.ticker] = Applied(f)]
        /\ UNCHANGED <<venue, sent, link>>
    BY DEF KalshiFrame
  <1>2. /\ wire \in Seq(Wired) /\ sent \in Nat /\ expected \in Nat \cup {None} /\ books \in [Teams -> Book \cup {None}]
        /\ Numbered(wire, sent) /\ Linked(wire, venue) /\ InStep(wire, sent, expected, shown, venue)
        /\ StreamTypes /\ (expected = None => \A t \in Teams : books[t] = None)
        /\ \A t \in Teams : books[t] # None => books[t] = shown[t]
    BY <1>1 DEF StreamInv, StreamTypes, BookIsVenues
  <1>3. wire' \in Seq(Wired) /\ f = wire[1] /\ f \in Wired
    BY <1>1, <1>2, WireOneLess
  <1>4. /\ Numbered(wire', sent) /\ Linked(wire', venue) /\ InStep(wire', sent, f.seq + 1, f.after, venue)
        /\ f.seq = sent - Len(wire) /\ Honest(f)
    BY <1>1, <1>2, <1>3, WireShrinks
  <1>5. expected # None => Follows(f, shown)
    BY <1>1, <1>2, <1>3, <1>4 DEF InSequence, InStep
  <1> HIDE DEF f
  <1>6. f.ticker \in Teams /\ f.seq \in Nat /\ f.after \in [Teams -> Book] /\ f.type \in {"snapshot", "delta"}
    BY <1>3 DEF Wired
  <1>7. Applied(f) \in Book \cup {None} /\ (Applied(f) # None => Applied(f) = f.after[f.ticker])
    <2>1. CASE f.type = "snapshot"
      BY <1>4, <1>6, <2>1 DEF Applied, Honest
    <2>2. CASE f.type = "delta" /\ books[f.ticker] = None
      BY <2>2 DEF Applied
    <2>3. CASE f.type = "delta" /\ books[f.ticker] # None
      <3>1. Follows(f, shown) /\ books[f.ticker] = shown[f.ticker]
        BY <1>2, <1>5, <1>6, <2>3
      <3>2. Applied(f) = f.after[f.ticker]
        BY <2>3, <3>1 DEF Applied, Follows
      <3> QED BY <1>6, <3>2
    <2> QED BY <1>6, <2>1, <2>2, <2>3
  <1>8. \A u \in Teams : books'[u] # None => books'[u] = f.after[u]
    <2> SUFFICES ASSUME NEW u \in Teams, books'[u] # None PROVE books'[u] = f.after[u]
      OBVIOUS
    <2>1. CASE u = f.ticker
      BY <1>1, <1>2, <1>7, <2>1
    <2>2. CASE u # f.ticker
      <3>1. books'[u] = books[u] /\ books[u] # None
        BY <1>1, <1>2, <2>2
      <3>2. Follows(f, shown) /\ books[u] = shown[u]
        BY <1>2, <1>5, <3>1
      <3> QED BY <2>2, <3>1, <3>2 DEF Follows
    <2> QED BY <2>1, <2>2
  <1>9. books' \in [Teams -> Book \cup {None}] /\ expected' \in Nat /\ expected' # None
    BY <1>1, <1>2, <1>6, <1>7, QuotesAssumption
  <1> QED BY <1>1, <1>2, <1>3, <1>4, <1>6, <1>8, <1>9 DEF StreamInv, StreamTypes, BookIsVenues

\* The stream's invariant holds in every reachable state.
LEMMA StreamAlways == GameSpec => []StreamInv
  <1>1. GameInit => StreamInv
    <2> SUFFICES ASSUME BooksInit PROVE StreamInv
      BY DEF GameInit
    <2>1. /\ venue \in [Teams -> Book] /\ shown \in [Teams -> Book] /\ books \in [Teams -> Book \cup {None}]
          /\ sent \in Nat /\ link = FALSE /\ expected \in Nat \cup {None} /\ wire = <<>>
      BY GameBooksAssumption DEF BooksInit
    <2>2. wire \in Seq(Wired)
      BY <2>1
    <2> QED BY <2>1, <2>2 DEF StreamInv, StreamTypes, BookIsVenues
  <1>2. StreamInv /\ [GameNext]_<<bookVars, fireVars>> => StreamInv'
    <2> SUFFICES ASSUME StreamInv, [GameNext]_<<bookVars, fireVars>> PROVE StreamInv'
      OBVIOUS
    <2>1. ASSUME UNCHANGED streamVars PROVE StreamInv'
      BY <2>1 DEF StreamInv, StreamTypes, BookIsVenues, streamVars
    <2>2. ASSUME NEW t \in Teams, NEW s \in Sides, NEW p \in Rests, NEW n \in Deltas, Rest(t, s, p, n) PROVE StreamInv'
      BY <2>2, RestKeeps
    <2>3. CASE Lose
      BY <2>3, LoseKeeps
    <2>4. CASE Drop \/ SeqGap
      <3>1. link' = FALSE /\ wire' = <<>> /\ UNCHANGED <<venue, sent, expected, books, shown>>
        BY <2>4 DEF Drop, SeqGap
      <3> QED BY <3>1, EndKeeps
    <2>5. CASE Connect
      BY <2>5, ConnectKeeps
    <2>6. CASE KalshiFrame
      BY <2>6, KalshiFrameKeeps
    <2>7. ASSUME NEW b \in PmBooks, PmFrame(b) PROVE StreamInv'
      BY <2>1, <2>7 DEF PmFrame, streamVars
    <2>8. ASSUME NEW m \in Slugs, NEW c2 \in Depths, Fire(m, c2) PROVE StreamInv'
      BY <2>1, <2>8 DEF Fire, streamVars
    <2>9. ASSUME NEW m \in Slugs, NEW o \in Outcomes, FireOutcome(m, o) PROVE StreamInv'
      BY <2>1, <2>9 DEF FireOutcome, bookVars, streamVars
    <2>10. CASE BotDies
      BY <2>1, <2>10 DEF BotDies, streamVars
    <2>11. CASE UNCHANGED <<bookVars, fireVars>>
      BY <2>1, <2>11 DEF bookVars, streamVars
    <2> QED BY <2>2, <2>3, <2>4, <2>5, <2>6, <2>7, <2>8, <2>9, <2>10, <2>11 DEF GameNext, BooksNext
  <1> QED BY <1>1, <1>2, PTL DEF GameSpec

(***************************************************************************)
(* The tracker                                                             *)
(***************************************************************************)
Tracker(g) ==
  /\ g = [pm |-> g.pm, pmBid |-> g.pmBid, pmAsk |-> g.pmAsk, k |-> g.k, book |-> g.book, state |-> g.state]
  /\ g.k = [t \in Teams |-> g.k[t]] /\ g.book = [t \in Teams |-> g.book[t]]

OfItsBooks(g) == \A t \in Teams : g.k[t] = IF g.book[t] = None THEN None ELSE BestPx(OfferPairs(g.book[t]))

OfItsQuotes(g) ==
  LET e == GameEdge(g.pmBid, g.pmAsk, g.k["A"], g.k["B"])
  IN  e # None => g.state = e

TrackerInv == Tracker(tracker) /\ OfItsBooks(tracker) /\ OfItsQuotes(tracker)

\* evaluate leaves the quotes as they are, and the state is of them.
LEMMA EvaluatedIsOfItsQuotes ==
  ASSUME NEW g, Tracker(g), OfItsBooks(g)
  PROVE  Tracker(Evaluated2(g)) /\ OfItsBooks(Evaluated2(g)) /\ OfItsQuotes(Evaluated2(g))
  <1> DEFINE new == GameEdge(g.pmBid, g.pmAsk, g.k["A"], g.k["B"])
             st  == IF new = None THEN g.state ELSE new
             h   == Evaluated2(g)
  <1>1. h = [pm |-> g.pm, pmBid |-> g.pmBid, pmAsk |-> g.pmAsk, k |-> g.k, book |-> g.book, state |-> st]
    BY DEF Evaluated2, Tracker
  <1>2. /\ h.pm = g.pm /\ h.pmBid = g.pmBid /\ h.pmAsk = g.pmAsk /\ h.k = g.k /\ h.book = g.book /\ h.state = st
    BY <1>1
  <1>3. OfItsQuotes(h)
    BY <1>2 DEF OfItsQuotes
  <1> HIDE DEF h
  <1>4. Tracker(h)
    BY <1>1, <1>2 DEF Tracker
  <1>5. OfItsBooks(h)
    BY <1>2 DEF OfItsBooks
  <1> QED BY <1>3, <1>4, <1>5 DEF h

\* A Kalshi book is fed with its touch.
LEMMA FedKeeps ==
  ASSUME TrackerInv, NEW t \in Teams, NEW b \in Book, tracker' = FedKalshi(t, b)
  PROVE  TrackerInv'
  <1> DEFINE g == [pm |-> tracker.pm, pmBid |-> tracker.pmBid, pmAsk |-> tracker.pmAsk, state |-> tracker.state,
                   k |-> [tracker.k EXCEPT ![t] = BestPx(OfferPairs(b))], book |-> [tracker.book EXCEPT ![t] = b]]
  <1>1. /\ Tracker(tracker) /\ OfItsBooks(tracker) /\ b # None
    BY GameBooksAssumption DEF TrackerInv
  <1>3. /\ g.k = [tracker.k EXCEPT ![t] = BestPx(OfferPairs(b))] /\ g.book = [tracker.book EXCEPT ![t] = b]
        /\ g.pm = tracker.pm /\ g.pmBid = tracker.pmBid /\ g.pmAsk = tracker.pmAsk /\ g.state = tracker.state
        /\ g = [pm |-> g.pm, pmBid |-> g.pmBid, pmAsk |-> g.pmAsk, k |-> g.k, book |-> g.book, state |-> g.state]
    OBVIOUS
  <1>4. tracker' = Evaluated2(g)
    BY DEF FedKalshi
  <1> HIDE DEF g
  <1>5. Tracker(g)
    BY <1>1, <1>3 DEF Tracker
  <1>6. OfItsBooks(g)
    BY <1>1, <1>3 DEF OfItsBooks, Tracker
  <1>7. Tracker(tracker') /\ OfItsBooks(tracker') /\ OfItsQuotes(tracker')
    BY <1>4, <1>5, <1>6, EvaluatedIsOfItsQuotes
  <1> QED BY <1>7 DEF TrackerInv, Tracker, OfItsBooks, OfItsQuotes

\* A frame of pmus changes neither team's touch.
LEMMA PmFrameKeeps ==
  ASSUME TrackerInv, NEW b, PmFrame(b)
  PROVE  TrackerInv'
  <1> DEFINE g == [pm |-> b, pmBid |-> BestPx(b.bids), pmAsk |-> BestPx(b.offers), state |-> tracker.state,
                   k |-> tracker.k, book |-> tracker.book]
  <1>1. /\ Tracker(tracker) /\ OfItsBooks(tracker) /\ tracker' = Evaluated2(g)
    BY DEF TrackerInv, PmFrame
  <1>2. /\ g.k = tracker.k /\ g.book = tracker.book
        /\ g = [pm |-> g.pm, pmBid |-> g.pmBid, pmAsk |-> g.pmAsk, k |-> g.k, book |-> g.book, state |-> g.state]
    OBVIOUS
  <1> HIDE DEF g
  <1>3. Tracker(g) /\ OfItsBooks(g)
    BY <1>1, <1>2 DEF Tracker, OfItsBooks
  <1>4. Tracker(tracker') /\ OfItsBooks(tracker') /\ OfItsQuotes(tracker')
    BY <1>1, <1>3, EvaluatedIsOfItsQuotes
  <1> QED BY <1>4 DEF TrackerInv, Tracker, OfItsBooks, OfItsQuotes

\* What a frame makes is a book, if it makes one.
LEMMA AppliedIsBook ==
  ASSUME StreamTypes, wire # <<>>
  PROVE  Head(wire).ticker \in Teams /\ Applied(Head(wire)) \in Book \cup {None}
  <1> DEFINE f == Head(wire)
  <1>1. f \in Wired /\ books \in [Teams -> Book \cup {None}]
    BY WireOneLess DEF StreamTypes
  <1> HIDE DEF f
  <1>2. f.ticker \in Teams
    BY <1>1 DEF Wired
  <1>3. Applied(f) \in Book \cup {None}
    <2>1. CASE f.type = "snapshot"
      <3>1. f.body \in Book
        BY <1>1, <2>1 DEF Wired
      <3> QED BY <2>1, <3>1 DEF Applied
    <2>2. CASE f.type # "snapshot"
      <3>1. f.body.side \in Sides /\ f.body.px \in Rests /\ f.body.by \in Int
        BY <1>1, <2>2 DEF Wired, Change
      <3>2. books[f.ticker] # None => ApplyDelta(books[f.ticker], f.body.side, f.body.px, f.body.by) \in Book
        BY <1>1, <1>2, <3>1, AppliedTyped
      <3> QED BY <2>2, <3>2 DEF Applied
    <2> QED BY <2>1, <2>2
  <1> QED BY <1>2, <1>3 DEF f

\* A game nothing is known of has no edge.
LEMMA BlankHasNoEdge == Tracker(Blank) /\ OfItsBooks(Blank) /\ OfItsQuotes(Blank)
  <1>1. /\ Blank.pm = None /\ Blank.pmBid = None /\ Blank.pmAsk = None /\ Blank.state = None
        /\ Blank.k = [t \in Teams |-> None] /\ Blank.book = [t \in Teams |-> None]
    BY DEF Blank
  <1>2. Blank.k["A"] = None /\ Blank.k["B"] = None
    BY <1>1 DEF Teams
  <1>3. GameEdge(None, None, None, None) = None
    BY DEF GameEdge, Crossed, Misoriented, GameDirs
  <1>4. Tracker(Blank)
    BY <1>1 DEF Tracker, Blank
  <1>5. OfItsBooks(Blank)
    BY <1>1 DEF OfItsBooks
  <1>6. OfItsQuotes(Blank)
    BY <1>1, <1>2, <1>3 DEF OfItsQuotes
  <1> QED BY <1>4, <1>5, <1>6

\* The tracker's invariant holds in every reachable state.
LEMMA TrackerAlways == GameSpec => []TrackerInv
  <1>1. GameInit => TrackerInv
    BY BlankHasNoEdge DEF GameInit, BooksInit, TrackerInv
  <1>2. TrackerInv /\ StreamInv /\ [GameNext]_<<bookVars, fireVars>> => TrackerInv'
    <2> SUFFICES ASSUME TrackerInv, StreamInv, [GameNext]_<<bookVars, fireVars>> PROVE TrackerInv'
      OBVIOUS
    <2>1. ASSUME tracker' = tracker PROVE TrackerInv'
      BY <2>1 DEF TrackerInv, Tracker, OfItsBooks, OfItsQuotes
    <2>2. ASSUME NEW t \in Teams, NEW s \in Sides, NEW p \in Rests, NEW n \in Deltas, Rest(t, s, p, n) PROVE TrackerInv'
      BY <2>1, <2>2 DEF Rest
    <2>3. CASE Lose \/ Drop \/ SeqGap \/ Connect
      BY <2>1, <2>3 DEF Lose, Drop, SeqGap, Connect
    <2>4. CASE KalshiFrame
      <3>1. wire # <<>> /\ StreamTypes
        BY <2>4 DEF KalshiFrame, StreamInv
      <3>2. tracker' = IF Applied(Head(wire)) = None THEN tracker ELSE FedKalshi(Head(wire).ticker, Applied(Head(wire)))
        BY <2>4 DEF KalshiFrame
      <3>3. Head(wire).ticker \in Teams /\ Applied(Head(wire)) \in Book \cup {None}
        BY <3>1, AppliedIsBook
      <3> QED BY <2>1, <3>2, <3>3, FedKeeps
    <2>5. ASSUME NEW b \in PmBooks, PmFrame(b) PROVE TrackerInv'
      BY <2>5, PmFrameKeeps
    <2>6. ASSUME NEW m \in Slugs, NEW c2 \in Depths, Fire(m, c2) PROVE TrackerInv'
      BY <2>1, <2>6 DEF Fire
    <2>7. ASSUME NEW m \in Slugs, NEW o \in Outcomes, FireOutcome(m, o) PROVE TrackerInv'
      BY <2>1, <2>7 DEF FireOutcome, bookVars
    <2>8. CASE BotDies
      BY <2>1, <2>8 DEF BotDies
    <2>9. CASE UNCHANGED <<bookVars, fireVars>>
      BY <2>1, <2>9 DEF bookVars
    <2> QED BY <2>2, <2>3, <2>4, <2>5, <2>6, <2>7, <2>8, <2>9 DEF GameNext, BooksNext
  <1> QED BY <1>1, <1>2, StreamAlways, PTL DEF GameSpec

\* The books the collector shows of a game are the venue's as of the last frame it took, whatever was lost and however
\* often it connected again; and the game is priced on the touch of the books depth is measured on.
\* (KalshiBook.handle, SeqTracker.check, books.clear() in kalshi_stream; GameTracker.feed_kalshi, feed_pm, evaluate)
THEOREM BooksAlwaysTrue == GameSpec => []BooksInv
  <1>1. StreamInv => BooksTypeOK /\ BookIsVenues
    <2> SUFFICES ASSUME StreamInv, NEW i \in 1..Len(wire) - 1 PROVE wire[i].seq < wire[i + 1].seq
      BY DEF StreamInv, StreamTypes, BooksTypeOK
    <2>1. Len(wire) \in Nat /\ Len(wire) # 0 /\ sent \in Nat
      BY DEF StreamInv, StreamTypes
    <2>2. wire # <<>>
      BY <2>1, EmptyWire, Zenon
    <2>3. Numbered(wire, sent)
      BY <2>2 DEF StreamInv, StreamTypes
    <2>4. i \in 1..Len(wire) /\ i + 1 \in 1..Len(wire)
      BY <2>1
    <2> QED BY <2>1, <2>3, <2>4 DEF Numbered
  <1>2. TrackerInv => TrackerOfOneBook
    BY DEF TrackerInv, OfItsBooks, OfItsQuotes, TrackerOfOneBook
  <1>3. StreamInv /\ TrackerInv => BooksInv
    BY <1>1, <1>2 DEF BooksInv
  <1> QED BY <1>3, StreamAlways, TrackerAlways, PTL

(***************************************************************************)
(* Ranks and pairs                                                         *)
(***************************************************************************)
\* The pairs in which the first is deeper, and those that tie.
Beats(f, A, B) == {p \in A \X B : f[p[1]].c2 > f[p[2]].c2}
Meets(f, A, B) == {p \in A \X B : f[p[1]].c2 = f[p[2]].c2}

\* Finitely many fires, with depths that are numbers.
Measured(f, A) == IsFiniteSet(A) /\ \A i \in A : f[i].c2 \in Int

\* The pairs can be counted.
LEMMA PairsAreFinite ==
  ASSUME NEW f, NEW A, NEW B, Measured(f, A), Measured(f, B)
  PROVE  /\ IsFiniteSet(Beats(f, A, B)) /\ Cardinality(Beats(f, A, B)) \in Nat
         /\ IsFiniteSet(Meets(f, A, B)) /\ Cardinality(Meets(f, A, B)) \in Nat
  <1>1. IsFiniteSet(A \X B)
    BY FS_Product DEF Measured
  <1>2. Beats(f, A, B) \in SUBSET (A \X B) /\ Meets(f, A, B) \in SUBSET (A \X B)
    BY DEF Beats, Meets
  <1> QED BY <1>1, <1>2, FS_Subset, FS_CardinalityType

\* Two disjoint sets together.
LEMMA TwoKinds ==
  ASSUME NEW B, NEW C, IsFiniteSet(B), IsFiniteSet(C), B \cap C = {}, NEW A, A = B \cup C
  PROVE  IsFiniteSet(A) /\ Cardinality(A) = Cardinality(B) + Cardinality(C)
  <1>1. Cardinality(B \cup C) = Cardinality(B) + Cardinality(C) - Cardinality(B \cap C) /\ IsFiniteSet(B \cup C)
    BY FS_Union
  <1>2. Cardinality(B \cap C) = 0
    BY FS_EmptySet, Zenon
  <1>3. Cardinality(B) \in Nat /\ Cardinality(C) \in Nat
    BY FS_CardinalityType
  <1>4. Cardinality(B \cup C) = Cardinality(B) + Cardinality(C)
    BY <1>1, <1>2, <1>3
  <1> QED BY <1>1, <1>4, Zenon

\* Who is met is in one part of those there are, or in the other.
LEMMA PairsPart ==
  ASSUME NEW f, NEW A, NEW B, NEW C, Measured(f, A), Measured(f, B), Measured(f, C), B \cap C = {}
  PROVE  /\ Cardinality(Beats(f, A, B \cup C)) = Cardinality(Beats(f, A, B)) + Cardinality(Beats(f, A, C))
         /\ Cardinality(Meets(f, A, B \cup C)) = Cardinality(Meets(f, A, B)) + Cardinality(Meets(f, A, C))
  <1>1. /\ Beats(f, A, B \cup C) = Beats(f, A, B) \cup Beats(f, A, C)
        /\ Beats(f, A, B) \cap Beats(f, A, C) = {}
    BY DEF Beats
  <1>2. /\ Meets(f, A, B \cup C) = Meets(f, A, B) \cup Meets(f, A, C)
        /\ Meets(f, A, B) \cap Meets(f, A, C) = {}
    BY DEF Meets
  <1>5. /\ IsFiniteSet(Beats(f, A, B)) /\ IsFiniteSet(Beats(f, A, C))
        /\ IsFiniteSet(Meets(f, A, B)) /\ IsFiniteSet(Meets(f, A, C))
    BY PairsAreFinite
  <1>3. Cardinality(Beats(f, A, B \cup C)) = Cardinality(Beats(f, A, B)) + Cardinality(Beats(f, A, C))
    BY <1>1, <1>5, TwoKinds, Zenon
  <1>4. Cardinality(Meets(f, A, B \cup C)) = Cardinality(Meets(f, A, B)) + Cardinality(Meets(f, A, C))
    BY <1>2, <1>5, TwoKinds, Zenon
  <1> QED BY <1>3, <1>4

\* Of two, one is deeper, or they tie.
LEMMA PairsCompare ==
  ASSUME NEW f, NEW A, NEW B, Measured(f, A), Measured(f, B)
  PROVE  /\ Cardinality(A) * Cardinality(B)
              = Cardinality(Beats(f, A, B)) + Cardinality(Beats(f, B, A)) + Cardinality(Meets(f, A, B))
         /\ Cardinality(Meets(f, A, B)) = Cardinality(Meets(f, B, A))
  <1> DEFINE loses == {p \in A \X B : f[p[2]].c2 > f[p[1]].c2}
             apart == Beats(f, A, B) \cup loses
  <1>1. IsFiniteSet(A) /\ IsFiniteSet(B)
    BY DEF Measured
  <1>2. IsFiniteSet(loses)
    <2>1. loses \in SUBSET (A \X B) /\ IsFiniteSet(A \X B)
      BY <1>1, FS_Product
    <2> HIDE DEF loses
    <2> QED BY <2>1, FS_Subset
  <1>3. Cardinality(loses) = Cardinality(Beats(f, B, A))
    <2>1. Beats(f, B, A) \in SUBSET (B \X A) /\ loses \in SUBSET (A \X B)
      BY DEF Beats
    <2>2. \A a \in A, b \in B : <<a, b>> \in loses <=> <<b, a>> \in Beats(f, B, A)
      BY DEF Beats
    <2> HIDE DEF loses
    <2> QED BY <1>1, <2>1, <2>2, CountedTheOtherWay
  <1>4. Cardinality(Meets(f, A, B)) = Cardinality(Meets(f, B, A))
    <2>1. Meets(f, B, A) \in SUBSET (B \X A) /\ Meets(f, A, B) \in SUBSET (A \X B)
      BY DEF Meets
    <2>2. \A a \in A, b \in B : <<a, b>> \in Meets(f, A, B) <=> <<b, a>> \in Meets(f, B, A)
      BY DEF Meets
    <2> QED BY <1>1, <2>1, <2>2, CountedTheOtherWay
  <1>5. \A p \in A \X B : f[p[1]].c2 \in Int /\ f[p[2]].c2 \in Int
    BY DEF Measured
  <1>6. Beats(f, A, B) \cap loses = {}
    BY <1>5 DEF Beats
  <1>7. A \X B = apart \cup Meets(f, A, B) /\ apart \cap Meets(f, A, B) = {}
    BY <1>5 DEF Beats, Meets
  <1> HIDE DEF loses
  <1>8. IsFiniteSet(apart) /\ Cardinality(apart) = Cardinality(Beats(f, A, B)) + Cardinality(loses)
    <2>1. IsFiniteSet(Beats(f, A, B))
      BY PairsAreFinite
    <2> QED BY <1>2, <1>6, <2>1, TwoKinds, Zenon
  <1> HIDE DEF apart
  <1>9. Cardinality(A \X B) = Cardinality(apart) + Cardinality(Meets(f, A, B))
    <2>1. IsFiniteSet(Meets(f, A, B))
      BY PairsAreFinite
    <2> QED BY <1>7, <1>8, <2>1, TwoKinds, Zenon
  <1>10. Cardinality(A \X B) = Cardinality(A) * Cardinality(B)
    BY <1>1, FS_Product
  <1>11. Cardinality(A) * Cardinality(B) = Cardinality(Beats(f, A, B)) + Cardinality(loses) + Cardinality(Meets(f, A, B))
    BY <1>8, <1>9, <1>10
  <1> QED BY <1>3, <1>4, <1>11

\* What the ranks of some among themselves and others add up to.
LEMMA RanksAddUp ==
  ASSUME NEW f, NEW L, NEW S, Measured(f, L), Measured(f, S), NEW rank, \A i \in L : rank[i] = Rank2(f, S, i)
  PROVE  SumFunctionOnSet(rank, L) = 2 * Cardinality(Beats(f, L, S)) + Cardinality(Meets(f, L, S)) + Cardinality(L)
  <1> DEFINE below == [i \in L |-> Cardinality({j \in S : f[j].c2 < f[i].c2})]
             same  == [i \in L |-> Cardinality({j \in S : f[j].c2 = f[i].c2})]
             one   == [i \in L |-> 1]
             twice == [i \in L |-> below[i] + below[i]]
             near  == [i \in L |-> same[i] + 1]
  <1>1. IsFiniteSet(L) /\ IsFiniteSet(S) /\ Cardinality(L) \in Nat
    BY FS_CardinalityType DEF Measured
  <1>2. SumFunctionOnSet(below, L) = Cardinality(Beats(f, L, S))
    <2>1. Beats(f, L, S) \in SUBSET (L \X S)
      BY DEF Beats
    <2> DEFINE of == [i \in L |-> {j \in S : f[j].c2 < f[i].c2}]
    <2>2. \A i \in L : of[i] \in SUBSET S
      OBVIOUS
    <2>3. \A i \in L, j \in S : j \in of[i] <=> <<i, j>> \in Beats(f, L, S)
      BY DEF Beats, Measured
    <2>4. \A i \in L : below[i] = Cardinality(of[i])
      OBVIOUS
    <2> HIDE DEF below, of
    <2> QED BY <1>1, <2>1, <2>2, <2>3, <2>4, CountedByFirst
  <1>3. SumFunctionOnSet(same, L) = Cardinality(Meets(f, L, S))
    <2>1. Meets(f, L, S) \in SUBSET (L \X S)
      BY DEF Meets
    <2> DEFINE of == [i \in L |-> {j \in S : f[j].c2 = f[i].c2}]
    <2>2. \A i \in L : of[i] \in SUBSET S
      OBVIOUS
    <2>3. \A i \in L, j \in S : j \in of[i] <=> <<i, j>> \in Meets(f, L, S)
      BY DEF Meets, Measured
    <2>4. \A i \in L : same[i] = Cardinality(of[i])
      OBVIOUS
    <2> HIDE DEF same, of
    <2> QED BY <1>1, <2>1, <2>2, <2>3, <2>4, CountedByFirst
  <1>4. SumFunctionOnSet(one, L) = Cardinality(L)
    <2>1. SumFunctionOnSet(one, L) = 1 * Cardinality(L)
      <3>1. \A i \in L : one[i] = 1
        OBVIOUS
      <3> HIDE DEF one
      <3>2. 1 \in Int
        OBVIOUS
      <3> QED BY <1>1, <3>1, <3>2, SumOfConstant, Zenon
    <2> QED BY <1>1, <2>1
  <1>5. \A i \in L : below[i] \in Nat /\ same[i] \in Nat
    <2> SUFFICES ASSUME NEW i \in L PROVE below[i] \in Nat /\ same[i] \in Nat
      OBVIOUS
    <2> DEFINE b == {j \in S : f[j].c2 < f[i].c2}
               s == {j \in S : f[j].c2 = f[i].c2}
    <2>1. b \in SUBSET S /\ s \in SUBSET S /\ below[i] = Cardinality(b) /\ same[i] = Cardinality(s)
      OBVIOUS
    <2> HIDE DEF b, s, below, same
    <2> QED BY <1>1, <2>1, FS_Subset, FS_CardinalityType
  <1>6. \A i \in L : rank[i] = twice[i] + near[i]
    <2> SUFFICES ASSUME NEW i \in L PROVE rank[i] = twice[i] + near[i]
      OBVIOUS
    <2>1. rank[i] = 2 * below[i] + same[i] + 1
      BY DEF Rank2
    <2>2. twice[i] = below[i] + below[i] /\ near[i] = same[i] + 1 /\ below[i] \in Nat /\ same[i] \in Nat
      BY <1>5
    <2> HIDE DEF below, same, twice, near
    <2> QED BY <2>1, <2>2
  <1>7. \A i \in L : twice[i] = below[i] + below[i]
    OBVIOUS
  <1>8. \A i \in L : near[i] = same[i] + one[i]
    OBVIOUS
  <1>9. \A i \in L : one[i] \in Int
    OBVIOUS
  <1> HIDE DEF below, same, one
  <1>10. (\A i \in L : below[i] \in Int) /\ (\A i \in L : same[i] \in Int)
    BY <1>5
  <1>11. (\A i \in L : twice[i] \in Int) /\ (\A i \in L : near[i] \in Int)
    BY <1>5
  <1> HIDE DEF twice, near
  <1>12. SumFunctionOnSet(twice, L) = SumFunctionOnSet(below, L) + SumFunctionOnSet(below, L)
    BY <1>1, <1>7, <1>10, SumOfBoth
  <1>13. SumFunctionOnSet(near, L) = SumFunctionOnSet(same, L) + SumFunctionOnSet(one, L)
    BY <1>1, <1>8, <1>9, <1>10, SumOfBoth
  <1>14. SumFunctionOnSet(rank, L) = SumFunctionOnSet(twice, L) + SumFunctionOnSet(near, L)
    BY <1>1, <1>6, <1>11, SumOfBoth
  <1>15. Cardinality(Beats(f, L, S)) \in Nat /\ Cardinality(Meets(f, L, S)) \in Nat
    BY PairsAreFinite
  <1> QED BY <1>1, <1>2, <1>3, <1>4, <1>12, <1>13, <1>14, <1>15

\* U counts the pairs, ties for a half.
LEMMA UCountsPairs ==
  ASSUME NEW f, NEW L, NEW M, Measured(f, L), Measured(f, M), L \cap M = {}
  PROVE  DoubleU(f, L, M) = 2 * Cardinality(Beats(f, L, M)) + Cardinality(Meets(f, L, M))
  <1> DEFINE S == L \cup M
             rank == [i \in L |-> Rank2(f, S, i)]
             n == Cardinality(L)
  <1>1. Measured(f, S) /\ n \in Nat
    BY FS_Union, FS_CardinalityType DEF Measured
  <1>2. DoubleU(f, L, M) = SumFunctionOnSet(rank, L) - n * (n + 1)
    BY DEF DoubleU
  <1>3. \A i \in L : rank[i] = Rank2(f, S, i)
    OBVIOUS
  <1>4. /\ Cardinality(Beats(f, L, S)) = Cardinality(Beats(f, L, L)) + Cardinality(Beats(f, L, M))
        /\ Cardinality(Meets(f, L, S)) = Cardinality(Meets(f, L, L)) + Cardinality(Meets(f, L, M))
    BY PairsPart
  <1>5. n * n = Cardinality(Beats(f, L, L)) + Cardinality(Beats(f, L, L)) + Cardinality(Meets(f, L, L))
    BY PairsCompare
  <1> HIDE DEF S, rank, n
  <1>6. SumFunctionOnSet(rank, L) = 2 * Cardinality(Beats(f, L, S)) + Cardinality(Meets(f, L, S)) + n
    BY <1>1, <1>3, RanksAddUp DEF n
  <1>7. /\ Cardinality(Beats(f, L, L)) \in Nat /\ Cardinality(Meets(f, L, L)) \in Nat
        /\ Cardinality(Beats(f, L, M)) \in Nat /\ Cardinality(Meets(f, L, M)) \in Nat
    BY PairsAreFinite
  <1>8. n * (n + 1) = n * n + n /\ n * n \in Nat
    BY <1>1
  <1>9. SumFunctionOnSet(rank, L) - n * (n + 1) = 2 * Cardinality(Beats(f, L, M)) + Cardinality(Meets(f, L, M))
    <2> DEFINE sq == n * n
               over == n * (n + 1)
    <2>1. over = sq + n /\ sq \in Nat
      BY <1>8
    <2>2. sq = Cardinality(Beats(f, L, L)) + Cardinality(Beats(f, L, L)) + Cardinality(Meets(f, L, L))
      BY <1>5
    <2> HIDE DEF sq, over
    <2>3. SumFunctionOnSet(rank, L) - over = 2 * Cardinality(Beats(f, L, M)) + Cardinality(Meets(f, L, M))
      BY <1>1, <1>4, <1>6, <1>7, <2>1, <2>2
    <2> QED BY <2>3 DEF over
  <1> QED BY <1>2, <1>9

\* Asked both ways, every pair is counted twice.
LEMMA UBothWays ==
  ASSUME NEW f, NEW L, NEW M, Measured(f, L), Measured(f, M), L \cap M = {}
  PROVE  DoubleU(f, L, M) + DoubleU(f, M, L) = 2 * Cardinality(L) * Cardinality(M)
  <1>1. DoubleU(f, L, M) = 2 * Cardinality(Beats(f, L, M)) + Cardinality(Meets(f, L, M))
    BY UCountsPairs
  <1>2. DoubleU(f, M, L) = 2 * Cardinality(Beats(f, M, L)) + Cardinality(Meets(f, M, L))
    BY UCountsPairs
  <1>3. /\ Cardinality(L) * Cardinality(M)
              = Cardinality(Beats(f, L, M)) + Cardinality(Beats(f, M, L)) + Cardinality(Meets(f, L, M))
        /\ Cardinality(Meets(f, L, M)) = Cardinality(Meets(f, M, L))
    BY PairsCompare
  <1>4. /\ Cardinality(Beats(f, L, M)) \in Nat /\ Cardinality(Meets(f, L, M)) \in Nat
        /\ Cardinality(Beats(f, M, L)) \in Nat /\ Cardinality(Meets(f, M, L)) \in Nat
    BY PairsAreFinite
  <1>5. Cardinality(L) \in Nat /\ Cardinality(M) \in Nat
    BY FS_CardinalityType DEF Measured
  <1>6. 2 * Cardinality(L) * Cardinality(M) = 2 * (Cardinality(L) * Cardinality(M))
    BY <1>5
  <1> QED BY <1>1, <1>2, <1>3, <1>4, <1>6

\* Where all are equally deep, U is half of the pairs.
LEMMA UOfEquals ==
  ASSUME NEW f, NEW L, NEW M, Measured(f, L), Measured(f, M), L \cap M = {},
         \A i, j \in L \cup M : f[i].c2 = f[j].c2
  PROVE  /\ DoubleU(f, L, M) = Cardinality(L) * Cardinality(M)
         /\ Cardinality(L) * Cardinality(M) \in Nat
  <1>1. Beats(f, L, M) = {} /\ Meets(f, L, M) = L \X M
    BY DEF Beats, Meets, Measured
  <1>2. Cardinality(Beats(f, L, M)) = 0
    BY <1>1, FS_EmptySet, Zenon
  <1>3. Cardinality(Meets(f, L, M)) = Cardinality(L \X M)
    BY <1>1, Zenon
  <1>4. Cardinality(L \X M) = Cardinality(L) * Cardinality(M) /\ Cardinality(L) \in Nat /\ Cardinality(M) \in Nat
    BY FS_Product, FS_CardinalityType DEF Measured
  <1>5. DoubleU(f, L, M) = 2 * Cardinality(Beats(f, L, M)) + Cardinality(Meets(f, L, M))
    BY UCountsPairs
  <1>6. Cardinality(Meets(f, L, M)) \in Nat
    BY PairsAreFinite
  <1> QED BY <1>2, <1>3, <1>4, <1>5, <1>6

(***************************************************************************)
(* Categories and gates                                                    *)
(***************************************************************************)
\* An image of a finite set is finite.
LEMMA ImageIsFinite ==
  ASSUME NEW S, IsFiniteSet(S), NEW g
  PROVE  IsFiniteSet({g[x] : x \in S})
  <1> DEFINE h == [x \in S |-> g[x]]
             T == {g[x] : x \in S}
  <1>1. h \in Surjection(S, T)
    BY DEF Surjection
  <1> HIDE DEF h, T
  <1> QED BY <1>1, FS_Surjection DEF T

\* The fires of a category, or those that pass a gate, are fires.
LEMMA PartIsMeasured ==
  ASSUME NEW f, Measured(f, DOMAIN f), NEW S \in SUBSET DOMAIN f
  PROVE  /\ DOMAIN Restrict(f, S) = S /\ \A i \in S : Restrict(f, S)[i] = f[i]
         /\ Measured(f, S) /\ Measured(Restrict(f, S), S)
  BY FS_Subset DEF Measured, Restrict

\* No fire is both a lock and a miss.
LEMMA LocksAndMisses ==
  ASSUME NEW f, Measured(f, DOMAIN f)
  PROVE  /\ Locks(f) \in SUBSET DOMAIN f /\ Misses(f) \in SUBSET DOMAIN f /\ Locks(f) \cap Misses(f) = {}
         /\ Measured(f, Locks(f)) /\ Measured(f, Misses(f))
  <1>1. Locks(f) \in SUBSET DOMAIN f /\ Misses(f) \in SUBSET DOMAIN f /\ Locks(f) \cap Misses(f) = {}
    BY DEF Locks, Misses
  <1> QED BY <1>1, PartIsMeasured

\* The ranks of any finite fires, with depths that are numbers, count their pairs.
LEMMA RanksAlwaysCount ==
  ASSUME NEW f, Measured(f, DOMAIN f)
  PROVE  RanksCountPairs(f)
  <1> DEFINE L == Locks(f)
             M == Misses(f)
  <1>1. Measured(f, L) /\ Measured(f, M) /\ L \cap M = {}
    BY LocksAndMisses
  <1>2. DoubleU(f, L, M) = 2 * Cardinality(Beats(f, L, M)) + Cardinality(Meets(f, L, M))
    BY <1>1, UCountsPairs
  <1>3. DoubleU(f, L, M) + DoubleU(f, M, L) = 2 * Cardinality(L) * Cardinality(M)
    BY <1>1, UBothWays
  <1> HIDE DEF L, M
  <1> QED BY <1>2, <1>3 DEF RanksCountPairs, Beats, Meets, L, M

\* Where all are equally deep, a stratum says nothing.
LEMMA EqualsSayNothing ==
  ASSUME NEW f, NEW L, NEW M, Measured(f, L), Measured(f, M), L \cap M = {},
         \A i, j \in L \cup M : f[i].c2 = f[j].c2
  PROVE  StratumStat(f, L, M) = 0
  <1>1. DoubleU(f, L, M) = Cardinality(L) * Cardinality(M) /\ Cardinality(L) * Cardinality(M) \in Nat
    BY UOfEquals
  <1>2. CASE L = {} \/ M = {}
    BY <1>2 DEF StratumStat
  <1>3. CASE ~ (L = {} \/ M = {})
    <2>1. Cardinality(M) \in Nat /\ Cardinality(M) # 0
      BY <1>3, FS_CardinalityType, FS_EmptySet DEF Measured
    <2>2. 60 * (DoubleU(f, L, M) - Cardinality(L) * Cardinality(M)) = 0
      BY <1>1
    <2>3. StratumStat(f, L, M) = 0 \div (2 * Cardinality(M))
      BY <1>3, <2>2 DEF StratumStat
    <2>4. ASSUME NEW k \in Nat, k # 0 PROVE 0 \div (2 * k) = 0
      BY <2>4
    <2> QED BY <2>1, <2>3, <2>4
  <1> QED BY <1>2, <1>3

\* The category of each fire.
Kind(f, i) == CategoryOf[f[i].market]

\* Where depth follows the category, no labelling shows an effect of the depth.
LEMMA TheConfoundIsHidden ==
  ASSUME NEW f, Measured(f, DOMAIN f), \A i, j \in DOMAIN f : Kind(f, i) = Kind(f, j) => f[i].c2 = f[j].c2
  PROVE  /\ \A labelled \in SUBSET DOMAIN f : Stat(f, labelled) = 0
         /\ \A cat \in Categories(f) : Verdict(InCategory(f, cat)) \in {"none", "n/a"}
  <1> DEFINE of(cat) == {i \in DOMAIN f : Kind(f, i) = cat}
  <1>1. ASSUME NEW cat
        PROVE  /\ of(cat) \in SUBSET DOMAIN f /\ InCategory(f, cat) = Restrict(f, of(cat)) /\ DOMAIN InCategory(f, cat) = of(cat)
               /\ \A i, j \in of(cat) : f[i].c2 = f[j].c2
    <2>1. of(cat) \in SUBSET DOMAIN f /\ InCategory(f, cat) = Restrict(f, of(cat))
      BY DEF InCategory, Kind
    <2>2. DOMAIN InCategory(f, cat) = of(cat)
      BY <2>1 DEF Restrict
    <2>3. \A i, j \in of(cat) : f[i].c2 = f[j].c2
      OBVIOUS
    <2> QED BY <2>1, <2>2, <2>3
  <1>2. IsFiniteSet(Strata(f))
    <2> DEFINE g == [i \in DOMAIN f |-> Kind(f, i)]
    <2>1. Strata(f) \in SUBSET {g[i] : i \in DOMAIN f}
      BY DEF Strata, Categories, Kind
    <2> HIDE DEF g
    <2>2. IsFiniteSet({g[i] : i \in DOMAIN f})
      BY ImageIsFinite DEF Measured
    <2> QED BY <2>1, <2>2, FS_Subset
  <1>3. ASSUME NEW labelled \in SUBSET DOMAIN f PROVE Stat(f, labelled) = 0
    <2> DEFINE s == [cat \in Strata(f) |-> StratumStat(f, DOMAIN InCategory(f, cat) \cap labelled, DOMAIN InCategory(f, cat) \ labelled)]
    <2>1. Stat(f, labelled) = SumFunctionOnSet(s, Strata(f))
      BY DEF Stat
    <2>2. ASSUME NEW cat \in Strata(f) PROVE s[cat] = 0
      <3> DEFINE L == DOMAIN InCategory(f, cat) \cap labelled
                 M == DOMAIN InCategory(f, cat) \ labelled
      <3>1. /\ L \in SUBSET DOMAIN f /\ M \in SUBSET DOMAIN f /\ L \cap M = {}
            /\ \A i, j \in L \cup M : f[i].c2 = f[j].c2
        <4>1. /\ of(cat) \in SUBSET DOMAIN f /\ DOMAIN InCategory(f, cat) = of(cat)
              /\ \A i, j \in of(cat) : f[i].c2 = f[j].c2
          BY <1>1
        <4>2. L = of(cat) \cap labelled /\ M = of(cat) \ labelled
          BY <4>1
        <4> HIDE DEF of, L, M
        <4> QED BY <4>1, <4>2
      <3>2. s[cat] = StratumStat(f, L, M)
        OBVIOUS
      <3> HIDE DEF L, M, s
      <3>3. Measured(f, L) /\ Measured(f, M)
        BY <3>1, PartIsMeasured
      <3> QED BY <3>1, <3>2, <3>3, EqualsSayNothing
    <2>3. 0 \in Int /\ \A cat \in Strata(f) : s[cat] = 0
      BY <2>2
    <2> HIDE DEF s
    <2>4. SumFunctionOnSet(s, Strata(f)) = 0 * Cardinality(Strata(f))
      BY <1>2, <2>3, SumOfConstant, Zenon
    <2> QED BY <1>2, <2>1, <2>4, FS_CardinalityType
  <1>4. ASSUME NEW cat \in Categories(f) PROVE Verdict(InCategory(f, cat)) \in {"none", "n/a"}
    <2> DEFINE g == InCategory(f, cat)
               L == Locks(g)
               M == Misses(g)
               u == DoubleU(g, L, M)
               n == 2 * Cardinality(L) * Cardinality(M)
    <2>1. /\ Measured(g, DOMAIN g) /\ \A i, j \in DOMAIN g : g[i].c2 = g[j].c2
      <3>1. \A i \in of(cat) : Restrict(f, of(cat))[i] = f[i]
        BY DEF Restrict
      <3>2. Measured(Restrict(f, of(cat)), of(cat))
        BY <1>1, PartIsMeasured
      <3> HIDE DEF of
      <3> QED BY <1>1, <3>1, <3>2
    <2>2. Verdict(g) = IF n = 0 THEN "n/a" ELSE IF 10 * u > 6 * n THEN "deeper" ELSE IF 10 * u < 4 * n THEN "inverted" ELSE "none"
      BY DEF Verdict
    <2> HIDE DEF g, of
    <2>3. Measured(g, L) /\ Measured(g, M) /\ L \cap M = {} /\ L \in SUBSET DOMAIN g /\ M \in SUBSET DOMAIN g
      BY <2>1, LocksAndMisses
    <2>4. \A i, j \in L \cup M : g[i].c2 = g[j].c2
      BY <2>1, <2>3
    <2> HIDE DEF L, M
    <2>5. u = Cardinality(L) * Cardinality(M) /\ u \in Nat
      BY <2>3, <2>4, UOfEquals
    <2>6. Cardinality(L) \in Nat /\ Cardinality(M) \in Nat
      BY <2>3, FS_CardinalityType DEF Measured
    <2>7. n = 2 * u
      BY <2>5, <2>6
    <2> HIDE DEF n, u
    <2>8. Verdict(g) \in {"none", "n/a"}
      BY <2>2, <2>5, <2>7
    <2> QED BY <2>8 DEF g
  <1> QED BY <1>3, <1>4

\* A product keeps the order of its factors.
LEMMA TimesKeepsOrder ==
  ASSUME NEW x \in Nat, NEW y \in Nat, NEW k \in Nat, k # 0
  PROVE  x < y <=> x * k < y * k
  OBVIOUS

\* Ratios are compared in order.
LEMMA RatiosGoOn ==
  ASSUME NEW a \in [locks : Nat, n : Nat], NEW b \in [locks : Nat, n : Nat], NEW c \in [locks : Nat, n : Nat],
         a.n # 0, b.n # 0, c.n # 0, LessThan(a, b), LessThan(b, c)
  PROVE  LessThan(a, c)
  <1> DEFINE p == a.locks  q == a.n  r == b.locks  s == b.n  t == c.locks  v == c.n
  <1>1. p \in Nat /\ q \in Nat /\ r \in Nat /\ s \in Nat /\ t \in Nat /\ v \in Nat /\ q # 0 /\ s # 0 /\ v # 0
    OBVIOUS
  <1>2. p * s < r * q /\ r * v < t * s
    BY DEF LessThan
  <1> SUFFICES p * v < t * q
    BY DEF LessThan
  <1> HIDE DEF p, q, r, s, t, v
  <1>3. p * s \in Nat /\ r * q \in Nat /\ r * v \in Nat /\ t * s \in Nat /\ p * v \in Nat /\ t * q \in Nat
    BY <1>1
  <1>4. (p * s) * v < (r * q) * v /\ (r * v) * q < (t * s) * q
    BY <1>1, <1>2, <1>3, TimesKeepsOrder
  <1>5. (p * s) * v = (p * v) * s /\ (r * q) * v = (r * v) * q /\ (t * s) * q = (t * q) * s
    BY <1>1
  <1>6. (p * v) * s < (t * q) * s
    <2>1. (p * s) * v \in Nat /\ (r * q) * v \in Nat /\ (t * s) * q \in Nat
      BY <1>1, <1>3
    <2> DEFINE x == (p * s) * v  y == (r * q) * v  z == (t * s) * q
    <2>2. x < y /\ y < z /\ x \in Nat /\ y \in Nat /\ z \in Nat
      BY <1>4, <1>5, <2>1
    <2>3. x = (p * v) * s /\ z = (t * q) * s
      BY <1>5
    <2> HIDE DEF x, y, z
    <2> QED BY <2>2, <2>3
  <1> QED BY <1>1, <1>3, <1>6, TimesKeepsOrder

\* Of finitely many ratios, one is not below any.
LEMMA BestRatio ==
  ASSUME NEW S, IsFiniteSet(S), S # {}, NEW r, \A x \in S : r[x] \in [locks : Nat, n : Nat] /\ r[x].n # 0
  PROVE  \E x \in S : \A y \in S : ~ LessThan(r[x], r[y])
  <1> DEFINE G == {T \in SUBSET S : T = {} \/ \E x \in T : \A y \in T : ~ LessThan(r[x], r[y])}
  <1>1. {} \in G
    OBVIOUS
  <1>2. \A x \in S : ~ LessThan(r[x], r[x])
    <2> SUFFICES ASSUME NEW x \in S PROVE ~ LessThan(r[x], r[x])
      OBVIOUS
    <2> DEFINE k == r[x].locks * r[x].n
    <2>1. k \in Nat
      OBVIOUS
    <2>2. LessThan(r[x], r[x]) <=> k < k
      BY DEF LessThan
    <2> HIDE DEF k
    <2> QED BY <2>1, <2>2
  <1>3. \A x, y, z \in S : LessThan(r[x], r[y]) /\ LessThan(r[y], r[z]) => LessThan(r[x], r[z])
    <2> SUFFICES ASSUME NEW x \in S, NEW y \in S, NEW z \in S, LessThan(r[x], r[y]), LessThan(r[y], r[z])
                 PROVE  LessThan(r[x], r[z])
      OBVIOUS
    <2>1. /\ r[x] \in [locks : Nat, n : Nat] /\ r[y] \in [locks : Nat, n : Nat] /\ r[z] \in [locks : Nat, n : Nat]
          /\ r[x].n # 0 /\ r[y].n # 0 /\ r[z].n # 0
      OBVIOUS
    <2> QED BY <2>1, RatiosGoOn
  <1>4. ASSUME NEW T \in SUBSET S, NEW a \in S, T \in G PROVE T \cup {a} \in G
    <2>1. CASE T = {}
      BY <1>2, <2>1
    <2>2. CASE T # {}
      <3>1. PICK x \in T : \A y \in T : ~ LessThan(r[x], r[y])
        BY <1>4, <2>2
      <3>2. CASE LessThan(r[x], r[a])
        <4>1. \A y \in T \cup {a} : ~ LessThan(r[a], r[y])
          BY <1>2, <1>3, <3>1, <3>2
        <4> QED BY <4>1
      <3>3. CASE ~ LessThan(r[x], r[a])
        <4>1. \A y \in T \cup {a} : ~ LessThan(r[x], r[y])
          BY <3>1, <3>3
        <4> QED BY <3>1, <4>1
      <3> QED BY <3>2, <3>3
    <2> QED BY <2>1, <2>2
  <1>5. S \in G
    <2> HIDE DEF G
    <2> QED BY <1>1, <1>4, SubsetInduction
  <1> QED BY <1>5

\* What passes a gate, and how it converts.
LEMMA KeptConverts ==
  ASSUME NEW f, Measured(f, DOMAIN f), NEW x
  PROVE  /\ Conversion(Kept(f, x)) \in [locks : Nat, n : Nat]
         /\ Conversion(f) \in [locks : Nat, n : Nat]
         /\ Conversion(Kept(f, x)).n <= Conversion(f).n
         /\ (\A i \in DOMAIN f : f[i].c2 >= x) => Conversion(Kept(f, x)) = Conversion(f)
  <1> DEFINE S == {i \in DOMAIN f : f[i].c2 >= x}
             g == Kept(f, x)
  <1>1. g = Restrict(f, S) /\ S \in SUBSET DOMAIN f
    BY DEF Kept
  <1>2. DOMAIN g = S /\ \A i \in S : g[i] = f[i]
    BY DEF Kept, Restrict
  <1>3. IsFiniteSet(DOMAIN f) /\ IsFiniteSet(S)
    BY <1>1, FS_Subset DEF Measured
  <1>4. Locks(f) \in SUBSET DOMAIN f /\ Locks(g) \in SUBSET S
    BY <1>2 DEF Locks
  <1>5. /\ Conversion(g).n = Cardinality(DOMAIN g) /\ Conversion(g).locks = Cardinality(Locks(g))
        /\ Conversion(f).n = Cardinality(DOMAIN f) /\ Conversion(f).locks = Cardinality(Locks(f))
        /\ Conversion(g) = [locks |-> Cardinality(Locks(g)), n |-> Cardinality(DOMAIN g)]
        /\ Conversion(f) = [locks |-> Cardinality(Locks(f)), n |-> Cardinality(DOMAIN f)]
    BY DEF Conversion
  <1>6. Cardinality(DOMAIN g) = Cardinality(S)
    BY <1>2, Zenon
  <1>7. ASSUME \A i \in DOMAIN f : f[i].c2 >= x PROVE Conversion(g) = Conversion(f)
    <2>1. S = DOMAIN f
      BY <1>7
    <2>2. DOMAIN g = DOMAIN f
      BY <1>2, <2>1, Zenon
    <2>3. Locks(g) = Locks(f)
      BY <1>2, <2>1, <2>2 DEF Locks
    <2> QED BY <1>5, <2>2, <2>3, Zenon
  <1> HIDE DEF S, g
  <1>8. /\ Cardinality(S) \in Nat /\ Cardinality(DOMAIN f) \in Nat /\ Cardinality(S) <= Cardinality(DOMAIN f)
        /\ Cardinality(Locks(f)) \in Nat /\ Cardinality(Locks(g)) \in Nat
    BY <1>1, <1>3, <1>4, FS_Subset, FS_CardinalityType
  <1>9. Conversion(g) \in [locks : Nat, n : Nat] /\ Conversion(f) \in [locks : Nat, n : Nat] /\ Conversion(g).n <= Conversion(f).n
    BY <1>5, <1>6, <1>8
  <1> QED BY <1>7, <1>9 DEF g

\* The gate is never worse than none.
LEMMA GateIsNeverWorse ==
  ASSUME NEW f, Measured(f, DOMAIN f), \A i \in DOMAIN f : f[i].c2 # None
  PROVE  GateNeverWorse(f)
  <1> DEFINE V == {f[i].c2 : i \in DOMAIN f}
             best == {x \in Gates(f) : \A y \in Gates(f) : ~ LessThan(Conversion(Kept(f, x)), Conversion(Kept(f, y)))}
  <1>1. V \in SUBSET Int /\ IsFiniteSet(V) /\ None \notin V
    <2> DEFINE g == [i \in DOMAIN f |-> f[i].c2]
    <2>1. V = {g[i] : i \in DOMAIN f}
      OBVIOUS
    <2>2. IsFiniteSet({g[i] : i \in DOMAIN f})
      <3> HIDE DEF g
      <3> QED BY ImageIsFinite DEF Measured
    <2>3. IsFiniteSet(V)
      BY <2>1, <2>2, Zenon
    <2> QED BY <2>3 DEF Measured
  <1>2. \A x \in Gates(f) : x \in V /\ Conversion(Kept(f, x)).n >= 4
    BY DEF Gates
  <1>3. IsFiniteSet(Gates(f)) /\ Gates(f) \in SUBSET V
    <2>1. Gates(f) \in SUBSET V
      BY <1>2
    <2> HIDE DEF V
    <2> QED BY <1>1, <2>1, FS_Subset
  <1>4. \A x : Conversion(Kept(f, x)) \in [locks : Nat, n : Nat] /\ Conversion(Kept(f, x)).n <= Conversion(f).n
    BY KeptConverts
  <1>5. Conversion(f) \in [locks : Nat, n : Nat] /\ Conversion(f).n = Cardinality(DOMAIN f)
    BY KeptConverts DEF Conversion
  <1>6. ASSUME Cardinality(DOMAIN f) >= 4 PROVE \E x \in Gates(f) : Conversion(Kept(f, x)) = Conversion(f)
    <2>1. DOMAIN f # {}
      <3> SUFFICES ASSUME DOMAIN f = {} PROVE FALSE
        OBVIOUS
      <3>1. Cardinality(DOMAIN f) = 0
        BY FS_EmptySet, Zenon
      <3> QED BY <1>6, <3>1
    <2>2. V # {}
      BY <2>1
    <2>3. PICK x \in V : \A y \in V : x <= y
      <3> HIDE DEF V
      <3> QED BY <1>1, <2>2, LeastNumber
    <2>4. \A i \in DOMAIN f : f[i].c2 >= x
      BY <1>1, <2>3 DEF Measured
    <2>5. Conversion(Kept(f, x)) = Conversion(f)
      BY <2>4, KeptConverts
    <2>6. 4 * Conversion(f).n >= Conversion(f).n /\ Conversion(f).n >= 4
      BY <1>5, <1>6
    <2>7. x \in Gates(f)
      BY <2>3, <2>5, <2>6 DEF Gates
    <2> QED BY <2>5, <2>7
  <1>7. Gates(f) # {} => best # {}
    <2> SUFFICES ASSUME Gates(f) # {} PROVE best # {}
      OBVIOUS
    <2> DEFINE r == [x \in Gates(f) |-> Conversion(Kept(f, x))]
    <2>1. \A x \in Gates(f) : r[x] \in [locks : Nat, n : Nat] /\ r[x].n # 0
      BY <1>2, <1>4
    <2>2. \A x \in Gates(f) : r[x] = Conversion(Kept(f, x))
      OBVIOUS
    <2> HIDE DEF r
    <2>3. PICK x \in Gates(f) : \A y \in Gates(f) : ~ LessThan(r[x], r[y])
      BY <1>3, <2>1, BestRatio
    <2>4. \A y \in Gates(f) : ~ LessThan(Conversion(Kept(f, x)), Conversion(Kept(f, y)))
      BY <2>2, <2>3
    <2> QED BY <2>4
  <1>8. best # {} => BestThreshold(f) \in best
    <2> SUFFICES ASSUME best # {} PROVE BestThreshold(f) \in best
      OBVIOUS
    <2>1. best \in SUBSET Int /\ IsFiniteSet(best)
      <3>1. best \in SUBSET Gates(f)
        OBVIOUS
      <3> HIDE DEF best, V
      <3> QED BY <1>1, <1>3, <3>1, FS_Subset
    <2>2. BestThreshold(f) = CHOOSE x \in best : \A y \in best : x <= y
      BY DEF BestThreshold
    <2> HIDE DEF best
    <2>3. \E x \in best : \A y \in best : x <= y
      BY <2>1, LeastNumber
    <2> QED BY <2>2, <2>3
  <1>9. best = {} => BestThreshold(f) = None
    BY DEF BestThreshold
  <1>10. ASSUME Cardinality(DOMAIN f) >= 4 PROVE BestThreshold(f) # None
    <2>1. BestThreshold(f) \in best
      BY <1>6, <1>7, <1>8, <1>10
    <2> QED BY <1>1, <1>3, <2>1
  <1>11. ASSUME BestThreshold(f) # None PROVE ~ LessThan(Conversion(Kept(f, BestThreshold(f))), Conversion(f))
    <2>1. BestThreshold(f) \in best
      BY <1>8, <1>9, <1>11
    <2>2. Conversion(Kept(f, BestThreshold(f))).n >= 4
      BY <1>2, <2>1
    <2>3. Cardinality(DOMAIN f) >= 4
      BY <1>4, <1>5, <2>2
    <2>4. PICK x \in Gates(f) : Conversion(Kept(f, x)) = Conversion(f)
      BY <1>6, <2>3
    <2>5. ~ LessThan(Conversion(Kept(f, BestThreshold(f))), Conversion(Kept(f, x)))
      BY <2>1, <2>4
    <2> QED BY <2>4, <2>5
  <1> QED BY <1>10, <1>11 DEF GateNeverWorse

(***************************************************************************)
(* The log of the fires                                                    *)
(***************************************************************************)
Results == {o.result : o \in Outcomes}
Details == {o.detail : o \in Outcomes}

\* What is written of a fire.
EntryRows    == [event : {"book"}, phase : {"entry"}, market : Slugs, c2 : Depths]
RecoveryRows == [event : {"book"}, phase : {"recovery"}, market : Slugs, c2 : {0}]
ApprovedRows == [event : {"approved"}, market : Slugs, edge : Depths]
OutcomeRows  == [event : {"fire_outcome"}, market : Slugs, result : Results, detail : Details]
FireRows     == EntryRows \cup RecoveryRows \cup ApprovedRows \cup OutcomeRows

\* What group_fires makes of it.
Openings == [c2 : Depths \cup {None}, edge : Depths \cup {None}]
FireTold == [market : Slugs, result : Results, detail : Details, c2 : Depths \cup {None}]
Grouping == [pending : [Slugs -> Openings \cup {None}], fires : Seq(FireTold)]

\* Before the first record.
Nothing == [pending |-> [m \in Slugs |-> None], fires |-> <<>>]

\* The grouping starts as one.
LEMMA NothingTyped == Nothing \in Grouping
  BY DEF Nothing, Grouping

\* The recursion of Read, given what it returns for the records before.
ReadStep(f, q, n) == IF n = 0 THEN Nothing ELSE Grouped(f[n - 1], q[n])

\* f solves it up to N.
Reads(f, q, N) == f = [n \in 0..N |-> ReadStep(f, q, n)]

\* Read is the solution of its recursion, if it has one.
LEMMA ReadIs == \A q : Read(q) = (CHOOSE f : Reads(f, q, Len(q)))[Len(q)]
  BY DEF Read, Reads, ReadStep, Nothing

\* The recursion has a solution up to any number.
LEMMA ReadsExist == ASSUME NEW q, NEW N \in Nat PROVE \E f : Reads(f, q, N)
  <1> DEFINE G == {n \in 0..N : \E f : Reads(f, q, n)}
  <1>1. 0 \in G
    <2> DEFINE f == [n \in 0..0 |-> Nothing]
    <2>1. \A n \in 0..0 : ReadStep(f, q, n) = Nothing
      BY DEF ReadStep
    <2>2. f = [n \in 0..0 |-> ReadStep(f, q, n)]
      BY <2>1
    <2>3. Reads(f, q, 0)
      BY <2>2 DEF Reads
    <2> QED BY <2>3
  <1>2. ASSUME NEW n \in 0..(N - 1), n \in G PROVE n + 1 \in G
    <2>1. PICK f : Reads(f, q, n)
      BY <1>2
    <2> DEFINE h == [m \in 0..(n + 1) |-> ReadStep(f, q, m)]
    <2>2. \A m \in 0..n : h[m] = f[m]
      BY <2>1 DEF Reads
    <2>3. ASSUME NEW m \in 0..(n + 1) PROVE ReadStep(h, q, m) = ReadStep(f, q, m)
      <3>1. m = 0 \/ m - 1 \in 0..n
        OBVIOUS
      <3> HIDE DEF h
      <3> QED BY <2>2, <3>1 DEF ReadStep
    <2>4. h = [m \in 0..(n + 1) |-> ReadStep(h, q, m)]
      BY <2>3
    <2>5. Reads(h, q, n + 1)
      BY <2>4 DEF Reads
    <2>6. n + 1 \in 0..N
      OBVIOUS
    <2> QED BY <2>5, <2>6
  <1>3. N \in G
    <2> HIDE DEF G
    <2> QED BY <1>1, <1>2, Climb
  <1> QED BY <1>3

\* What is read of a log.
LEMMA ReadUnfolds ==
  ASSUME NEW q, Len(q) \in Nat
  PROVE  \E f : Reads(f, q, Len(q)) /\ Read(q) = f[Len(q)]
  <1>1. \E f : Reads(f, q, Len(q))
    BY ReadsExist
  <1> QED BY <1>1, ReadIs

\* An empty log tells of nothing.
LEMMA ReadOfNothing == Read(<<>>) = Nothing
  <1>1. Len(<<>>) = 0
    OBVIOUS
  <1>2. PICK f : Reads(f, <<>>, 0) /\ Read(<<>>) = f[0]
    BY <1>1, ReadUnfolds
  <1>3. f[0] = ReadStep(f, <<>>, 0)
    BY <1>2 DEF Reads
  <1> QED BY <1>2, <1>3 DEF ReadStep

\* A log with one more record.
LEMMA ReadGoesOn ==
  ASSUME NEW S, NEW q \in Seq(S), NEW r \in S
  PROVE  Read(Append(q, r)) = Grouped(Read(q), r)
  <1> DEFINE w == Append(q, r)
             N == Len(q)
  <1>1. N \in Nat /\ Len(w) = N + 1 /\ w[N + 1] = r /\ \A i \in 1..N : w[i] = q[i]
    OBVIOUS
  <1> HIDE DEF w, N
  <1>2. PICK f : Reads(f, q, N) /\ Read(q) = f[N]
    BY <1>1, ReadUnfolds DEF N
  <1>3. PICK h : Reads(h, w, N + 1) /\ Read(w) = h[N + 1]
    BY <1>1, ReadUnfolds
  <1> DEFINE G == {n \in 0..N : h[n] = f[n]}
  <1>4. 0 \in G
    <2>1. 0 \in 0..N /\ 0 \in 0..(N + 1)
      BY <1>1
    <2>2. f[0] = ReadStep(f, q, 0)
      BY <1>2, <2>1 DEF Reads
    <2>3. h[0] = ReadStep(h, w, 0)
      BY <1>3, <2>1 DEF Reads
    <2> QED BY <2>1, <2>2, <2>3 DEF ReadStep
  <1>5. ASSUME NEW n \in 0..(N - 1), n \in G PROVE n + 1 \in G
    <2>1. n + 1 \in 0..N /\ n + 1 \in 0..(N + 1) /\ n + 1 \in 1..N /\ n + 1 # 0 /\ (n + 1) - 1 = n
      BY <1>1
    <2>2. f[n + 1] = ReadStep(f, q, n + 1) /\ h[n + 1] = ReadStep(h, w, n + 1)
      BY <1>2, <1>3, <2>1 DEF Reads
    <2>3. f[n + 1] = Grouped(f[n], q[n + 1]) /\ h[n + 1] = Grouped(h[n], w[n + 1])
      BY <2>1, <2>2 DEF ReadStep
    <2>4. h[n] = f[n] /\ w[n + 1] = q[n + 1]
      BY <1>1, <1>5, <2>1
    <2>5. h[n + 1] = f[n + 1]
      BY <2>3, <2>4, Zenon
    <2> QED BY <2>1, <2>5
  <1>6. \A n \in 0..N : n \in G
    <2> HIDE DEF G
    <2> QED BY <1>1, <1>4, <1>5, Climb
  <1>7. h[N] = f[N]
    BY <1>1, <1>6
  <1>8. h[N + 1] = Grouped(h[N], w[N + 1])
    <2>1. h[N + 1] = ReadStep(h, w, N + 1)
      BY <1>1, <1>3 DEF Reads
    <2>2. N + 1 # 0 /\ (N + 1) - 1 = N
      BY <1>1
    <2> QED BY <2>1, <2>2 DEF ReadStep
  <1>9. Read(w) = Grouped(Read(q), r)
    BY <1>1, <1>2, <1>3, <1>7, <1>8, Zenon
  <1> QED BY <1>9 DEF w

\* A book at entry.
LEMMA EntryGrouped ==
  ASSUME NEW acc \in Grouping, NEW r \in EntryRows
  PROVE  /\ Grouped(acc, r) \in Grouping /\ Grouped(acc, r).fires = acc.fires
         /\ Grouped(acc, r).pending = [acc.pending EXCEPT ![r.market] = [c2 |-> r.c2, edge |-> None]]
  <1>1. r.event = "book" /\ r.phase = "entry" /\ r.market \in Slugs /\ r.c2 \in Depths
    BY DEF EntryRows
  <1>2. Grouped(acc, r) = [acc EXCEPT !.pending[r.market] = [c2 |-> r.c2, edge |-> None]]
    BY <1>1 DEF Grouped, Opened
  <1>3. [c2 |-> r.c2, edge |-> None] \in Openings
    BY <1>1 DEF Openings
  <1> QED BY <1>1, <1>2, <1>3 DEF Grouping

\* A book at a recovery.
LEMMA RecoveryGrouped ==
  ASSUME NEW acc, NEW r \in RecoveryRows
  PROVE  Grouped(acc, r) = acc
  BY DEF RecoveryRows, Grouped

\* An approval that comes after a book.
LEMMA ApprovedGrouped ==
  ASSUME NEW acc \in Grouping, NEW r \in ApprovedRows, acc.pending[r.market] # None
  PROVE  /\ Grouped(acc, r) \in Grouping /\ Grouped(acc, r).fires = acc.fires
         /\ Grouped(acc, r).pending = [acc.pending EXCEPT ![r.market] = [c2 |-> acc.pending[r.market].c2, edge |-> r.edge]]
  <1>1. r.event = "approved" /\ r.market \in Slugs /\ r.edge \in Depths
    BY DEF ApprovedRows
  <1>2. Grouped(acc, r) = [acc EXCEPT !.pending[r.market] = [c2 |-> acc.pending[r.market].c2, edge |-> r.edge]]
    BY <1>1 DEF Grouped, Grouping
  <1>3. acc.pending[r.market] \in Openings
    BY <1>1 DEF Grouping
  <1>4. [c2 |-> acc.pending[r.market].c2, edge |-> r.edge] \in Openings
    BY <1>1, <1>3 DEF Openings
  <1> QED BY <1>1, <1>2, <1>4 DEF Grouping

\* The outcome of a fire that was opened.
LEMMA OutcomeGrouped ==
  ASSUME NEW acc \in Grouping, NEW r \in OutcomeRows, acc.pending[r.market] # None
  PROVE  /\ Grouped(acc, r) \in Grouping
         /\ Grouped(acc, r).pending = [acc.pending EXCEPT ![r.market] = None]
         /\ Grouped(acc, r).fires = Append(acc.fires, [market |-> r.market, result |-> r.result, detail |-> r.detail,
                                                      c2 |-> acc.pending[r.market].c2])
  <1>1. r.event = "fire_outcome" /\ r.market \in Slugs /\ r.result \in Results /\ r.detail \in Details
    BY DEF OutcomeRows
  <1> DEFINE told == [market |-> r.market, result |-> r.result, detail |-> r.detail, c2 |-> acc.pending[r.market].c2]
  <1>2. Grouped(acc, r) = [pending |-> [acc.pending EXCEPT ![r.market] = None], fires |-> Append(acc.fires, told)]
    BY <1>1 DEF Grouped
  <1>3. acc.pending[r.market] \in Openings
    BY <1>1 DEF Grouping
  <1>4. told \in FireTold
    BY <1>1, <1>3 DEF Openings, FireTold
  <1> HIDE DEF told
  <1>5. acc.pending \in [Slugs -> Openings \cup {None}] /\ acc.fires \in Seq(FireTold)
    BY DEF Grouping
  <1>6. Append(acc.fires, told) \in Seq(FireTold)
    BY <1>4, <1>5
  <1>7. [acc.pending EXCEPT ![r.market] = None] \in [Slugs -> Openings \cup {None}]
    BY <1>5
  <1> QED BY <1>2, <1>6, <1>7 DEF Grouping, told

\* What is told of the fires, but for the venue of a naked leg.
Told(fires) == [i \in DOMAIN fires |-> [market |-> fires[i].market, c2 |-> fires[i].c2, result |-> fires[i].result]]

\* Each fire told is the one that was made, and each fire under way is the one that is open in the log.
FireInv ==
  /\ execLog \in Seq(FireRows)
  /\ inflight \in [Slugs -> [c2 : Depths] \cup {None}]
  /\ Read(execLog) \in Grouping
  /\ Told(Read(execLog).fires) = made
  /\ \A m \in Slugs : inflight[m] # None => /\ Read(execLog).pending[m] # None
                                          /\ Read(execLog).pending[m].c2 = inflight[m].c2

\* A fire, its books and its death leave the fires told as they were made.
LEMMA FireKeeps ==
  ASSUME FireInv, NEW m \in Slugs, NEW c2 \in Depths, Fire(m, c2)
  PROVE  FireInv'
  <1> DEFINE a == [event |-> "book", phase |-> "entry", market |-> m, c2 |-> c2]
             b == [event |-> "approved", market |-> m, edge |-> c2]
             acc == Read(execLog)
             mid == Grouped(acc, a)
             new == Grouped(mid, b)
  <1>1. /\ execLog' = execLog \o <<a, b>> /\ inflight' = [inflight EXCEPT ![m] = [c2 |-> c2]] /\ made' = made
        /\ execLog \in Seq(FireRows) /\ inflight \in [Slugs -> [c2 : Depths] \cup {None}] /\ acc \in Grouping
    BY DEF Fire, FireInv
  <1>2. a \in EntryRows /\ b \in ApprovedRows /\ a.market = m /\ a.c2 = c2 /\ b.market = m /\ b.edge = c2
    BY DEF EntryRows, ApprovedRows
  <1> HIDE DEF a, b, acc
  <1>3. a \in FireRows /\ b \in FireRows
    BY <1>2 DEF FireRows
  <1>4. execLog' = Append(Append(execLog, a), b) /\ Append(execLog, a) \in Seq(FireRows) /\ execLog' \in Seq(FireRows)
    BY <1>1, <1>3
  <1>5. Read(execLog') = new
    <2>1. Read(Append(execLog, a)) = mid
      BY <1>1, <1>3, ReadGoesOn DEF acc
    <2>2. Read(Append(Append(execLog, a), b)) = Grouped(Read(Append(execLog, a)), b)
      BY <1>3, <1>4, ReadGoesOn
    <2> QED BY <1>4, <2>1, <2>2, Zenon
  <1>6. mid \in Grouping /\ mid.fires = acc.fires /\ mid.pending = [acc.pending EXCEPT ![m] = [c2 |-> c2, edge |-> None]]
    BY <1>1, <1>2, EntryGrouped
  <1>7. acc.pending \in [Slugs -> Openings \cup {None}] /\ [c2 |-> c2, edge |-> None] # None
    <2>1. [c2 |-> c2, edge |-> None] \in Openings
      BY DEF Openings
    <2> QED BY <1>1, <2>1, FiresAssumption DEF Grouping, Openings
  <1>8. mid.pending[m] = [c2 |-> c2, edge |-> None] /\ mid.pending[b.market] # None
    BY <1>2, <1>6, <1>7
  <1> HIDE DEF mid, new
  <1>9. /\ new \in Grouping /\ new.fires = mid.fires
        /\ new.pending = [mid.pending EXCEPT ![m] = [c2 |-> mid.pending[m].c2, edge |-> c2]]
    <2>1. /\ new \in Grouping /\ new.fires = mid.fires
          /\ new.pending = [mid.pending EXCEPT ![b.market] = [c2 |-> mid.pending[b.market].c2, edge |-> b.edge]]
      BY <1>2, <1>6, <1>8, ApprovedGrouped DEF new
    <2> QED BY <1>2, <2>1, Zenon
  <1>10. new.fires = acc.fires /\ new.pending = [acc.pending EXCEPT ![m] = [c2 |-> c2, edge |-> c2]]
    BY <1>6, <1>7, <1>8, <1>9
  <1>11. [c2 |-> c2, edge |-> c2] # None /\ [c2 |-> c2] \in [c2 : Depths] /\ [c2 |-> c2].c2 = c2
    BY FiresAssumption
  <1>12. ASSUME NEW s \in Slugs, inflight'[s] # None
         PROVE  new.pending[s] # None /\ new.pending[s].c2 = inflight'[s].c2
    <2>1. CASE s = m
      BY <1>1, <1>7, <1>10, <1>11, <2>1
    <2>2. CASE s # m
      <3>1. inflight'[s] = inflight[s] /\ new.pending[s] = acc.pending[s]
        BY <1>1, <1>7, <1>10, <2>2
      <3>2. acc.pending[s] # None /\ acc.pending[s].c2 = inflight[s].c2
        BY <1>12, <3>1 DEF FireInv, acc
      <3> QED BY <3>1, <3>2
    <2> QED BY <2>1, <2>2
  <1>13. inflight' \in [Slugs -> [c2 : Depths] \cup {None}]
    BY <1>1, <1>11
  <1>14. Told(new.fires) = made'
    <2>1. Told(acc.fires) = made
      BY DEF FireInv, acc
    <2> QED BY <1>1, <1>10, <2>1, Zenon
  <1> QED BY <1>4, <1>5, <1>9, <1>12, <1>13, <1>14 DEF FireInv

\* One more fire is told.
LEMMA ToldGrows ==
  ASSUME NEW q \in Seq(FireTold), NEW x \in FireTold
  PROVE  Told(Append(q, x)) = Append(Told(q), [market |-> x.market, c2 |-> x.c2, result |-> x.result])
  <1> DEFINE w == Append(q, x)
             y == [market |-> x.market, c2 |-> x.c2, result |-> x.result]
             one(z) == [market |-> z.market, c2 |-> z.c2, result |-> z.result]
             N == Len(q)
  <1>1. N \in Nat /\ DOMAIN q = 1..N /\ DOMAIN w = 1..(N + 1) /\ w[N + 1] = x /\ \A i \in 1..N : w[i] = q[i]
    OBVIOUS
  <1>2. Told(q) = [i \in 1..N |-> one(q[i])] /\ Told(w) = [i \in 1..(N + 1) |-> one(w[i])]
    BY <1>1 DEF Told
  <1> HIDE DEF w, N
  <1>3. Told(q) \in Seq({one(q[i]) : i \in 1..N}) /\ Len(Told(q)) = N
    <2> DEFINE t == Told(q)
               T == {one(q[i]) : i \in 1..N}
    <2>1. t \in [1..N -> T]
      BY <1>2
    <2> HIDE DEF t, T
    <2>2. t \in Seq(T) /\ Len(t) = N
      BY <1>1, <2>1
    <2> QED BY <2>2 DEF t, T
  <1> DEFINE v == Append(Told(q), y)
  <1>4. DOMAIN v = 1..(N + 1) /\ v[N + 1] = y /\ (\A i \in 1..N : v[i] = Told(q)[i]) /\ v = [i \in 1..(N + 1) |-> v[i]]
    BY <1>1, <1>3
  <1> HIDE DEF v
  <1>5. ASSUME NEW i \in 1..(N + 1) PROVE v[i] = one(w[i])
    <2>1. CASE i = N + 1
      BY <1>1, <1>4, <2>1
    <2>2. CASE i \in 1..N
      BY <1>1, <1>2, <1>4, <2>2
    <2> QED BY <1>1, <2>1, <2>2
  <1>6. v = [i \in 1..(N + 1) |-> one(w[i])]
    BY <1>4, <1>5
  <1> QED BY <1>2, <1>6, Zenon DEF v, w

\* An outcome tells of the fire under way on its slug, as it was made.
LEMMA FireOutcomeKeeps ==
  ASSUME FireInv, NEW m \in Slugs, NEW o \in Outcomes, FireOutcome(m, o)
  PROVE  FireInv'
  <1> DEFINE a == [event |-> "book", phase |-> "recovery", market |-> m, c2 |-> 0]
             b == [event |-> "fire_outcome", market |-> m, result |-> o.result, detail |-> o.detail]
             acc == Read(execLog)
             new == Grouped(acc, b)
             mid == IF o.result = "recover" THEN Append(execLog, a) ELSE execLog
             x == [market |-> m, result |-> o.result, detail |-> o.detail, c2 |-> acc.pending[m].c2]
  <1>1. /\ inflight[m] # None /\ inflight' = [inflight EXCEPT ![m] = None]
        /\ made' = Append(made, [market |-> m, c2 |-> inflight[m].c2, result |-> o.result])
        /\ execLog \in Seq(FireRows) /\ inflight \in [Slugs -> [c2 : Depths] \cup {None}] /\ acc \in Grouping
        /\ acc.pending[m] # None /\ acc.pending[m].c2 = inflight[m].c2 /\ Told(acc.fires) = made
    BY DEF FireOutcome, FireInv
  <1>2. a \in RecoveryRows /\ b \in OutcomeRows /\ b.market = m /\ b.result = o.result /\ b.detail = o.detail
    BY DEF RecoveryRows, OutcomeRows, Results, Details
  <1>3. a \in FireRows /\ b \in FireRows
    BY <1>2 DEF FireRows
  <1>4. execLog' = Append(mid, b) /\ mid \in Seq(FireRows)
    <2>1. execLog' = execLog \o (IF o.result = "recover" THEN <<a>> ELSE <<>>) \o <<b>>
      BY DEF FireOutcome
    <2> HIDE DEF a, b
    <2>2. CASE o.result = "recover"
      <3>1. execLog' = execLog \o <<a>> \o <<b>> /\ mid = Append(execLog, a)
        BY <2>1, <2>2
      <3>2. Append(execLog, a) \in Seq(FireRows) /\ execLog \o <<a>> = Append(execLog, a)
        BY <1>1, <1>3
      <3>3. Append(execLog, a) \o <<b>> = Append(Append(execLog, a), b)
        BY <1>3, <3>2
      <3> HIDE DEF mid
      <3> QED BY <3>1, <3>2, <3>3, Zenon
    <2>3. CASE o.result # "recover"
      BY <1>1, <1>3, <2>1, <2>3
    <2> QED BY <2>2, <2>3
  <1> HIDE DEF a, b
  <1>5. Read(mid) = acc
    <2>1. CASE o.result = "recover"
      <3>1. Read(Append(execLog, a)) = Grouped(acc, a)
        BY <1>1, <1>3, ReadGoesOn
      <3>2. Grouped(acc, a) = acc
        BY <1>2, RecoveryGrouped
      <3> HIDE DEF acc
      <3>3. mid = Append(execLog, a)
        BY <2>1
      <3> QED BY <3>1, <3>2, <3>3, Zenon
    <2>2. CASE o.result # "recover"
      BY <2>2
    <2> QED BY <2>1, <2>2
  <1> HIDE DEF mid, acc
  <1>6. Read(execLog') = new /\ execLog' \in Seq(FireRows)
    <2>1. Read(Append(mid, b)) = Grouped(Read(mid), b)
      BY <1>3, <1>4, ReadGoesOn
    <2>2. Append(mid, b) \in Seq(FireRows)
      BY <1>3, <1>4
    <2> QED BY <1>4, <1>5, <2>1, <2>2, Zenon
  <1>7. acc.pending[b.market] # None
    BY <1>1, <1>2
  <1> HIDE DEF new
  <1>8. /\ new \in Grouping /\ new.pending = [acc.pending EXCEPT ![m] = None] /\ new.fires = Append(acc.fires, x)
    <2>1. /\ new \in Grouping
          /\ new.pending = [acc.pending EXCEPT ![b.market] = None]
          /\ new.fires = Append(acc.fires, [market |-> b.market, result |-> b.result, detail |-> b.detail,
                                           c2 |-> acc.pending[b.market].c2])
      BY <1>1, <1>2, <1>7, OutcomeGrouped DEF new
    <2> QED BY <1>2, <2>1, Zenon
  <1>9. /\ x \in FireTold /\ acc.fires \in Seq(FireTold) /\ acc.pending \in [Slugs -> Openings \cup {None}]
        /\ x.market = m /\ x.c2 = inflight[m].c2 /\ x.result = o.result
    <2>1. inflight[m] \in [c2 : Depths]
      BY <1>1
    <2>2. inflight[m].c2 \in Depths
      BY <2>1
    <2>3. o.result \in Results /\ o.detail \in Details
      BY DEF Results, Details
    <2> QED BY <1>1, <2>2, <2>3 DEF FireTold, Grouping
  <1> HIDE DEF x
  <1>10. Told(new.fires) = made'
    <2>1. Told(Append(acc.fires, x)) = Append(Told(acc.fires), [market |-> x.market, c2 |-> x.c2, result |-> x.result])
      BY <1>9, ToldGrows
    <2> QED BY <1>1, <1>8, <1>9, <2>1, Zenon
  <1>11. ASSUME NEW s \in Slugs, inflight'[s] # None
         PROVE  new.pending[s] # None /\ new.pending[s].c2 = inflight'[s].c2
    <2>1. s # m /\ inflight'[s] = inflight[s]
      BY <1>1, <1>11
    <2>2. new.pending[s] = acc.pending[s]
      BY <1>8, <1>9, <2>1
    <2>3. acc.pending[s] # None /\ acc.pending[s].c2 = inflight[s].c2
      BY <1>11, <2>1 DEF FireInv, acc
    <2> QED BY <2>1, <2>2, <2>3
  <1>12. inflight' \in [Slugs -> [c2 : Depths] \cup {None}]
    BY <1>1
  <1> QED BY <1>6, <1>8, <1>10, <1>11, <1>12 DEF FireInv

\* The log of the fires says what was made, in every reachable state.
LEMMA FiresAlwaysTold == GameSpec => []FireInv
  <1>1. GameInit => FireInv
    <2> SUFFICES ASSUME FiresInit PROVE FireInv
      BY DEF GameInit
    <2>1. execLog = <<>> /\ inflight = [m \in Slugs |-> None] /\ made = <<>>
      BY DEF FiresInit
    <2>2. Read(execLog) = Nothing
      BY <2>1, ReadOfNothing, Zenon
    <2>3. Told(Nothing.fires) = <<>>
      BY DEF Told, Nothing
    <2>4. execLog \in Seq(FireRows) /\ inflight \in [Slugs -> [c2 : Depths] \cup {None}] /\ \A m \in Slugs : inflight[m] = None
      BY <2>1
    <2> QED BY <2>1, <2>2, <2>3, <2>4, NothingTyped DEF FireInv
  <1>2. FireInv /\ [GameNext]_<<bookVars, fireVars>> => FireInv'
    <2> SUFFICES ASSUME FireInv, [GameNext]_<<bookVars, fireVars>> PROVE FireInv'
      OBVIOUS
    <2>1. CASE UNCHANGED fireVars
      BY <2>1 DEF FireInv, fireVars, Told
    <2>2. ASSUME NEW m \in Slugs, NEW c2 \in Depths, Fire(m, c2) PROVE FireInv'
      BY <2>2, FireKeeps
    <2>3. ASSUME NEW m \in Slugs, NEW o \in Outcomes, FireOutcome(m, o) PROVE FireInv'
      BY <2>3, FireOutcomeKeeps
    <2>4. CASE BotDies
      <3>1. inflight' = [m \in Slugs |-> None] /\ UNCHANGED <<execLog, made>>
        BY <2>4 DEF BotDies
      <3>2. inflight' \in [Slugs -> [c2 : Depths] \cup {None}] /\ \A m \in Slugs : inflight'[m] = None
        BY <3>1
      <3> QED BY <3>1, <3>2 DEF FireInv
    <2> QED BY <2>1, <2>2, <2>3, <2>4 DEF GameNext
  <1> QED BY <1>1, <1>2, PTL DEF GameSpec

\* What the depth study reads off the execution log is what happened: each outcome is paired with the book of its own fire,
\* the ranks count pairs, the strata hide the confound, and the gate is never worse than none.  (depth_at_fire.py)
THEOREM FiresAlwaysTrue == GameSpec => []FiresAreTrue
  <1>1. FireInv => FiresAreTrue
    <2> SUFFICES ASSUME FireInv PROVE FiresAreTrue
      OBVIOUS
    <2> DEFINE fires == GroupFires
               deep == WithDepth(fires)
               D == {i \in DOMAIN fires : fires[i].c2 # None}
    <2>1. FiresAreTheirOwn(fires)
      BY DEF FireInv, GroupFires, Told, FiresAreTheirOwn
    <2>2. fires \in Seq(FireTold)
      BY DEF FireInv, GroupFires, Grouping
    <2>3. IsFiniteSet(DOMAIN fires) /\ \A i \in DOMAIN fires : fires[i].c2 \in Depths \cup {None}
      <3> HIDE DEF fires
      <3>1. Len(fires) \in Nat /\ DOMAIN fires = 1..Len(fires) /\ \A i \in 1..Len(fires) : fires[i] \in FireTold
        BY <2>2, LenProperties, ElementOfSeq
      <3>2. IsFiniteSet(1..Len(fires))
        BY <3>1, FS_Interval
      <3>3. \A i \in 1..Len(fires) : fires[i].c2 \in Depths \cup {None}
        BY <3>1 DEF FireTold
      <3> QED BY <3>1, <3>2, <3>3, Zenon
    <2> HIDE DEF fires
    <2>4. D \in SUBSET DOMAIN fires /\ IsFiniteSet(D)
      BY <2>3, FS_Subset
    <2>5. DOMAIN deep = D /\ \A i \in D : deep[i] = fires[i]
      BY DEF WithDepth, Restrict
    <2>6. \A i \in D : fires[i].c2 \in Int /\ fires[i].c2 # None
      <3>1. \A x \in Depths : x \in Int
        BY FiresAssumption
      <3> QED BY <2>3, <3>1
    <2> HIDE DEF deep, D
    <2>7. IsFiniteSet(DOMAIN deep)
      BY <2>4, <2>5, Zenon
    <2>8. Measured(deep, DOMAIN deep) /\ \A i \in DOMAIN deep : deep[i].c2 # None
      BY <2>5, <2>6, <2>7 DEF Measured
    <2>9. RanksCountPairs(deep) /\ GateNeverWorse(deep)
      BY <2>8, RanksAlwaysCount, GateIsNeverWorse
    <2>10. StrataHideTheConfound(deep)
      BY <2>8, TheConfoundIsHidden DEF StrataHideTheConfound, Kind
    <2> QED BY <2>1, <2>9, <2>10 DEF FiresAreTrue, fires, deep
  <1> QED BY <1>1, FiresAlwaysTold, PTL

(***************************************************************************)
(* Ladders bought unit by unit                                             *)
(***************************************************************************)
Rung == [px : Int, qty : Nat]

\* What a level is.
LEMMA RungsAre ==
  ASSUME NEW l \in Seq(Rung)
  PROVE  Len(l) \in Nat /\ \A k \in 1..Len(l) : k \in DOMAIN l /\ l[k].px \in Int /\ l[k].qty \in Nat
  <1>1. Len(l) \in Nat /\ \A k \in 1..Len(l) : k \in DOMAIN l /\ l[k] \in Rung
    OBVIOUS
  <1>2. \A x \in Rung : x.px \in Int /\ x.qty \in Nat
    BY DEF Rung
  <1> QED BY <1>1, <1>2

\* The recursion of Units, given what it returns for the levels before.
UnitStep(f, l, n) == IF n = 0 THEN 0 ELSE f[n - 1] + l[n].qty
Counts(f, l, N) == f = [n \in 0..N |-> UnitStep(f, l, n)]

\* Units is the solution of its recursion, if it has one.
LEMMA UnitsAre == \A l : Units(l) = CHOOSE f : Counts(f, l, Len(l))
  BY DEF Units, Counts, UnitStep

\* The recursion has a solution up to any level.
LEMMA UnitsExist == ASSUME NEW l, NEW N \in Nat PROVE \E f : Counts(f, l, N)
  <1> DEFINE G == {n \in 0..N : \E f : Counts(f, l, n)}
  <1>1. 0 \in G
    <2> DEFINE f == [n \in 0..0 |-> 0]
    <2>1. \A n \in 0..0 : UnitStep(f, l, n) = 0
      BY DEF UnitStep
    <2>2. f = [n \in 0..0 |-> UnitStep(f, l, n)]
      BY <2>1
    <2>3. Counts(f, l, 0)
      BY <2>2 DEF Counts
    <2> QED BY <2>3
  <1>2. ASSUME NEW n \in 0..(N - 1), n \in G PROVE n + 1 \in G
    <2>1. PICK f : Counts(f, l, n)
      BY <1>2
    <2> DEFINE h == [m \in 0..(n + 1) |-> UnitStep(f, l, m)]
    <2>2. \A m \in 0..n : h[m] = f[m]
      BY <2>1 DEF Counts
    <2>3. ASSUME NEW m \in 0..(n + 1) PROVE UnitStep(h, l, m) = UnitStep(f, l, m)
      <3>1. m = 0 \/ m - 1 \in 0..n
        OBVIOUS
      <3> HIDE DEF h
      <3> QED BY <2>2, <3>1 DEF UnitStep
    <2>4. h = [m \in 0..(n + 1) |-> UnitStep(h, l, m)]
      BY <2>3
    <2>5. Counts(h, l, n + 1)
      BY <2>4 DEF Counts
    <2>6. n + 1 \in 0..N
      OBVIOUS
    <2> QED BY <2>5, <2>6
  <1>3. N \in G
    <2> HIDE DEF G
    <2> QED BY <1>1, <1>2, Climb
  <1> QED BY <1>3

\* Each level adds its size.
LEMMA UnitsAdd ==
  ASSUME NEW l \in Seq(Rung)
  PROVE  /\ Units(l)[0] = 0
         /\ \A i \in 1..Len(l) : Units(l)[i] = Units(l)[i - 1] + l[i].qty
         /\ \A i \in 0..Len(l) : Units(l)[i] \in Nat
  <1> DEFINE U == Units(l)
             N == Len(l)
             G == {n \in 0..N : U[n] \in Nat}
  <1>1. N \in Nat /\ \A i \in 1..N : l[i].qty \in Nat
    BY RungsAre
  <1>2. Counts(U, l, N)
    <2>1. \E f : Counts(f, l, N)
      BY <1>1, UnitsExist
    <2> QED BY <2>1, UnitsAre
  <1> HIDE DEF U, N
  <1>3. \A n \in 0..N : U[n] = UnitStep(U, l, n)
    BY <1>2 DEF Counts
  <1>4. U[0] = 0
    BY <1>1, <1>3 DEF UnitStep
  <1>5. \A i \in 1..N : U[i] = U[i - 1] + l[i].qty
    BY <1>1, <1>3 DEF UnitStep
  <1>6. 0 \in G
    BY <1>1, <1>4
  <1>7. \A n \in 0..(N - 1) : n \in G => n + 1 \in G
    <2> SUFFICES ASSUME NEW n \in 0..(N - 1), n \in G PROVE n + 1 \in G
      OBVIOUS
    <2>1. n + 1 \in 1..N /\ (n + 1) - 1 = n /\ U[n] \in Nat
      BY <1>1
    <2>2. U[n + 1] = U[n] + l[n + 1].qty /\ l[n + 1].qty \in Nat
      BY <1>1, <1>5, <2>1
    <2> QED BY <2>1, <2>2
  <1>8. \A n \in 0..N : n \in G
    <2> HIDE DEF G
    <2> QED BY <1>1, <1>6, <1>7, Climb
  <1> QED BY <1>4, <1>5, <1>8 DEF U, N

\* The further down a ladder, the more units.
LEMMA UnitsGrow ==
  ASSUME NEW l \in Seq(Rung), NEW i \in 0..Len(l), NEW j \in 0..Len(l), i <= j
  PROVE  Units(l)[i] <= Units(l)[j]
  <1> DEFINE U == Units(l)
             N == Len(l)
             G == {n \in 0..N : i <= n => U[i] <= U[n]}
  <1>1. N \in Nat /\ \A k \in 1..N : l[k].qty \in Nat
    BY RungsAre
  <1>2. /\ \A k \in 0..N : U[k] \in Nat
        /\ \A k \in 1..N : U[k] = U[k - 1] + l[k].qty
    BY UnitsAdd
  <1> HIDE DEF U, N
  <1>3. i \in 0..N /\ j \in 0..N
    BY DEF N
  <1>4. 0 \in G
    BY <1>1, <1>2, <1>3
  <1>5. \A n \in 0..(N - 1) : n \in G => n + 1 \in G
    <2> SUFFICES ASSUME NEW n \in 0..(N - 1), i <= n => U[i] <= U[n], i <= n + 1 PROVE U[i] <= U[n + 1]
      <3>1. \A n \in 0..(N - 1) : n + 1 \in 0..N
        BY <1>1
      <3> QED BY <3>1
    <2>1. CASE i = n + 1
      BY <1>2, <1>3, <2>1
    <2>2. CASE i <= n
      <3>1. n + 1 \in 1..N /\ (n + 1) - 1 = n /\ U[i] <= U[n]
        BY <1>1, <2>2
      <3>2. U[n + 1] = U[n] + l[n + 1].qty /\ l[n + 1].qty \in Nat /\ U[n] \in Nat /\ U[i] \in Nat
        BY <1>1, <1>2, <1>3, <3>1
      <3> QED BY <3>1, <3>2
    <2> QED BY <1>1, <1>3, <2>1, <2>2
  <1>6. \A n \in 0..N : n \in G
    <2> HIDE DEF G
    <2> QED BY <1>1, <1>4, <1>5, Climb
  <1> QED BY <1>3, <1>6 DEF U

\* Each unit is of a level.
LEMMA UnitHasALevel ==
  ASSUME NEW l \in Seq(Rung), NEW n \in 1..Units(l)[Len(l)]
  PROVE  \E i \in 1..Len(l) : Units(l)[i - 1] < n /\ n <= Units(l)[i]
  <1> DEFINE U == Units(l)
             N == Len(l)
             G == {k \in 0..N : n <= U[k] => \E i \in 1..k : U[i - 1] < n /\ n <= U[i]}
  <1>1. N \in Nat /\ (\A k \in 0..N : U[k] \in Nat) /\ U[0] = 0
    BY UnitsAdd
  <1>2. n \in 1..U[N] /\ n \in Int
    BY <1>1
  <1> HIDE DEF U, N
  <1>3. 0 \in G
    BY <1>1, <1>2
  <1>4. \A k \in 0..(N - 1) : k \in G => k + 1 \in G
    <2> SUFFICES ASSUME NEW k \in 0..(N - 1), k \in G, n <= U[k + 1]
                 PROVE  \E i \in 1..(k + 1) : U[i - 1] < n /\ n <= U[i]
      BY <1>1
    <2>1. CASE n <= U[k]
      <3>1. PICK i \in 1..k : U[i - 1] < n /\ n <= U[i]
        BY <2>1
      <3> QED BY <1>1, <3>1
    <2>2. CASE U[k] < n
      <3>1. k + 1 \in 1..(k + 1) /\ (k + 1) - 1 = k
        BY <1>1
      <3> QED BY <2>2, <3>1
    <2>3. U[k] \in Nat
      BY <1>1
    <2> QED BY <1>2, <2>1, <2>2, <2>3
  <1>5. \A k \in 0..N : k \in G
    <2> HIDE DEF G
    <2> QED BY <1>1, <1>3, <1>4, Climb
  <1>6. N \in G
    <2> HIDE DEF G
    <2> QED BY <1>1, <1>5
  <1> QED BY <1>1, <1>2, <1>6 DEF U, N

\* A unit costs what its level says.
LEMMA UnitCosts ==
  ASSUME NEW l \in Seq(Rung), NEW i \in 1..Len(l), NEW n \in Nat, Units(l)[i - 1] < n, n <= Units(l)[i]
  PROVE  UnitPrice(l, n) = l[i].px
  <1> DEFINE U == Units(l)
             N == Len(l)
             j == CHOOSE k \in 1..N : U[k - 1] < n /\ n <= U[k]
  <1>1. N \in Nat /\ (\A k \in 0..N : U[k] \in Nat) /\ \A p, q \in 0..N : p <= q => U[p] <= U[q]
    BY UnitsAdd, UnitsGrow
  <1>2. j \in 1..N /\ U[j - 1] < n /\ n <= U[j]
    OBVIOUS
  <1>3. UnitPrice(l, n) = l[j].px
    BY DEF UnitPrice
  <1>4. i \in 1..N /\ U[i - 1] < n /\ n <= U[i]
    OBVIOUS
  <1> HIDE DEF U, N, j
  <1>5. j = i
    <2>1. CASE j < i
      <3>1. j \in 0..N /\ i - 1 \in 0..N /\ j <= i - 1
        BY <1>1, <1>2, <1>4, <2>1
      <3>2. U[j] <= U[i - 1] /\ U[j] \in Nat /\ U[i - 1] \in Nat
        BY <1>1, <3>1
      <3> QED BY <1>2, <1>4, <3>2
    <2>2. CASE i < j
      <3>1. i \in 0..N /\ j - 1 \in 0..N /\ i <= j - 1
        BY <1>1, <1>2, <1>4, <2>2
      <3>2. U[i] <= U[j - 1] /\ U[i] \in Nat /\ U[j - 1] \in Nat
        BY <1>1, <3>1
      <3> QED BY <1>2, <1>4, <3>2
    <2> QED BY <1>1, <1>2, <1>4, <2>1, <2>2
  <1> QED BY <1>3, <1>5

\* Down a ladder that ascends, no unit is cheaper than one before.
LEMMA UnitsAscend ==
  ASSUME NEW l \in Seq(Rung), Ascends(l), NEW m \in 1..Units(l)[Len(l)], NEW n \in 1..Units(l)[Len(l)], m <= n
  PROVE  UnitPrice(l, m) \in Int /\ UnitPrice(l, n) \in Int /\ UnitPrice(l, m) <= UnitPrice(l, n)
  <1> DEFINE U == Units(l)
             N == Len(l)
  <1>1. N \in Nat /\ (\A k \in 0..N : U[k] \in Nat) /\ \A p, q \in 0..N : p <= q => U[p] <= U[q]
    BY UnitsAdd, UnitsGrow
  <1>2. m \in Nat /\ n \in Nat
    BY <1>1
  <1>3. PICK i \in 1..N : U[i - 1] < m /\ m <= U[i]
    BY UnitHasALevel
  <1>4. PICK j \in 1..N : U[j - 1] < n /\ n <= U[j]
    BY UnitHasALevel
  <1>5. UnitPrice(l, m) = l[i].px /\ UnitPrice(l, n) = l[j].px
    BY <1>2, <1>3, <1>4, UnitCosts
  <1>6. l[i].px \in Int /\ l[j].px \in Int
    BY RungsAre
  <1>7. i \in DOMAIN l /\ j \in DOMAIN l
    OBVIOUS
  <1> HIDE DEF U, N
  <1>8. i <= j
    <2> SUFFICES ASSUME j < i PROVE FALSE
      BY <1>1
    <2>1. j \in 0..N /\ i - 1 \in 0..N /\ j <= i - 1
      BY <1>1
    <2>2. U[j] <= U[i - 1] /\ U[j] \in Nat /\ U[i - 1] \in Nat
      BY <1>1, <2>1
    <2> QED BY <1>2, <1>3, <1>4, <2>2
  <1>9. l[i].px <= l[j].px
    <2>1. CASE i = j
      BY <1>6, <2>1
    <2>2. CASE i < j
      BY <1>7, <2>2 DEF Ascends
    <2> QED BY <1>1, <1>8, <2>1, <2>2
  <1> QED BY <1>5, <1>6, <1>9

(***************************************************************************)
(* The walk over two ladders                                               *)
(***************************************************************************)
AtFirst(a, b) ==
  [i |-> 1, j |-> 1, ra |-> SizeAt(a, 1), rb |-> SizeAt(b, 1), out |-> [t \in Thresholds |-> 0]]

\* The recursion of depth_curve, given what it returns for the turns before.
Turn(f, a, b, n) == IF n = 0 THEN AtFirst(a, b) ELSE Walked(a, b, f[n - 1])
Turns(f, a, b, N) == f = [n \in 0..N |-> Turn(f, a, b, n)]

\* The depth is what the last turn of a solution found, if there is one.
LEMMA DepthIs == \A a, b : DepthCurve(a, b) = (CHOOSE f : Turns(f, a, b, Len(a) + Len(b)))[Len(a) + Len(b)].out
  BY DEF DepthCurve, Turns, Turn, AtFirst

\* The recursion has a solution up to any number of turns.
LEMMA TurnsExist == ASSUME NEW a, NEW b, NEW N \in Nat PROVE \E f : Turns(f, a, b, N)
  <1> DEFINE G == {n \in 0..N : \E f : Turns(f, a, b, n)}
  <1>1. 0 \in G
    <2> DEFINE f == [n \in 0..0 |-> AtFirst(a, b)]
    <2>1. \A n \in 0..0 : Turn(f, a, b, n) = AtFirst(a, b)
      BY DEF Turn
    <2>2. f = [n \in 0..0 |-> Turn(f, a, b, n)]
      BY <2>1
    <2>3. Turns(f, a, b, 0)
      BY <2>2 DEF Turns
    <2> QED BY <2>3
  <1>2. ASSUME NEW n \in 0..(N - 1), n \in G PROVE n + 1 \in G
    <2>1. PICK f : Turns(f, a, b, n)
      BY <1>2
    <2> DEFINE h == [m \in 0..(n + 1) |-> Turn(f, a, b, m)]
    <2>2. \A m \in 0..n : h[m] = f[m]
      BY <2>1 DEF Turns
    <2>3. ASSUME NEW m \in 0..(n + 1) PROVE Turn(h, a, b, m) = Turn(f, a, b, m)
      <3>1. m = 0 \/ m - 1 \in 0..n
        OBVIOUS
      <3> HIDE DEF h
      <3> QED BY <2>2, <3>1 DEF Turn
    <2>4. h = [m \in 0..(n + 1) |-> Turn(h, a, b, m)]
      BY <2>3
    <2>5. Turns(h, a, b, n + 1)
      BY <2>4 DEF Turns
    <2>6. n + 1 \in 0..N
      OBVIOUS
    <2> QED BY <2>5, <2>6
  <1>3. N \in G
    <2> HIDE DEF G
    <2> QED BY <1>1, <1>2, Climb
  <1> QED BY <1>3

\* After c units of a ladder the walk stands at level i, of which r are left.
Reached(l, i, r, c) ==
  /\ i \in 1..(Len(l) + 1) /\ r \in Nat
  /\ Units(l)[i - 1] <= c /\ c <= Units(l)[Len(l)]
  /\ i <= Len(l) => c + r = Units(l)[i] /\ (Whole(l) => r > 0)

\* The first c pairs of units that pay a threshold.
Paying(a, b, t, c) == {m \in 1..c : Pays(UnitPrice(a, m), UnitPrice(b, m), t)}

\* What pays a threshold pays it at better prices, and a lower threshold.
LEMMA BetterPays ==
  ASSUME NEW x \in Int, NEW y \in Int, NEW u \in Int, NEW v \in Int, NEW t \in Int, x <= u, y <= v, Pays(u, v, t)
  PROVE  Pays(x, y, t) /\ Pays(u, v, t - 1)
  <1>1. 100 - x - y > 100 - u - v \/ (x = u /\ y = v)
    OBVIOUS
  <1>2. 100 - u - v >= t
    BY DEF Pays
  <1>3. Pays(x, y, t)
    BY <1>1, <1>2 DEF Pays
  <1> QED BY <1>2, <1>3 DEF Pays

\* What was found after n turns is what the units so far pay; and a turn uses up a level, or is the last.
WalkTrue(a, b, w, n) ==
  /\ \E c \in Nat : /\ Reached(a, w.i, w.ra, c) /\ Reached(b, w.j, w.rb, c)
                    /\ \A t \in Thresholds : w.out[t] = Cardinality(Paying(a, b, t, c))
  /\ Walked(a, b, w) = w \/ w.i + w.j >= n + 2

\* The first level of a ladder.
LEMMA ReachedAtFirst ==
  ASSUME NEW l \in Seq(Rung)
  PROVE  Reached(l, 1, SizeAt(l, 1), 0)
  <1> DEFINE U == Units(l)
             N == Len(l)
  <1>1. /\ N \in Nat /\ (\A k \in 0..N : U[k] \in Nat) /\ U[0] = 0
        /\ \A k \in 1..N : U[k] = U[k - 1] + l[k].qty
    BY UnitsAdd
  <1>2. \A k \in 1..N : l[k].qty \in Nat /\ k \in DOMAIN l
    BY RungsAre
  <1>3. SizeAt(l, 1) \in Nat /\ (1 <= N => SizeAt(l, 1) = l[1].qty)
    BY <1>1, <1>2 DEF SizeAt
  <1> HIDE DEF U, N
  <1>4. 1 <= N => 0 + SizeAt(l, 1) = U[1] /\ (Whole(l) => SizeAt(l, 1) > 0)
    <2> SUFFICES ASSUME 1 <= N PROVE 0 + SizeAt(l, 1) = U[1] /\ (Whole(l) => SizeAt(l, 1) > 0)
      OBVIOUS
    <2>1. 1 \in 1..N /\ 1 - 1 = 0
      BY <1>1
    <2>2. U[1] = U[0] + l[1].qty /\ l[1].qty \in Nat /\ 1 \in DOMAIN l
      BY <1>1, <1>2, <2>1
    <2> QED BY <1>1, <1>3, <2>2 DEF Whole
  <1> QED BY <1>1, <1>3, <1>4 DEF Reached, U, N

\* s more units of the level.
LEMMA ReachedGoesOn ==
  ASSUME NEW l \in Seq(Rung), NEW i, NEW r, NEW c \in Nat, Reached(l, i, r, c), i <= Len(l), NEW s \in Nat, s <= r
  PROVE  /\ Reached(l, IF r = s THEN i + 1 ELSE i, IF r = s THEN SizeAt(l, i + 1) ELSE r - s, c + s)
         /\ \A m \in (c + 1)..(c + s) : UnitPrice(l, m) = l[i].px
  <1> DEFINE U == Units(l)
             N == Len(l)
  <1>1. /\ N \in Nat /\ (\A k \in 0..N : U[k] \in Nat)
        /\ \A k \in 1..N : U[k] = U[k - 1] + l[k].qty
    BY UnitsAdd
  <1>2. \A k \in 1..N : l[k].qty \in Nat /\ k \in DOMAIN l
    BY RungsAre
  <1>3. i \in 1..N /\ r \in Nat /\ U[i - 1] <= c /\ c <= U[N] /\ c + r = U[i] /\ (Whole(l) => r > 0)
    BY <1>1 DEF Reached
  <1>4. U[i] <= U[N] /\ U[i] \in Nat /\ U[N] \in Nat /\ U[i - 1] \in Nat
    <2>1. i \in 0..N /\ N \in 0..N /\ i <= N /\ i - 1 \in 0..N
      BY <1>1, <1>3
    <2> HIDE DEF U
    <2> QED BY <1>1, <2>1, UnitsGrow DEF U, N
  <1>5. \A m \in (c + 1)..(c + s) : UnitPrice(l, m) = l[i].px
    <2> SUFFICES ASSUME NEW m \in (c + 1)..(c + s) PROVE UnitPrice(l, m) = l[i].px
      OBVIOUS
    <2>1. m \in Nat /\ U[i - 1] < m /\ m <= U[i]
      BY <1>3, <1>4
    <2> QED BY <1>3, <2>1, UnitCosts
  <1> HIDE DEF U, N
  <1>6. CASE r = s
    <2>1. SizeAt(l, i + 1) \in Nat
      BY <1>1, <1>2, <1>3 DEF SizeAt, N
    <2>2. ASSUME i + 1 <= N
          PROVE  (c + s) + SizeAt(l, i + 1) = U[i + 1] /\ (Whole(l) => SizeAt(l, i + 1) > 0)
      <3>1. i + 1 \in 1..N /\ (i + 1) - 1 = i
        BY <1>1, <1>3, <2>2
      <3>2. U[i + 1] = U[i] + l[i + 1].qty /\ SizeAt(l, i + 1) = l[i + 1].qty /\ l[i + 1].qty \in Nat
        BY <1>1, <1>2, <3>1 DEF SizeAt, N
      <3>3. Whole(l) => l[i + 1].qty > 0
        BY <1>2, <3>1 DEF Whole
      <3> QED BY <1>3, <1>4, <1>6, <3>2, <3>3
    <2>3. i + 1 \in 1..(N + 1) /\ (i + 1) - 1 = i /\ U[i] <= c + s /\ c + s <= U[N]
      BY <1>1, <1>3, <1>4, <1>6
    <2>4. Reached(l, i + 1, SizeAt(l, i + 1), c + s)
      BY <2>1, <2>2, <2>3 DEF Reached, U, N
    <2> QED BY <1>5, <1>6, <2>4
  <1>7. CASE r # s
    <2>1. /\ i \in 1..(N + 1) /\ r - s \in Nat /\ U[i - 1] <= c + s /\ c + s <= U[N]
          /\ (c + s) + (r - s) = U[i] /\ r - s > 0
      BY <1>1, <1>3, <1>4, <1>7
    <2>2. Reached(l, i, r - s, c + s)
      BY <2>1 DEF Reached, U, N
    <2> QED BY <1>5, <1>7, <2>2
  <1> QED BY <1>6, <1>7

\* The s pairs after c all cost x and y.
AllCost(a, b, c, s, x, y) == \A m \in (c + 1)..(c + s) : UnitPrice(a, m) = x /\ UnitPrice(b, m) = y

\* They pay a threshold all or none.
LEMMA PayingGrows ==
  ASSUME NEW a, NEW b, NEW t \in Int, NEW c \in Nat, NEW s \in Nat, NEW x, NEW y,
         AllCost(a, b, c, s, x, y)
  PROVE  /\ Cardinality(Paying(a, b, t, c)) \in Nat
         /\ Pays(x, y, t) => Cardinality(Paying(a, b, t, c + s)) = Cardinality(Paying(a, b, t, c)) + s
         /\ ~ Pays(x, y, t) => Cardinality(Paying(a, b, t, c + s)) = Cardinality(Paying(a, b, t, c))
  <1> DEFINE new == (c + 1)..(c + s)
             old == Paying(a, b, t, c)
  <1>1. old \in SUBSET (1..c) /\ IsFiniteSet(1..c)
    BY FS_Interval DEF Paying
  <1>2. IsFiniteSet(old) /\ Cardinality(old) \in Nat
    <2> HIDE DEF old
    <2> QED BY <1>1, FS_Subset, FS_CardinalityType
  <1>3. IsFiniteSet(new) /\ Cardinality(new) = s
    <2>1. c + 1 \in Int /\ c + s \in Int
      OBVIOUS
    <2>2. IsFiniteSet(new) /\ Cardinality(new) = IF c + 1 > c + s THEN 0 ELSE (c + s) - (c + 1) + 1
      BY <2>1, FS_Interval
    <2> HIDE DEF new
    <2> QED BY <2>2
  <1>4. old \cap new = {}
    BY <1>1
  <1>5. CASE Pays(x, y, t)
    <2>1. Paying(a, b, t, c + s) = old \cup new
      BY <1>5 DEF Paying, AllCost
    <2> HIDE DEF old, new
    <2>2. Cardinality(old \cup new) = Cardinality(old) + Cardinality(new)
      BY <1>2, <1>3, <1>4, TwoKinds
    <2>3. Cardinality(Paying(a, b, t, c + s)) = Cardinality(old \cup new)
      BY <2>1, Zenon
    <2> QED BY <1>2, <1>3, <1>5, <2>2, <2>3 DEF old
  <1>6. CASE ~ Pays(x, y, t)
    <2>1. Paying(a, b, t, c + s) = old
      BY <1>6 DEF Paying, AllCost
    <2> QED BY <1>2, <1>6, <2>1
  <1> QED BY <1>5, <1>6

\* What one turn makes of it.
LEMMA WalkGoesOn ==
  ASSUME NEW a \in Seq(Rung), NEW b \in Seq(Rung), NEW w, NEW n \in Nat, WalkTrue(a, b, w, n)
  PROVE  WalkTrue(a, b, Walked(a, b, w), n + 1)
  <1> DEFINE x == a[w.i].px
             y == b[w.j].px
             step == IF w.ra < w.rb THEN w.ra ELSE w.rb
             v == Walked(a, b, w)
  <1>1. PICK c \in Nat : /\ Reached(a, w.i, w.ra, c) /\ Reached(b, w.j, w.rb, c)
                         /\ \A t \in Thresholds : w.out[t] = Cardinality(Paying(a, b, t, c))
    BY DEF WalkTrue
  <1>2. CASE v = w
    BY <1>1, <1>2 DEF WalkTrue
  <1>3. CASE v # w
    <2>1. w.i <= Len(a) /\ w.j <= Len(b)
      BY <1>1, <1>3, RungsAre DEF Walked, Reached
    <2>2. /\ ~ (~ Pays(x, y, 0) \/ step = 0)
          /\ v = [i  |-> IF w.ra = step THEN w.i + 1 ELSE w.i,
                  j  |-> IF w.rb = step THEN w.j + 1 ELSE w.j,
                  ra |-> IF w.ra = step THEN SizeAt(a, w.i + 1) ELSE w.ra - step,
                  rb |-> IF w.rb = step THEN SizeAt(b, w.j + 1) ELSE w.rb - step,
                  out |-> [t \in Thresholds |-> IF Pays(x, y, t) THEN w.out[t] + step ELSE w.out[t]]]
      BY <1>3 DEF Walked
    <2> HIDE DEF v
    <2>3. w.ra \in Nat /\ w.rb \in Nat /\ w.i \in 1..Len(a) /\ w.j \in 1..Len(b) /\ Len(a) \in Nat /\ Len(b) \in Nat
      BY <1>1, <2>1, RungsAre DEF Reached
    <2>4. a[w.i].px \in Int /\ b[w.j].px \in Int
      BY <2>3, RungsAre
    <2>5. step \in Nat /\ step <= w.ra /\ step <= w.rb /\ (w.ra = step \/ w.rb = step)
      BY <2>3
    <2>7. /\ Reached(a, v.i, v.ra, c + step)
          /\ \A m \in (c + 1)..(c + step) : UnitPrice(a, m) = a[w.i].px
      <3>1. v.i = (IF w.ra = step THEN w.i + 1 ELSE w.i) /\ v.ra = IF w.ra = step THEN SizeAt(a, w.i + 1) ELSE w.ra - step
        BY <2>2
      <3> HIDE DEF step
      <3> QED BY <1>1, <2>1, <2>5, <3>1, ReachedGoesOn
    <2>8. /\ Reached(b, v.j, v.rb, c + step)
          /\ \A m \in (c + 1)..(c + step) : UnitPrice(b, m) = b[w.j].px
      <3>1. v.j = (IF w.rb = step THEN w.j + 1 ELSE w.j) /\ v.rb = IF w.rb = step THEN SizeAt(b, w.j + 1) ELSE w.rb - step
        BY <2>2
      <3> HIDE DEF step
      <3> QED BY <1>1, <2>1, <2>5, <3>1, ReachedGoesOn
    <2>9. AllCost(a, b, c, step, x, y)
      BY <2>7, <2>8 DEF AllCost
    <2>10. ASSUME NEW t \in Thresholds PROVE v.out[t] = Cardinality(Paying(a, b, t, c + step))
      <3>1. v.out[t] = (IF Pays(x, y, t) THEN w.out[t] + step ELSE w.out[t]) /\ w.out[t] = Cardinality(Paying(a, b, t, c))
        BY <1>1, <2>2
      <3>2. t \in Int
        BY DEF Thresholds
      <3> HIDE DEF x, y, step
      <3>3. /\ Cardinality(Paying(a, b, t, c)) \in Nat
            /\ Pays(x, y, t) => Cardinality(Paying(a, b, t, c + step)) = Cardinality(Paying(a, b, t, c)) + step
            /\ ~ Pays(x, y, t) => Cardinality(Paying(a, b, t, c + step)) = Cardinality(Paying(a, b, t, c))
        <4>1. c \in Nat /\ step \in Nat
          BY <1>1, <2>5
        <4> QED BY <2>9, <3>2, <4>1, PayingGrows
      <3> QED BY <3>1, <3>3
    <2>11. v.i + v.j >= (n + 1) + 2
      <3>1. w.i + w.j >= n + 2
        BY <1>3 DEF WalkTrue, v
      <3>2. v.i = (IF w.ra = step THEN w.i + 1 ELSE w.i) /\ v.j = IF w.rb = step THEN w.j + 1 ELSE w.j
        BY <2>2
      <3> HIDE DEF step
      <3> QED BY <2>3, <2>5, <3>1, <3>2
    <2>12. c + step \in Nat
      BY <1>1, <2>5
    <2> HIDE DEF x, y, step
    <2>13. WalkTrue(a, b, v, n + 1)
      BY <2>7, <2>8, <2>10, <2>11, <2>12 DEF WalkTrue
    <2> QED BY <2>13 DEF v
  <1> QED BY <1>2, <1>3

\* The walk ends where nothing more can be bought.
LEMMA WalkEnds ==
  ASSUME NEW a \in Seq(Rung), NEW b \in Seq(Rung)
  PROVE  \E w : /\ DepthCurve(a, b) = w.out /\ Walked(a, b, w) = w
                /\ WalkTrue(a, b, w, Len(a) + Len(b))
  <1> DEFINE N == Len(a) + Len(b)
  <1>1. N \in Nat /\ Len(a) \in Nat /\ Len(b) \in Nat
    BY RungsAre
  <1>2. PICK f : Turns(f, a, b, N) /\ DepthCurve(a, b) = f[N].out
    <2>1. \E f : Turns(f, a, b, N)
      BY <1>1, TurnsExist
    <2>2. DepthCurve(a, b) = (CHOOSE f : Turns(f, a, b, N))[N].out
      BY DepthIs
    <2> HIDE DEF N
    <2> QED BY <2>1, <2>2
  <1> HIDE DEF N
  <1>3. \A n \in 0..N : f[n] = Turn(f, a, b, n)
    BY <1>2 DEF Turns
  <1> DEFINE G == {n \in 0..N : WalkTrue(a, b, f[n], n)}
  <1>4. 0 \in G
    <2>1. f[0] = AtFirst(a, b)
      BY <1>1, <1>3 DEF Turn
    <2>2. Reached(a, 1, SizeAt(a, 1), 0) /\ Reached(b, 1, SizeAt(b, 1), 0)
      BY ReachedAtFirst
    <2>3. \A t \in Thresholds : Cardinality(Paying(a, b, t, 0)) = 0
      <3> SUFFICES ASSUME NEW t \in Thresholds PROVE Cardinality(Paying(a, b, t, 0)) = 0
        OBVIOUS
      <3>1. Paying(a, b, t, 0) = {}
        BY DEF Paying
      <3> QED BY <3>1, FS_EmptySet
    <2>4. /\ f[0].i = 1 /\ f[0].j = 1 /\ f[0].ra = SizeAt(a, 1) /\ f[0].rb = SizeAt(b, 1)
          /\ \A t \in Thresholds : f[0].out[t] = 0
      BY <2>1 DEF AtFirst
    <2>5. WalkTrue(a, b, f[0], 0)
      BY <2>2, <2>3, <2>4 DEF WalkTrue
    <2> QED BY <1>1, <2>5
  <1>5. ASSUME NEW n \in 0..(N - 1), n \in G PROVE n + 1 \in G
    <2>1. n + 1 \in 0..N /\ n \in Nat /\ n + 1 # 0 /\ (n + 1) - 1 = n
      BY <1>1
    <2>2. f[n + 1] = Walked(a, b, f[n])
      BY <1>3, <2>1 DEF Turn
    <2>3. WalkTrue(a, b, f[n + 1], n + 1)
      BY <1>5, <2>1, <2>2, WalkGoesOn
    <2> QED BY <2>1, <2>3
  <1>6. N \in G
    <2> HIDE DEF G
    <2>1. \A n \in 0..N : n \in G
      BY <1>1, <1>4, <1>5, Climb
    <2> QED BY <1>1, <2>1
  <1>7. Walked(a, b, f[N]) = f[N]
    <2> SUFFICES ASSUME Walked(a, b, f[N]) # f[N] PROVE FALSE
      OBVIOUS
    <2>1. f[N].i + f[N].j >= Len(a) + Len(b) + 2
      BY <1>6 DEF WalkTrue, N
    <2>2. f[N].i \in 1..(Len(a) + 1) /\ f[N].j \in 1..(Len(b) + 1)
      BY <1>6 DEF WalkTrue, Reached
    <2>3. f[N].i > Len(a)
      BY <1>1, <2>1, <2>2
    <2> QED BY <2>3 DEF Walked
  <1> QED BY <1>2, <1>6, <1>7 DEF N

\* depth_curve finds as many pairs as pay the threshold when two ladders are bought unit by unit, however the floats at
\* the threshold are rounded; never more when a level is empty; none that brings less in cents, and all that bring more;
\* and no more at a higher threshold.
LEMMA DepthIsPairs ==
  ASSUME NEW a \in Seq(Rung), NEW b \in Seq(Rung), Ascends(a), Ascends(b), NEW t \in Thresholds
  PROVE  /\ DepthCurve(a, b)[t] \in Nat
         /\ DepthCurve(a, b)[t] <= Pairs(a, b, t)
         /\ Whole(a) /\ Whole(b) => DepthCurve(a, b)[t] = Pairs(a, b, t)
         /\ DepthCurve(a, b)[t] <= Bringing(a, b, t)
         /\ Whole(a) /\ Whole(b) => DepthCurve(a, b)[t] >= Bringing(a, b, t + 1)
         /\ t > 0 => DepthCurve(a, b)[t] <= DepthCurve(a, b)[t - 1]
  <1>1. PICK w : DepthCurve(a, b) = w.out /\ Walked(a, b, w) = w /\ WalkTrue(a, b, w, Len(a) + Len(b))
    BY WalkEnds
  <1>2. PICK c \in Nat : /\ Reached(a, w.i, w.ra, c) /\ Reached(b, w.j, w.rb, c)
                         /\ \A s \in Thresholds : w.out[s] = Cardinality(Paying(a, b, s, c))
    BY <1>1 DEF WalkTrue
  <1> DEFINE A == Units(a)[Len(a)]
             B == Units(b)[Len(b)]
             units == {n \in 1..A : n <= B}
             P == Paying(a, b, t, c)
             Q == {n \in units : \A m \in 1..n : Pays(UnitPrice(a, m), UnitPrice(b, m), t)}
             Z(k) == {n \in units : 100 - UnitPrice(a, n) - UnitPrice(b, n) >= k}
  <1>3. Len(a) \in Nat /\ Len(b) \in Nat /\ A \in Nat /\ B \in Nat
    BY RungsAre, UnitsAdd
  <1>4. Pairs(a, b, t) = Cardinality(Q) /\ DepthCurve(a, b)[t] = Cardinality(P)
    BY <1>1, <1>2 DEF Pairs, Both
  <1>5. IsFiniteSet(P) /\ IsFiniteSet(Q) /\ Cardinality(P) \in Nat /\ Cardinality(Q) \in Nat
    <2>1. IsFiniteSet(1..c) /\ IsFiniteSet(1..A)
      <3>1. 1 \in Int /\ c \in Int /\ A \in Int
        BY <1>2, <1>3
      <3> HIDE DEF A
      <3> QED BY <3>1, FS_Interval
    <2>2. P \in SUBSET (1..c) /\ Q \in SUBSET (1..A)
      BY DEF Paying
    <2> HIDE DEF P, Q, A
    <2> QED BY <2>1, <2>2, FS_Subset, FS_CardinalityType
  <1>6. c <= A /\ c <= B
    BY <1>2 DEF Reached
  <1>7. P \in SUBSET Q
    <2> SUFFICES ASSUME NEW n \in P PROVE n \in Q
      OBVIOUS
    <2>1. n \in 1..c /\ Pays(UnitPrice(a, n), UnitPrice(b, n), t)
      BY DEF Paying
    <2>2. n \in 1..A /\ n \in 1..B
      BY <1>2, <1>3, <1>6, <2>1
    <2>3. ASSUME NEW m \in 1..n PROVE Pays(UnitPrice(a, m), UnitPrice(b, m), t)
      <3>1. m \in 1..A /\ m \in 1..B /\ m <= n
        BY <1>3, <2>2
      <3> HIDE DEF A, B
      <3>2. /\ UnitPrice(a, m) \in Int /\ UnitPrice(a, n) \in Int /\ UnitPrice(a, m) <= UnitPrice(a, n)
            /\ UnitPrice(b, m) \in Int /\ UnitPrice(b, n) \in Int /\ UnitPrice(b, m) <= UnitPrice(b, n)
        BY <2>2, <3>1, UnitsAscend DEF A, B
      <3>3. t \in Int
        BY DEF Thresholds
      <3> QED BY <2>1, <3>2, <3>3, BetterPays
    <2> QED BY <1>3, <2>2, <2>3
  <1>8. ASSUME Whole(a), Whole(b), NEW n \in Q PROVE n \in P
    <2>1. n \in 1..A /\ n \in 1..B /\ \A m \in 1..n : Pays(UnitPrice(a, m), UnitPrice(b, m), t)
      BY <1>3
    <2>2. CASE n <= c
      BY <1>2, <1>3, <2>1, <2>2 DEF Paying
    <2>3. CASE c < n
      <3>1. w.i <= Len(a) /\ w.j <= Len(b)
        <4>1. c < A /\ c < B
          BY <1>2, <1>3, <2>1, <2>3
        <4>2. /\ w.i \in 1..(Len(a) + 1) /\ Units(a)[w.i - 1] <= c
              /\ w.j \in 1..(Len(b) + 1) /\ Units(b)[w.j - 1] <= c
          BY <1>2 DEF Reached
        <4>3. w.i = Len(a) + 1 => A <= c
          BY <1>3, <4>2
        <4>4. w.j = Len(b) + 1 => B <= c
          BY <1>3, <4>2
        <4> HIDE DEF A, B
        <4> QED BY <1>2, <1>3, <4>1, <4>2, <4>3, <4>4
      <3>2. /\ w.i \in 1..Len(a) /\ w.ra \in Nat /\ w.ra > 0 /\ Units(a)[w.i - 1] <= c /\ c + w.ra = Units(a)[w.i]
            /\ w.j \in 1..Len(b) /\ w.rb \in Nat /\ w.rb > 0 /\ Units(b)[w.j - 1] <= c /\ c + w.rb = Units(b)[w.j]
        BY <1>2, <1>3, <1>8, <3>1 DEF Reached
      <3> DEFINE i == w.i
                 j == w.j
                 ra == w.ra
                 rb == w.rb
      <3>11. /\ i \in 1..Len(a) /\ ra \in Nat /\ ra > 0 /\ Units(a)[i - 1] <= c /\ c + ra = Units(a)[i]
             /\ j \in 1..Len(b) /\ rb \in Nat /\ rb > 0 /\ Units(b)[j - 1] <= c /\ c + rb = Units(b)[j]
        BY <3>2
      <3> HIDE DEF i, j, ra, rb
      <3>3. UnitPrice(a, c + 1) = a[w.i].px /\ UnitPrice(b, c + 1) = b[w.j].px
        <4>1. i - 1 \in 0..Len(a) /\ j - 1 \in 0..Len(b)
          BY <1>3, <3>11
        <4>2. Units(a)[i - 1] \in Nat /\ Units(b)[j - 1] \in Nat
          BY <4>1, UnitsAdd
        <4>3. /\ c + 1 \in Nat /\ Units(a)[i - 1] < c + 1 /\ c + 1 <= Units(a)[i]
              /\ Units(b)[j - 1] < c + 1 /\ c + 1 <= Units(b)[j]
          BY <1>2, <3>11, <4>2
        <4>4. UnitPrice(a, c + 1) = a[i].px /\ UnitPrice(b, c + 1) = b[j].px
          BY <3>11, <4>3, UnitCosts
        <4> QED BY <4>4 DEF i, j
      <3>4. Pays(UnitPrice(a, c + 1), UnitPrice(b, c + 1), t)
        <4>1. c + 1 \in 1..n
          BY <1>2, <2>1, <2>3
        <4> QED BY <2>1, <4>1
      <3>5. a[w.i].px \in Int /\ b[w.j].px \in Int /\ t \in Nat
        <4>1. a[i].px \in Int /\ b[j].px \in Int /\ t \in Nat
          BY <3>11, RungsAre DEF Thresholds
        <4> QED BY <4>1 DEF i, j
      <3>6. Pays(a[w.i].px, b[w.j].px, 0)
        <4>1. \A u, v \in Int : Pays(u, v, t) => Pays(u, v, 0)
          BY <3>5 DEF Pays
        <4>2. Pays(a[w.i].px, b[w.j].px, t)
          BY <3>3, <3>4
        <4> QED BY <3>5, <4>1, <4>2
      <3> DEFINE step == IF w.ra < w.rb THEN w.ra ELSE w.rb
      <3>7. step # 0 /\ (w.ra = step \/ w.rb = step) /\ step \in Nat /\ step <= w.ra /\ step <= w.rb
        BY <3>2
      <3>8. /\ Walked(a, b, w).i = IF w.ra = step THEN w.i + 1 ELSE w.i
            /\ Walked(a, b, w).j = IF w.rb = step THEN w.j + 1 ELSE w.j
        <4>1. ~ (w.i > Len(a) \/ w.j > Len(b)) /\ ~ (~ Pays(a[w.i].px, b[w.j].px, 0) \/ step = 0)
          <5>1. i \in Nat /\ ~ (i > Len(a)) /\ j \in Nat /\ ~ (j > Len(b))
            BY <1>3, <3>11
          <5> QED BY <3>6, <3>7, <5>1, Zenon DEF i, j
        <4>2. Walked(a, b, w) =
                   [i  |-> IF w.ra = step THEN w.i + 1 ELSE w.i,
                    j  |-> IF w.rb = step THEN w.j + 1 ELSE w.j,
                    ra |-> IF w.ra = step THEN SizeAt(a, w.i + 1) ELSE w.ra - step,
                    rb |-> IF w.rb = step THEN SizeAt(b, w.j + 1) ELSE w.rb - step,
                    out |-> [s \in Thresholds |-> IF Pays(a[w.i].px, b[w.j].px, s) THEN w.out[s] + step ELSE w.out[s]]]
          BY <4>1 DEF Walked
        <4> QED BY <4>2
      <3> HIDE DEF step
      <3>9. w.i + 1 # w.i /\ w.j + 1 # w.j
        BY <3>2
      <3>10. FALSE
        BY <1>1, <3>7, <3>8, <3>9
      <3> QED BY <3>10
    <2>4. n \in Int
      BY <2>1
    <2> QED BY <1>2, <2>2, <2>3, <2>4
  <1>9. ASSUME t > 0 PROVE DepthCurve(a, b)[t] <= DepthCurve(a, b)[t - 1]
    <2>1. t - 1 \in Thresholds /\ t \in Int
      BY <1>9 DEF Thresholds
    <2> DEFINE R == Paying(a, b, t - 1, c)
    <2>2. DepthCurve(a, b)[t - 1] = Cardinality(R)
      BY <1>1, <1>2, <2>1
    <2>3. IsFiniteSet(R)
      <3>1. IsFiniteSet(1..c) /\ R \in SUBSET (1..c)
        BY <1>2, FS_Interval DEF Paying
      <3> HIDE DEF R
      <3> QED BY <3>1, FS_Subset
    <2>4. P \in SUBSET R
      <3> SUFFICES ASSUME NEW m \in P PROVE m \in R
        OBVIOUS
      <3>1. m \in 1..c /\ Pays(UnitPrice(a, m), UnitPrice(b, m), t)
        BY DEF Paying
      <3>2. UnitPrice(a, m) \in Int /\ UnitPrice(b, m) \in Int
        <4>1. m \in 1..A /\ m \in 1..B /\ m <= m
          BY <1>2, <1>3, <1>6, <3>1
        <4> QED BY <4>1, UnitsAscend
      <3>3. Pays(UnitPrice(a, m), UnitPrice(b, m), t - 1)
        BY <2>1, <3>1, <3>2, BetterPays
      <3> QED BY <3>1, <3>3 DEF Paying
    <2> HIDE DEF P, R
    <2>5. Cardinality(P) <= Cardinality(R)
      BY <2>3, <2>4, FS_Subset
    <2> QED BY <1>4, <2>2, <2>5 DEF P
  <1>12. /\ Bringing(a, b, t) = Cardinality(Z(t)) /\ Bringing(a, b, t + 1) = Cardinality(Z(t + 1))
         /\ IsFiniteSet(Z(t)) /\ IsFiniteSet(Z(t + 1))
    <2>1. IsFiniteSet(1..A) /\ Z(t) \in SUBSET (1..A) /\ Z(t + 1) \in SUBSET (1..A)
      <3>1. 1 \in Int /\ A \in Int
        BY <1>3
      <3> HIDE DEF A
      <3> QED BY <3>1, FS_Interval
    <2>2. Bringing(a, b, t) = Cardinality(Z(t)) /\ Bringing(a, b, t + 1) = Cardinality(Z(t + 1))
      BY DEF Bringing, Both
    <2> HIDE DEF A, Z
    <2> QED BY <2>1, <2>2, FS_Subset
  <1>13. \A n \in units : n \in 1..A /\ n \in 1..B /\ UnitPrice(a, n) \in Int /\ UnitPrice(b, n) \in Int
    <2> SUFFICES ASSUME NEW n \in units
                 PROVE  n \in 1..A /\ n \in 1..B /\ UnitPrice(a, n) \in Int /\ UnitPrice(b, n) \in Int
      OBVIOUS
    <2>1. n \in 1..A /\ n \in 1..B /\ n <= n
      BY <1>3
    <2> HIDE DEF units, A, B
    <2> QED BY <2>1, UnitsAscend DEF A, B
  <1>14. Q \in SUBSET Z(t)
    <2> SUFFICES ASSUME NEW n \in Q PROVE n \in Z(t)
      OBVIOUS
    <2>1. n \in units /\ Pays(UnitPrice(a, n), UnitPrice(b, n), t)
      BY <1>13
    <2>2. t \in Int /\ UnitPrice(a, n) \in Int /\ UnitPrice(b, n) \in Int
      BY <1>13, <2>1 DEF Thresholds
    <2> QED BY <2>1, <2>2 DEF Pays
  <1>15. Z(t + 1) \in SUBSET Q
    <2> SUFFICES ASSUME NEW n \in Z(t + 1), NEW m \in 1..n PROVE Pays(UnitPrice(a, m), UnitPrice(b, m), t)
      OBVIOUS
    <2>1. n \in 1..A /\ n \in 1..B /\ 100 - UnitPrice(a, n) - UnitPrice(b, n) >= t + 1
      BY <1>13
    <2>2. m \in 1..A /\ m \in 1..B /\ m <= n
      BY <1>3, <2>1
    <2>3. t \in Int
      BY DEF Thresholds
    <2> HIDE DEF A, B, units
    <2>4. /\ UnitPrice(a, m) \in Int /\ UnitPrice(a, n) \in Int /\ UnitPrice(a, m) <= UnitPrice(a, n)
          /\ UnitPrice(b, m) \in Int /\ UnitPrice(b, n) \in Int /\ UnitPrice(b, m) <= UnitPrice(b, n)
      BY <2>1, <2>2, UnitsAscend DEF A, B
    <2>5. 100 - UnitPrice(a, m) - UnitPrice(b, m) > t
      BY <2>1, <2>3, <2>4
    <2> QED BY <2>5 DEF Pays
  <1> HIDE DEF P, Q, Z
  <1>10. Cardinality(P) <= Cardinality(Q)
    BY <1>5, <1>7, FS_Subset
  <1>11. Whole(a) /\ Whole(b) => P = Q
    BY <1>7, <1>8
  <1>16. Cardinality(Q) <= Cardinality(Z(t)) /\ Cardinality(Z(t + 1)) <= Cardinality(Q)
    BY <1>5, <1>12, <1>14, <1>15, FS_Subset
  <1>17. Cardinality(Z(t)) \in Nat /\ Cardinality(Z(t + 1)) \in Nat
    BY <1>12, FS_CardinalityType
  <1> QED BY <1>4, <1>5, <1>9, <1>10, <1>11, <1>12, <1>16, <1>17

(***************************************************************************)
(* The ladders of a book                                                   *)
(***************************************************************************)
Above(H, p) == {x \in H : x > p}

\* Of finitely many prices, one has none above it, the next one has one, and so on.
LEMMA HighestFirst ==
  ASSUME NEW H \in SUBSET Int, IsFiniteSet(H)
  PROVE  /\ Cardinality(H) \in Nat
         /\ \A i \in 1..Cardinality(H) : \E p \in H : Cardinality(Above(H, p)) = i - 1
         /\ \A p, q \in H : p < q => Cardinality(Above(H, q)) < Cardinality(Above(H, p))
         /\ \A p \in H : Cardinality(Above(H, p)) \in Nat
  <1> DEFINE N == Cardinality(H)
             T == 1..N
             f == [p \in H |-> Cardinality(Above(H, p)) + 1]
  <1>1. N \in Nat
    BY FS_CardinalityType
  <1>2. ASSUME NEW p \in H PROVE IsFiniteSet(Above(H, p)) /\ Cardinality(Above(H, p)) \in Nat /\ f[p] \in T
    <2> DEFINE A == Above(H, p)
               B == H \ {p}
    <2>1. A \in SUBSET B /\ B \in SUBSET H
      BY DEF Above
    <2>2. IsFiniteSet(B) /\ Cardinality(B) = N - 1
      BY FS_RemoveElement
    <2>3. f[p] = Cardinality(A) + 1
      OBVIOUS
    <2> HIDE DEF A, B, f, N
    <2>4. IsFiniteSet(A) /\ Cardinality(A) <= Cardinality(B)
      BY <2>1, <2>2, FS_Subset
    <2>5. Cardinality(A) \in Nat
      BY <2>4, FS_CardinalityType
    <2>6. f[p] \in T
      BY <1>1, <2>2, <2>3, <2>4, <2>5
    <2> QED BY <2>4, <2>5, <2>6 DEF A
  <1>3. ASSUME NEW p \in H, NEW q \in H, p < q PROVE Cardinality(Above(H, q)) < Cardinality(Above(H, p))
    <2> DEFINE A == Above(H, p)
               B == Above(H, q)
    <2>1. B \in SUBSET A /\ q \in A /\ q \notin B
      <3>1. q \in Int /\ p \in Int /\ \A x \in H : x \in Int
        OBVIOUS
      <3>2. \A x \in H : x > q => x > p
        BY <1>3, <3>1
      <3>3. q > p /\ ~ (q > q)
        BY <1>3, <3>1
      <3> QED BY <3>2, <3>3 DEF Above
    <2>2. IsFiniteSet(A) /\ Cardinality(A) \in Nat
      BY <1>2
    <2> HIDE DEF A, B
    <2>3. B # A
      BY <2>1
    <2>4. Cardinality(B) < Cardinality(A)
      <3>1. IsFiniteSet(B) /\ Cardinality(B) <= Cardinality(A) /\ (Cardinality(B) = Cardinality(A) => B = A)
        BY <2>1, <2>2, FS_Subset
      <3>2. Cardinality(B) \in Nat
        BY <3>1, FS_CardinalityType
      <3> QED BY <2>2, <2>3, <3>1, <3>2
    <2> QED BY <2>4 DEF A, B
  <1>4. ASSUME NEW p \in H, NEW q \in H, p # q PROVE f[p] # f[q]
    <2>1. Cardinality(Above(H, p)) \in Nat /\ Cardinality(Above(H, q)) \in Nat
      BY <1>2
    <2>2. CASE p < q
      BY <1>3, <2>1, <2>2
    <2>3. CASE q < p
      BY <1>3, <2>1, <2>3
    <2> QED BY <1>4, <2>2, <2>3
  <1>5. f \in Injection(H, T)
    <2>1. f = [p \in H |-> f[p]]
      OBVIOUS
    <2> HIDE DEF f, T
    <2>2. f \in [H -> T]
      BY <1>2, <2>1
    <2> QED BY <1>4, <2>2 DEF Injection, IsInjective
  <1>6. IsFiniteSet(T) /\ Cardinality(T) = N
    <2> HIDE DEF N
    <2>1. Cardinality(1..N) = (IF 1 > N THEN 0 ELSE N - 1 + 1) /\ IsFiniteSet(1..N)
      BY <1>1, FS_Interval
    <2> QED BY <1>1, <2>1
  <1>7. f \in Surjection(H, T)
    <2> HIDE DEF f, T
    <2> QED BY <1>5, <1>6, FS_Injection
  <1>8. ASSUME NEW i \in T PROVE \E p \in H : Cardinality(Above(H, p)) = i - 1
    <2>1. \E p \in H : f[p] = i
      <3> HIDE DEF f, T
      <3> QED BY <1>7, <1>8 DEF Surjection
    <2>2. PICK p \in H : Cardinality(Above(H, p)) + 1 = i
      BY <2>1
    <2>3. Cardinality(Above(H, p)) \in Nat
      BY <1>2
    <2> QED BY <2>2, <2>3
  <1> QED BY <1>1, <1>2, <1>3, <1>8

\* Bids read as offers of the other side are levels, and read so twice they are themselves.
LEMMA MirroredRungs ==
  ASSUME NEW l \in Seq(Rung)
  PROVE  /\ Mirrored(l) \in Seq(Rung) /\ Len(Mirrored(l)) = Len(l)
         /\ \A i \in 1..Len(l) : Mirrored(l)[i].px = 100 - l[i].px /\ Mirrored(l)[i].qty = l[i].qty
         /\ Mirrored(Mirrored(l)) = l
  <1> DEFINE v == Mirrored(l)
             N == Len(l)
  <1>1. /\ N \in Nat /\ DOMAIN l = 1..N /\ l = [i \in 1..N |-> l[i]]
        /\ \A i \in 1..N : l[i] = [px |-> l[i].px, qty |-> l[i].qty] /\ l[i].px \in Int /\ l[i].qty \in Nat
    <2>1. N \in Nat /\ DOMAIN l = 1..N /\ l = [i \in 1..N |-> l[i]] /\ \A i \in 1..N : l[i] \in Rung
      OBVIOUS
    <2>2. \A x \in Rung : x = [px |-> x.px, qty |-> x.qty] /\ x.px \in Int /\ x.qty \in Nat
      BY DEF Rung
    <2> QED BY <2>1, <2>2
  <1>2. v = [i \in 1..N |-> [px |-> 100 - l[i].px, qty |-> l[i].qty]]
    BY <1>1 DEF Mirrored, Level
  <1> HIDE DEF v, N
  <1>3. \A i \in 1..N : v[i].px = 100 - l[i].px /\ v[i].qty = l[i].qty /\ v[i] \in Rung
    BY <1>1, <1>2 DEF Rung
  <1>4. v \in Seq(Rung) /\ Len(v) = N /\ DOMAIN v = 1..N
    BY <1>1, <1>2, <1>3
  <1>5. Mirrored(v) = l
    <2>1. Mirrored(v) = [i \in 1..N |-> [px |-> 100 - v[i].px, qty |-> v[i].qty]]
      BY <1>4 DEF Mirrored, Level
    <2>2. ASSUME NEW i \in 1..N PROVE [px |-> 100 - v[i].px, qty |-> v[i].qty] = l[i]
      <3>1. 100 - v[i].px = l[i].px /\ v[i].qty = l[i].qty
        BY <1>1, <1>3
      <3> QED BY <1>1, <3>1
    <2>3. Mirrored(v) = [i \in 1..N |-> l[i]]
      BY <2>1, <2>2
    <2> QED BY <1>1, <2>3
  <1> QED BY <1>3, <1>4, <1>5 DEF v, N

\* What rests on one side of a book is offered best first, without an empty level.
LEMMA RankedAscends ==
  ASSUME NEW side \in [Rests -> Nat]
  PROVE  /\ Ranked(side) \in Seq(Rung)
         /\ Mirrored(Ranked(side)) \in Seq(Rung) /\ Ascends(Mirrored(Ranked(side))) /\ Whole(Mirrored(Ranked(side)))
  <1> DEFINE H == {p \in DOMAIN side : side[p] > 0}
             N == Cardinality(H)
             nth(i) == CHOOSE p \in H : Cardinality({x \in H : x > p}) = i - 1
             l == Ranked(side)
             v == Mirrored(l)
  <1>1. H \in SUBSET Rests /\ H \in SUBSET Int /\ IsFiniteSet(H)
    BY FS_Subset, GameBooksAssumption
  <1>2. l = [i \in 1..N |-> Level(nth(i), side[nth(i)])]
    BY DEF Ranked
  <1>3. \A p \in H : side[p] \in Nat /\ side[p] > 0
    BY <1>1
  <1> HIDE DEF H
  <1>4. \A i \in 1..N : nth(i) \in H /\ Cardinality(Above(H, nth(i))) = i - 1
    <2> SUFFICES ASSUME NEW i \in 1..N PROVE nth(i) \in H /\ Cardinality(Above(H, nth(i))) = i - 1
      OBVIOUS
    <2>1. \E p \in H : Cardinality({x \in H : x > p}) = i - 1
      BY <1>1, HighestFirst DEF Above
    <2> QED BY <2>1 DEF Above
  <1>5. N \in Nat /\ \A p, q \in H : p < q => Cardinality(Above(H, q)) < Cardinality(Above(H, p))
    BY <1>1, HighestFirst
  <1>6. \A i, j \in 1..N : i < j => nth(i) >= nth(j)
    <2> SUFFICES ASSUME NEW i \in 1..N, NEW j \in 1..N, i < j, ~ (nth(i) >= nth(j)) PROVE FALSE
      OBVIOUS
    <2>1. nth(i) \in H /\ nth(j) \in H /\ Cardinality(Above(H, nth(i))) = i - 1 /\ Cardinality(Above(H, nth(j))) = j - 1
      BY <1>4
    <2>2. nth(i) < nth(j)
      <3>1. nth(i) \in Int /\ nth(j) \in Int
        BY <1>1, <2>1
      <3>2. ~ (nth(i) >= nth(j))
        OBVIOUS
      <3> HIDE DEF nth
      <3> QED BY <3>1, <3>2
    <2> HIDE DEF nth
    <2>3. j - 1 < i - 1
      BY <1>5, <2>1, <2>2
    <2> QED BY <1>5, <2>3
  <1> HIDE DEF nth, l, N
  <1>7. \A i \in 1..N : l[i].px = nth(i) /\ l[i].qty = side[nth(i)] /\ l[i] \in Rung /\ l[i].px \in Int /\ l[i].qty > 0
    <2> SUFFICES ASSUME NEW i \in 1..N
                 PROVE  l[i].px = nth(i) /\ l[i].qty = side[nth(i)] /\ l[i] \in Rung /\ l[i].px \in Int /\ l[i].qty > 0
      OBVIOUS
    <2>1. l[i] = [px |-> nth(i), qty |-> side[nth(i)]] /\ nth(i) \in H
      BY <1>2, <1>4 DEF Level
    <2>2. nth(i) \in Int /\ side[nth(i)] \in Nat /\ side[nth(i)] > 0
      BY <1>1, <1>3, <2>1
    <2> QED BY <2>1, <2>2 DEF Rung
  <1>8. l \in Seq(Rung) /\ Len(l) = N
    BY <1>2, <1>5, <1>7
  <1> HIDE DEF v
  <1>9. /\ v \in Seq(Rung) /\ Len(v) = N
        /\ \A i \in 1..N : v[i].px = 100 - l[i].px /\ v[i].qty = l[i].qty
    BY <1>8, MirroredRungs DEF v
  <1>10. DOMAIN v = 1..N
    BY <1>9
  <1>11. Ascends(v)
    <2> SUFFICES ASSUME NEW i \in 1..N, NEW j \in 1..N, i < j PROVE v[i].px <= v[j].px
      BY <1>10 DEF Ascends
    <2>1. l[i].px >= l[j].px /\ l[i].px \in Int /\ l[j].px \in Int
      BY <1>6, <1>7
    <2> QED BY <1>9, <2>1
  <1>12. Whole(v)
    BY <1>7, <1>9, <1>10 DEF Whole
  <1> QED BY <1>8, <1>9, <1>11, <1>12 DEF v, l

(***************************************************************************)
(* Games are priced                                                        *)
(***************************************************************************)
\* What a tracker may hold.
TrackerHas(g) ==
  /\ g.pm \in PmBooks \cup {None} /\ g.pmBid \in Int \cup {None} /\ g.pmAsk \in Int \cup {None}
  /\ \A t \in Teams : g.k[t] \in Int \cup {None} /\ g.book[t] \in Book \cup {None}

TrackerHolds == TrackerHas(tracker)

\* The touch of a ladder is a price, or there is none.
LEMMA TouchTyped == ASSUME NEW l \in Seq(Rung) PROVE BestPx(l) \in Int \cup {None}
  <1>1. CASE l = <<>>
    BY <1>1 DEF BestPx
  <1>2. CASE l # <<>>
    <2>1. 1 \in 1..Len(l)
      BY <1>2
    <2>2. l[1].px \in Int
      BY <2>1, RungsAre
    <2> QED BY <1>2, <2>2 DEF BestPx
  <1> QED BY <1>1, <1>2

\* Kalshi's offers of a book.
LEMMA OffersOfABook ==
  ASSUME NEW b \in Book
  PROVE  OfferPairs(b) \in Seq(Rung) /\ Ascends(OfferPairs(b)) /\ Whole(OfferPairs(b)) /\ BestPx(OfferPairs(b)) \in Int \cup {None}
  <1>1. b.no \in [Rests -> Nat]
    BY DEF Book, Sides
  <1>2. OfferPairs(b) \in Seq(Rung) /\ Ascends(OfferPairs(b)) /\ Whole(OfferPairs(b))
    BY <1>1, RankedAscends DEF OfferPairs
  <1> QED BY <1>2, TouchTyped

\* What pmus offers, and the other side of what it bids.
LEMMA OffersOfPm ==
  ASSUME NEW b \in PmBooks
  PROVE  /\ b.offers \in Seq(Rung) /\ Ascends(b.offers) /\ BestPx(b.offers) \in Int \cup {None}
         /\ b.bids \in Seq(Rung) /\ BestPx(b.bids) \in Int \cup {None}
         /\ Mirrored(b.bids) \in Seq(Rung) /\ Ascends(Mirrored(b.bids))
  <1>1. b.offers \in Seq(Rung) /\ b.bids \in Seq(Rung) /\ Ascends(b.offers) /\ Ascends(Mirrored(b.bids))
    BY GameBooksAssumption DEF Rung
  <1> QED BY <1>1, TouchTyped, MirroredRungs

\* evaluate changes the state only.
LEMMA EvaluatedHolds ==
  ASSUME NEW g, Tracker(g), TrackerHas(g)
  PROVE  TrackerHas(Evaluated2(g))
  <1> DEFINE new == GameEdge(g.pmBid, g.pmAsk, g.k["A"], g.k["B"])
             st  == IF new = None THEN g.state ELSE new
             h   == Evaluated2(g)
  <1>1. h = [pm |-> g.pm, pmBid |-> g.pmBid, pmAsk |-> g.pmAsk, k |-> g.k, book |-> g.book, state |-> st]
    BY DEF Evaluated2, Tracker
  <1>2. /\ h.pm = g.pm /\ h.pmBid = g.pmBid /\ h.pmAsk = g.pmAsk /\ h.k = g.k /\ h.book = g.book
    BY <1>1
  <1> HIDE DEF h
  <1>3. TrackerHas(h)
    BY <1>2 DEF TrackerHas
  <1> QED BY <1>3 DEF h

\* A Kalshi book is fed.
LEMMA FedHolds ==
  ASSUME TrackerInv, TrackerHolds, NEW t \in Teams, NEW b \in Book, tracker' = FedKalshi(t, b)
  PROVE  TrackerHolds'
  <1> DEFINE g == [pm |-> tracker.pm, pmBid |-> tracker.pmBid, pmAsk |-> tracker.pmAsk, state |-> tracker.state,
                   k |-> [tracker.k EXCEPT ![t] = BestPx(OfferPairs(b))], book |-> [tracker.book EXCEPT ![t] = b]]
  <1>1. Tracker(tracker) /\ TrackerHas(tracker) /\ BestPx(OfferPairs(b)) \in Int \cup {None}
    BY OffersOfABook DEF TrackerInv, TrackerHolds
  <1>3. /\ g.k = [tracker.k EXCEPT ![t] = BestPx(OfferPairs(b))] /\ g.book = [tracker.book EXCEPT ![t] = b]
        /\ g.pm = tracker.pm /\ g.pmBid = tracker.pmBid /\ g.pmAsk = tracker.pmAsk /\ g.state = tracker.state
        /\ g = [pm |-> g.pm, pmBid |-> g.pmBid, pmAsk |-> g.pmAsk, k |-> g.k, book |-> g.book, state |-> g.state]
    OBVIOUS
  <1>4. tracker' = Evaluated2(g)
    BY DEF FedKalshi
  <1> HIDE DEF g
  <1>5. Tracker(g)
    BY <1>1, <1>3 DEF Tracker
  <1>6. TrackerHas(g)
    BY <1>1, <1>3 DEF TrackerHas, Tracker
  <1>7. TrackerHas(tracker')
    BY <1>4, <1>5, <1>6, EvaluatedHolds
  <1> QED BY <1>7 DEF TrackerHolds, TrackerHas

\* A frame of pmus.
LEMMA PmFrameHolds ==
  ASSUME TrackerInv, TrackerHolds, NEW b \in PmBooks, PmFrame(b)
  PROVE  TrackerHolds'
  <1> DEFINE g == [pm |-> b, pmBid |-> BestPx(b.bids), pmAsk |-> BestPx(b.offers), state |-> tracker.state,
                   k |-> tracker.k, book |-> tracker.book]
  <1>1. /\ Tracker(tracker) /\ TrackerHas(tracker) /\ tracker' = Evaluated2(g)
        /\ BestPx(b.bids) \in Int \cup {None} /\ BestPx(b.offers) \in Int \cup {None}
    BY OffersOfPm DEF TrackerInv, TrackerHolds, PmFrame
  <1>2. /\ g.k = tracker.k /\ g.book = tracker.book /\ g.pm = b /\ g.pmBid = BestPx(b.bids) /\ g.pmAsk = BestPx(b.offers)
        /\ g = [pm |-> g.pm, pmBid |-> g.pmBid, pmAsk |-> g.pmAsk, k |-> g.k, book |-> g.book, state |-> g.state]
    OBVIOUS
  <1> HIDE DEF g
  <1>3. Tracker(g) /\ TrackerHas(g)
    BY <1>1, <1>2 DEF Tracker, TrackerHas
  <1>4. TrackerHas(tracker')
    BY <1>1, <1>3, EvaluatedHolds
  <1> QED BY <1>4 DEF TrackerHolds, TrackerHas

\* What the tracker holds is of those kinds in every reachable state.
LEMMA TrackerAlwaysHolds == GameSpec => []TrackerHolds
  <1>1. GameInit => TrackerHolds
    BY DEF GameInit, BooksInit, Blank, TrackerHolds, TrackerHas
  <1>2. TrackerInv /\ StreamInv /\ TrackerHolds /\ [GameNext]_<<bookVars, fireVars>> => TrackerHolds'
    <2> SUFFICES ASSUME TrackerInv, StreamInv, TrackerHolds, [GameNext]_<<bookVars, fireVars>> PROVE TrackerHolds'
      OBVIOUS
    <2>1. ASSUME tracker' = tracker PROVE TrackerHolds'
      BY <2>1 DEF TrackerHolds, TrackerHas
    <2>2. ASSUME NEW t \in Teams, NEW s \in Sides, NEW p \in Rests, NEW n \in Deltas, Rest(t, s, p, n) PROVE TrackerHolds'
      BY <2>1, <2>2 DEF Rest
    <2>3. CASE Lose \/ Drop \/ SeqGap \/ Connect
      BY <2>1, <2>3 DEF Lose, Drop, SeqGap, Connect
    <2>4. CASE KalshiFrame
      <3>1. wire # <<>> /\ StreamTypes
        BY <2>4 DEF KalshiFrame, StreamInv
      <3>2. tracker' = IF Applied(Head(wire)) = None THEN tracker ELSE FedKalshi(Head(wire).ticker, Applied(Head(wire)))
        BY <2>4 DEF KalshiFrame
      <3>3. Head(wire).ticker \in Teams /\ Applied(Head(wire)) \in Book \cup {None}
        BY <3>1, AppliedIsBook
      <3> QED BY <2>1, <3>2, <3>3, FedHolds
    <2>5. ASSUME NEW b \in PmBooks, PmFrame(b) PROVE TrackerHolds'
      BY <2>5, PmFrameHolds
    <2>6. ASSUME NEW m \in Slugs, NEW c2 \in Depths, Fire(m, c2) PROVE TrackerHolds'
      BY <2>1, <2>6 DEF Fire
    <2>7. ASSUME NEW m \in Slugs, NEW o \in Outcomes, FireOutcome(m, o) PROVE TrackerHolds'
      BY <2>1, <2>7 DEF FireOutcome, bookVars
    <2>8. CASE BotDies
      BY <2>1, <2>8 DEF BotDies
    <2>9. CASE UNCHANGED <<bookVars, fireVars>>
      BY <2>1, <2>9 DEF bookVars
    <2> QED BY <2>2, <2>3, <2>4, <2>5, <2>6, <2>7, <2>8, <2>9 DEF GameNext, BooksNext
  <1> QED BY <1>1, <1>2, StreamAlways, TrackerAlways, PTL DEF GameSpec

\* The depth of a game is there to be bought.
LEMMA DepthAlwaysThere == TrackerHolds => DepthIsThere
  <1> SUFFICES ASSUME TrackerHolds PROVE DepthIsThere
    OBVIOUS
  <1> DEFINE pm == tracker.pm
             kA == tracker.book["A"]
             kB == tracker.book["B"]
             left_(d) == IF d = "PK" THEN pm.offers ELSE OfferPairs(kA)
             right_(d) == IF d = "PK" THEN OfferPairs(kB) ELSE Mirrored(pm.bids)
  <1>1. pm \in PmBooks \cup {None} /\ kA \in Book \cup {None} /\ kB \in Book \cup {None}
    BY DEF TrackerHolds, TrackerHas, Teams
  <1>2. ASSUME NEW d \in GameDirs, GameDepth(pm, kA, kB, d) # None, NEW t \in Thresholds
        PROVE  LET depth == GameDepth(pm, kA, kB, d)
                   a == left_(d)
                   b == right_(d)
               IN  /\ depth[t] <= Pairs(a, b, t)
                   /\ Whole(a) /\ Whole(b) => depth[t] = Pairs(a, b, t)
                   /\ depth[t] <= Bringing(a, b, t)
                   /\ Whole(a) /\ Whole(b) => depth[t] >= Bringing(a, b, t + 1)
                   /\ t > 0 => depth[t] <= depth[t - 1]
    <2> DEFINE a == left_(d)
               b == right_(d)
    <2>1. pm # None /\ kA # None /\ kB # None /\ GameDepth(pm, kA, kB, d) = DepthCurve(a, b)
      BY <1>2 DEF GameDepth
    <2> HIDE DEF pm, kA, kB
    <2>2. pm \in PmBooks /\ kA \in Book /\ kB \in Book
      BY <1>1, <2>1
    <2>3. a \in Seq(Rung) /\ b \in Seq(Rung) /\ Ascends(a) /\ Ascends(b)
      BY <2>2, OffersOfABook, OffersOfPm
    <2> HIDE DEF a, b
    <2>4. /\ DepthCurve(a, b)[t] <= Pairs(a, b, t)
          /\ Whole(a) /\ Whole(b) => DepthCurve(a, b)[t] = Pairs(a, b, t)
          /\ DepthCurve(a, b)[t] <= Bringing(a, b, t)
          /\ Whole(a) /\ Whole(b) => DepthCurve(a, b)[t] >= Bringing(a, b, t + 1)
          /\ t > 0 => DepthCurve(a, b)[t] <= DepthCurve(a, b)[t - 1]
      BY <2>3, DepthIsPairs
    <2> QED BY <2>1, <2>4 DEF a, b
  <1> QED BY <1>2 DEF DepthIsThere

\* A game is priced as the market of its team A.
LEMMA GamesAlwaysSignals == TrackerHolds => GamesAreSignals
  <1> SUFFICES ASSUME TrackerHolds PROVE GamesAreSignals
    OBVIOUS
  <1> DEFINE g == tracker
             pb == g.pmBid
             pa == g.pmAsk
             ka == g.k["A"]
             kb == g.k["B"]
             px == [p_yb |-> pb, p_ya |-> pa, k_ya |-> ka, k_yb |-> IF kb = None THEN None ELSE 100 - kb]
             game == GameEdge(pb, pa, ka, kb)
             one  == EdgeState(px)
             binary == BinaryDepth(g.pm, [bids |-> Mirrored(OfferPairs(g.book["B"])), offers |-> OfferPairs(g.book["A"])], one.dir)
  <1>1. /\ pb \in Int \cup {None} /\ pa \in Int \cup {None} /\ ka \in Int \cup {None} /\ kb \in Int \cup {None}
        /\ g.pm \in PmBooks \cup {None} /\ g.book["A"] \in Book \cup {None} /\ g.book["B"] \in Book \cup {None}
    BY DEF TrackerHolds, TrackerHas, Teams
  <1>2. px.p_yb = pb /\ px.p_ya = pa /\ px.k_ya = ka /\ px.k_yb = IF kb = None THEN None ELSE 100 - kb
    OBVIOUS
  <1> SUFFICES ASSUME ~ Stale(px), ~ Misoriented(pb, pa, ka)
               PROVE  IF game = None THEN ~ Evaluated(px)
                      ELSE /\ [arb |-> game.arb, dir |-> game.dir = "PK", net |-> game.net]
                              = [arb |-> one.arb, dir |-> one.dir = "P", net |-> one.net]
                           /\ g.book["A"] # None /\ g.book["B"] # None /\ g.pm # None /\ binary # None
                                => binary = GameDepth(g.pm, g.book["A"], g.book["B"], game.dir)
    BY DEF GamesAreSignals
  <1> HIDE DEF px
  <1>3. (Quoted(px, "P") <=> pa # None /\ kb # None) /\ (Quoted(px, "K") <=> ka # None /\ pb # None)
    BY <1>1, <1>2, QuotesAssumption DEF Quoted
  <1>4. Quoted(px, "P") => NetOf(px, "P") = GameNet("PK", pb, pa, ka, kb) /\ GameNet("PK", pb, pa, ka, kb) \in Int
    <2> SUFFICES ASSUME pa # None, kb # None
                 PROVE  NetOf(px, "P") = GameNet("PK", pb, pa, ka, kb) /\ GameNet("PK", pb, pa, ka, kb) \in Int
      BY <1>3
    <2>1. pa \in Int /\ kb \in Int /\ 100 - (100 - kb) = kb
      BY <1>1
    <2>2. PFee(pa) \in Int /\ KFee(kb) \in Int
      BY <2>1, FeesTyped
    <2>3. NetOf(px, "P") = 100 * (100 - pa - kb) - (PFee(pa) + KFee(kb))
      BY <1>2, <2>1 DEF NetOf, YesAsk, NoAsk
    <2>4. GameNet("PK", pb, pa, ka, kb) = 100 * (100 - pa - kb) - PFee(pa) - KFee(kb)
      BY DEF GameNet
    <2> QED BY <2>1, <2>2, <2>3, <2>4
  <1>5. Quoted(px, "K") => NetOf(px, "K") = GameNet("KP", pb, pa, ka, kb) /\ GameNet("KP", pb, pa, ka, kb) \in Int
    <2> SUFFICES ASSUME ka # None, pb # None
                 PROVE  NetOf(px, "K") = GameNet("KP", pb, pa, ka, kb) /\ GameNet("KP", pb, pa, ka, kb) \in Int
      BY <1>3
    <2>1. ka \in Int /\ pb \in Int /\ 100 - pb \in Int
      BY <1>1
    <2>2. PFee(100 - pb) \in Int /\ KFee(ka) \in Int
      BY <2>1, FeesTyped
    <2>3. NetOf(px, "K") = 100 * (100 - ka - (100 - pb)) - (KFee(ka) + PFee(100 - pb))
      BY <1>2, <2>1 DEF NetOf, YesAsk, NoAsk
    <2>4. GameNet("KP", pb, pa, ka, kb) = 100 * (pb - ka) - KFee(ka) - PFee(100 - pb)
      BY DEF GameNet
    <2> QED BY <2>1, <2>2, <2>3, <2>4
  <1> DEFINE gOpts == {d \in GameDirs : IF d = "PK" THEN pa # None /\ kb # None ELSE ka # None /\ pb # None}
             gNet(d) == GameNet(d, pb, pa, ka, kb)
             gBest == IF "PK" \in gOpts /\ \A d \in gOpts : gNet("PK") >= gNet(d) THEN "PK" ELSE "KP"
             sOpts == {d \in Dirs : Quoted(px, d) /\ ~ Stale(px)}
             sBest == IF "P" \in sOpts /\ \A d \in sOpts : NetOf(px, "P") >= NetOf(px, d) THEN "P" ELSE "K"
  <1>6. game = IF gOpts = {} THEN None ELSE [arb |-> gNet(gBest) > 0, dir |-> gBest, net |-> gNet(gBest)]
    <2>1. ~ Crossed(pb, pa)
      BY <1>2 DEF Stale
    <2> QED BY <2>1 DEF GameEdge
  <1>7. one = IF sOpts = {} THEN [arb |-> FALSE, dir |-> "P", net |-> 0]
              ELSE [arb |-> NetOf(px, sBest) > 0, dir |-> sBest, net |-> NetOf(px, sBest)]
    BY DEF EdgeState
  <1>8. /\ "PK" \in gOpts <=> "P" \in sOpts
        /\ "KP" \in gOpts <=> "K" \in sOpts
        /\ "PK" \in gOpts <=> Quoted(px, "P")
        /\ "KP" \in gOpts <=> Quoted(px, "K")
    BY <1>3 DEF GameDirs, Dirs
  <1>9. gOpts \in SUBSET {"PK", "KP"} /\ sOpts \in SUBSET {"P", "K"}
    BY DEF GameDirs, Dirs
  <1> HIDE DEF gOpts, sOpts, game, one
  <1>10. CASE gOpts = {}
    <2>1. game = None /\ ~ Quoted(px, "P") /\ ~ Quoted(px, "K")
      BY <1>6, <1>8, <1>10
    <2>2. ~ Evaluated(px)
      BY <2>1 DEF Evaluated, Dirs
    <2> QED BY <2>1, <2>2
  <1>11. CASE gOpts # {}
    <2>1. sOpts # {} /\ ("PK" \in gOpts \/ "KP" \in gOpts)
      BY <1>8, <1>9, <1>11
    <2>2. (gBest = "PK" <=> sBest = "P") /\ gBest \in {"PK", "KP"} /\ sBest \in {"P", "K"}
      BY <1>4, <1>5, <1>8, <1>9
    <2>3. /\ gBest = "PK" => "PK" \in gOpts
          /\ gBest = "KP" => "KP" \in gOpts
      <3>1. gBest = "PK" => "PK" \in gOpts
        OBVIOUS
      <3>2. CASE "KP" \in gOpts
        BY <3>1, <3>2
      <3>3. CASE "KP" \notin gOpts
        <4>1. gOpts = {"PK"} /\ "PK" \in gOpts
          BY <1>9, <2>1, <3>3, Zenon
        <4>2. gNet("PK") \in Int
          BY <1>4, <1>8, <4>1
        <4>3. \A d \in gOpts : gNet("PK") >= gNet(d)
          <5> HIDE DEF gNet
          <5> QED BY <4>1, <4>2
        <4> QED BY <4>1, <4>3
      <3> QED BY <3>2, <3>3
    <2>4. NetOf(px, sBest) = gNet(gBest)
      BY <1>4, <1>5, <1>8, <2>2, <2>3
    <2>5. game = [arb |-> gNet(gBest) > 0, dir |-> gBest, net |-> gNet(gBest)]
      BY <1>6, <1>11
    <2>6. one = [arb |-> NetOf(px, sBest) > 0, dir |-> sBest, net |-> NetOf(px, sBest)]
      BY <1>7, <2>1
    <2> HIDE DEF gBest, sBest, gNet
    <2>7. /\ game.arb = (gNet(gBest) > 0) /\ game.dir = gBest /\ game.net = gNet(gBest)
          /\ one.arb = (NetOf(px, sBest) > 0) /\ one.dir = sBest /\ one.net = NetOf(px, sBest)
      BY <2>5, <2>6
    <2>8. [arb |-> game.arb, dir |-> game.dir = "PK", net |-> game.net]
            = [arb |-> one.arb, dir |-> one.dir = "P", net |-> one.net]
      <3>1. game.arb = one.arb /\ game.net = one.net
        BY <2>4, <2>7, Zenon
      <3>2. (game.dir = "PK") = (one.dir = "P")
        BY <2>2, <2>7
      <3> QED BY <3>1, <3>2, Zenon
    <2>9. ASSUME g.book["A"] # None, g.book["B"] # None, g.pm # None, binary # None
          PROVE  binary = GameDepth(g.pm, g.book["A"], g.book["B"], game.dir)
      <3> DEFINE kA == g.book["A"]
                 kB == g.book["B"]
                 k == [bids |-> Mirrored(OfferPairs(kB)), offers |-> OfferPairs(kA)]
      <3>1. kB \in Book /\ k.bids = Mirrored(OfferPairs(kB)) /\ k.offers = OfferPairs(kA)
        BY <1>1, <2>9
      <3>2. Mirrored(k.bids) = OfferPairs(kB)
        BY <3>1, OffersOfABook, MirroredRungs
      <3>3. binary = BinaryDepth(g.pm, k, sBest)
        BY <2>7
      <3>4. kA # None /\ kB # None
        BY <2>9
      <3> HIDE DEF k, kA, kB, binary
      <3>5. CASE sBest = "P"
        <4>1. binary = DepthCurve(g.pm.offers, Mirrored(k.bids))
          BY <2>9, <3>3, <3>5 DEF BinaryDepth
        <4>2. GameDepth(g.pm, kA, kB, game.dir) = DepthCurve(g.pm.offers, OfferPairs(kB))
          BY <2>2, <2>7, <2>9, <3>4, <3>5 DEF GameDepth
        <4> QED BY <3>2, <4>1, <4>2 DEF kA, kB
      <3>6. CASE sBest = "K"
        <4>1. binary = DepthCurve(k.offers, Mirrored(g.pm.bids))
          BY <2>9, <3>3, <3>6 DEF BinaryDepth
        <4>2. GameDepth(g.pm, kA, kB, game.dir) = DepthCurve(OfferPairs(kA), Mirrored(g.pm.bids))
          BY <2>2, <2>7, <2>9, <3>4, <3>6 DEF GameDepth
        <4> QED BY <3>1, <4>1, <4>2 DEF kA, kB
      <3> QED BY <2>2, <3>5, <3>6
    <2>10. game # None
      <3>1. gNet(gBest) \in Int
        BY <1>4, <1>5, <1>8, <2>2, <2>3 DEF gNet
      <3>2. game \in [arb : BOOLEAN, dir : GameDirs, net : Int]
        BY <2>2, <2>5, <3>1 DEF GameDirs
      <3> QED BY <3>2, GameBooksAssumption
    <2> QED BY <2>8, <2>9, <2>10
  <1> QED BY <1>10, <1>11

\* What is logged of a game is there to be bought: the edge and the direction are those of the market of its team A, and
\* its depth is as many pairs as pay when the two ladders are bought unit by unit.
\* (game_edge, depth_curve, GameTracker._depth)
THEOREM GamesAlwaysPriced == GameSpec => []GamesArePriced
  <1>1. TrackerHolds => GamesArePriced
    BY DepthAlwaysThere, GamesAlwaysSignals DEF GamesArePriced
  <1> QED BY <1>1, TrackerAlwaysHolds, PTL
=============================================================================
