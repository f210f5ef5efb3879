------------------------ MODULE Bookkeeping_proofs ------------------------
(***************************************************************************)
(* Theorems about the risk gate and the live loop's bookkeeping, for any   *)
(* slugs, clusters, caps and edges, and with every quirk the venues may    *)
(* show.                                                                   *)
(***************************************************************************)
EXTENDS Bookkeeping, SequenceTheorems, SumTheorems, TLAPS

(***************************************************************************)
(* What the risk gate guarantees of every size it approves                 *)
(***************************************************************************)

\* Integer division rounds down.
LEMMA DivFloor ==
  ASSUME NEW a \in Nat, NEW b \in Nat \ {0}
  PROVE  /\ a \div b \in Nat
         /\ b * (a \div b) <= a
  OBVIOUS

\* Multiplying by a natural number preserves the order.
LEMMA TimesMonotone ==
  ASSUME NEW a \in Nat, NEW b \in Nat, NEW c \in Nat, a <= b
  PROVE  c * a <= c * b
  <1>1. PICK d \in Nat : b = a + d
    BY Z3
  <1>2. c * b = c * a + c * d
    BY <1>1
  <1>3. c * d \in Nat
    OBVIOUS
  <1> QED BY <1>2, <1>3

LEMMA CostPositive ==
  ASSUME RiskAssumption, NEW net \in Int
  PROVE  CostPer(net) \in Nat \ {0}
  <1>1. Dollar \div 10 \in Nat \ {0} /\ Dollar \in Nat
    BY DEF RiskAssumption
  <1> QED BY <1>1 DEF CostPer

\* What a room has left never lets more through than the cap.
LEMMA RoomFits ==
  ASSUME NEW cap \in Nat, NEW used \in Nat, NEW cost \in Nat \ {0}, used <= cap
  PROVE  /\ RoomFor(cap, used, cost) \in Nat
         /\ used + cost * RoomFor(cap, used, cost) <= cap
  <1>1. CASE cap > used
    <2> DEFINE room == cap - used
    <2>1. room \in Nat
      BY <1>1
    <2>2. room \div cost \in Nat /\ cost * (room \div cost) <= room
      BY <2>1, DivFloor
    <2>3. RoomFor(cap, used, cost) = room \div cost
      BY <1>1 DEF RoomFor
    <2> HIDE DEF room
    <2>4. cost * (room \div cost) \in Nat
      BY <2>2
    <2> QED BY <2>2, <2>3, <2>4 DEF room
  <1>2. CASE ~ (cap > used)
    BY <1>2 DEF RoomFor
  <1> QED BY <1>1, <1>2

\* A size no greater than the room's fits the room.
LEMMA SizeFits ==
  ASSUME NEW cap \in Nat, NEW used \in Nat, NEW cost \in Nat \ {0}, used <= cap,
         NEW size \in Nat, size <= RoomFor(cap, used, cost)
  PROVE  used + cost * size <= cap
  <1>1. RoomFor(cap, used, cost) \in Nat /\ used + cost * RoomFor(cap, used, cost) <= cap
    BY RoomFits
  <1>2. cost * size <= cost * RoomFor(cap, used, cost)
    BY <1>1, TimesMonotone
  <1>3. cost * size \in Nat /\ cost * RoomFor(cap, used, cost) \in Nat
    BY <1>1
  <1> HIDE DEF RoomFor
  <1> QED BY <1>1, <1>2, <1>3

\* The haircut never enlarges a size of at least one contract.
LEMMA HaircutShrinks ==
  ASSUME RiskAssumption, NEW net \in Int, NEW size \in Nat
  PROVE  /\ Haircut(net, size) \in Nat
         /\ Haircut(net, size) <= size \/ Haircut(net, size) = 1
  <1> DEFINE cut == (size * FatNum) \div FatDen
  <1>1. size * FatNum \in Nat /\ FatNum \in Nat /\ FatDen \in Nat \ {0} /\ FatNum <= FatDen
    BY DEF RiskAssumption
  <1>2. cut \in Nat /\ FatDen * cut <= size * FatNum
    BY <1>1, DivFloor
  <1>3. cut <= size
    <2>1. SUFFICES ASSUME cut >= size + 1 PROVE FALSE
      BY <1>2
    <2> HIDE DEF cut
    <2>2. FatDen * (size + 1) <= FatDen * cut
      BY <1>1, <1>2, <2>1, TimesMonotone
    <2>3. size * FatNum <= size * FatDen
      BY <1>1, TimesMonotone
    <2>4. FatDen * (size + 1) = size * FatDen + FatDen
      BY <1>1
    <2>5. size * FatDen \in Nat /\ FatDen * cut \in Nat
      BY <1>1, <1>2
    <2> QED BY <1>1, <1>2, <2>2, <2>3, <2>4, <2>5
  <1>4. CASE net >= FatKnee /\ FatNum < FatDen
    <2>1. Haircut(net, size) = IF cut >= 1 THEN cut ELSE 1
      BY <1>4 DEF Haircut
    <2> HIDE DEF cut
    <2> QED BY <1>2, <1>3, <2>1
  <1>5. CASE ~ (net >= FatKnee /\ FatNum < FatDen)
    BY <1>5 DEF Haircut
  <1> QED BY <1>4, <1>5

\* The clipped size is a natural number within each of the three rooms.
LEMMA ClippedFits ==
  ASSUME RiskAssumption, NEW net \in Int, NEW depth \in Nat,
         NEW pair \in Nat, NEW cluster \in Nat, NEW all \in Nat,
         pair <= MaxPerPair, cluster <= MaxPerCluster, all <= MaxTotal
  PROVE  LET size == Clipped(net, depth, pair, cluster, all) IN
         /\ size \in Nat
         /\ size <= depth /\ size <= MaxContracts
         /\ size <= RoomFor(MaxPerPair, pair, CostPer(net))
         /\ size <= RoomFor(MaxPerCluster, cluster, CostPer(net))
         /\ size <= RoomFor(MaxTotal, all, CostPer(net))
  <1>1. /\ RoomFor(MaxPerPair, pair, CostPer(net)) \in Nat
        /\ RoomFor(MaxPerCluster, cluster, CostPer(net)) \in Nat
        /\ RoomFor(MaxTotal, all, CostPer(net)) \in Nat
    BY CostPositive, RoomFits DEF RiskAssumption
  <1> QED BY <1>1 DEF Clipped, Affordable, Least, RiskAssumption

\* An approved size, times its cost, fits what is left of every notional cap; a rejection is 0.
THEOREM ApprovedSizeFits ==
  ASSUME RiskAssumption, NEW net \in Int, NEW depth \in Nat,
         NEW pair \in Nat, NEW cluster \in Nat, NEW all \in Nat, NEW open \in Nat,
         pair <= MaxPerPair, cluster <= MaxPerCluster, all <= MaxTotal
  PROVE  LET size == ApprovedSize(net, depth, pair, cluster, all, open) IN
         /\ size \in Nat
         /\ size > 0 => /\ open < MaxConcurrent
                        /\ pair + CostPer(net) * size <= MaxPerPair
                        /\ cluster + CostPer(net) * size <= MaxPerCluster
                        /\ all + CostPer(net) * size <= MaxTotal
  <1> DEFINE size == ApprovedSize(net, depth, pair, cluster, all, open)
             clip == Clipped(net, depth, pair, cluster, all)
             pairRoom == RoomFor(MaxPerPair, pair, CostPer(net))
             clusterRoom == RoomFor(MaxPerCluster, cluster, CostPer(net))
             totalRoom == RoomFor(MaxTotal, all, CostPer(net))
  <1>1. CASE ~ Admissible(net, pair, cluster, all, open)
    BY <1>1 DEF ApprovedSize
  <1>2. CASE Admissible(net, pair, cluster, all, open)
    <2>1. clip \in Nat /\ clip <= pairRoom /\ clip <= clusterRoom /\ clip <= totalRoom
      BY ClippedFits
    <2>2. pairRoom \in Nat /\ clusterRoom \in Nat /\ totalRoom \in Nat
      BY CostPositive, RoomFits DEF RiskAssumption
    <2>3. pairRoom >= 1 /\ clusterRoom >= 1 /\ totalRoom >= 1 /\ open < MaxConcurrent
      BY <1>2, <2>2 DEF Admissible
    <2>4. size = Haircut(net, clip)
      BY <1>2 DEF ApprovedSize
    <2> HIDE DEF clip, pairRoom, clusterRoom, totalRoom
    <2>5. size \in Nat /\ (size <= clip \/ size = 1)
      BY <2>1, <2>4, HaircutShrinks
    <2> HIDE DEF size
    <2>6. size <= pairRoom /\ size <= clusterRoom /\ size <= totalRoom
      BY <2>1, <2>2, <2>3, <2>5
    <2>7. CostPer(net) \in Nat \ {0}
      BY CostPositive
    <2>8. MaxPerPair \in Nat /\ MaxPerCluster \in Nat /\ MaxTotal \in Nat
      BY DEF RiskAssumption
    <2>9. /\ pair + CostPer(net) * size <= MaxPerPair
          /\ cluster + CostPer(net) * size <= MaxPerCluster
          /\ all + CostPer(net) * size <= MaxTotal
      BY <2>5, <2>6, <2>7, <2>8, SizeFits DEF pairRoom, clusterRoom, totalRoom
    <2> QED BY <2>3, <2>5, <2>9 DEF size
  <1> QED BY <1>1, <1>2

\* The approved size is a number of contracts even where a bucket is past its cap.
LEMMA ApprovedSizeTyped ==
  ASSUME RiskAssumption, NEW net \in Int, NEW depth \in Nat,
         NEW pair \in Nat, NEW cluster \in Nat, NEW all \in Nat, NEW open \in Nat
  PROVE  ApprovedSize(net, depth, pair, cluster, all, open) \in Nat
  <1>1. ASSUME NEW cap \in Nat, NEW used \in Nat
        PROVE  RoomFor(cap, used, CostPer(net)) \in Nat
    <2>1. CASE cap > used
      <3>1. cap - used \in Nat
        BY <2>1
      <3> QED BY <2>1, <3>1, CostPositive, DivFloor DEF RoomFor
    <2> QED BY <2>1 DEF RoomFor
  <1>2. Clipped(net, depth, pair, cluster, all) \in Nat
    BY <1>1 DEF Clipped, Affordable, Least, RiskAssumption
  <1> QED BY <1>2, HaircutShrinks DEF ApprovedSize

(***************************************************************************)
(* Typing lemmas                                                           *)
(***************************************************************************)

USE RiskAssumption, BookkeepingAssumption

LEMMA VenueFacts ==
  /\ Kalshi \in Venues /\ Pmus \in Venues /\ Kalshi # Pmus
  /\ \A v \in Venues : Other(v) \in Venues /\ Other(v) # v
  BY DEF Venues, Kalshi, Pmus, Other

LEMMA AnswerTyped ==
  /\ \A r \in Results : Answer(r) \in Ack
  /\ \A n \in Nat : Fill(n) \in Ack
  BY DEF Answer, Fill, Ack, Results

LEMMA NewTaskTyped ==
  ASSUME NEW kind \in Kinds, NEW s \in Slugs, NEW id \in Nat, NEW leg \in Leg,
         NEW lots \in Nat, NEW first \in Venues
  PROVE  /\ NewTask(kind, s, id, leg, lots, first) \in Task
         /\ NewTask(kind, s, id, leg, lots, first).kind = kind
         /\ NewTask(kind, s, id, leg, lots, first).slug = s
         /\ NewTask(kind, s, id, leg, lots, first).leg = leg
  <1>1. [v \in Venues |-> Answer("wait")] \in [Venues -> Ack]
    BY AnswerTyped DEF Results
  <1> QED BY <1>1 DEF NewTask, Task

LEMMA CoidTyped ==
  ASSUME NEW t \in Task
  PROVE  CoidOf(t) \in Coid
  BY DEF CoidOf, Coid, Task, Leg, KalshiSlot

\* What a venue answers, moves and leaves resting.
LEMMA AnswersTyped ==
  ASSUME NEW t \in Task, NEW v \in Venues, NEW a \in Answers(t, v)
  PROVE  a.ack \in Ack /\ a.moved \in Nat /\ a.rests \in Nat
  <1>1. t.lots \in Nat
    BY DEF Task
  <1>2. \A p \in Partials(v, t.lots) : p \in Nat /\ t.lots - p \in Nat
    BY <1>1 DEF Partials, Lot
  <1>3. Unheard(t) \subseteq Nat /\ Unread(t) \subseteq Nat
    BY <1>1 DEF Unheard, Unread
  <1>4. \A n \in Nat : Rests(t, n) \subseteq Nat
    BY DEF Rests
  <1>5. ASSUME NEW acks \in SUBSET Ack, NEW moves \in SUBSET Nat, NEW rests \in SUBSET Nat,
               NEW b \in Replies(acks, moves, rests)
        PROVE  b.ack \in Ack /\ b.moved \in Nat /\ b.rests \in Nat
    BY DEF Replies
  <1>6. /\ \A r \in Results : {Answer(r)} \subseteq Ack
        /\ {Answer("vague"), Answer("limited")} \subseteq Ack
        /\ \A n \in Nat : {Fill(n)} \subseteq Ack
    BY AnswerTyped DEF Results
  <1>7. {"vague", "ok", "rejected", "limited"} \subseteq Results
    BY DEF Results
  <1>8. {0} \subseteq Nat /\ \A n \in Nat : {n} \subseteq Nat
    OBVIOUS
  <1>9. CASE a \in Replies({Answer("vague")}, {0}, {0})
    BY <1>5, <1>6, <1>7, <1>8, <1>9
  <1>10. CASE a \in Replies({Fill(t.lots)}, {t.lots}, {0})
    BY <1>1, <1>5, <1>6, <1>8, <1>10
  <1>11. CASE \E p \in Partials(v, t.lots) : a \in Replies({Fill(p)}, {p}, Rests(t, t.lots - p))
    BY <1>2, <1>4, <1>5, <1>6, <1>8, <1>11
  <1>12. CASE a \in Replies({Answer("ok")}, Unread(t), Rests(t, t.lots))
    BY <1>1, <1>3, <1>4, <1>5, <1>6, <1>7, <1>12
  <1>13. CASE a \in Replies({Answer("rejected")}, {0}, {0})
    BY <1>5, <1>6, <1>7, <1>8, <1>13
  <1>14. CASE a \in Replies({Answer("vague"), Answer("limited")}, Unheard(t), {0})
    BY <1>3, <1>5, <1>6, <1>8, <1>14
  <1>15. \/ a \in Replies({Answer("vague")}, {0}, {0})
         \/ a \in Replies({Fill(t.lots)}, {t.lots}, {0})
         \/ a \in UNION {Replies({Fill(p)}, {p}, Rests(t, t.lots - p)) : p \in Partials(v, t.lots)}
         \/ a \in Replies({Answer("ok")}, Unread(t), Rests(t, t.lots))
         \/ a \in Replies({Answer("rejected")}, {0}, {0})
         \/ a \in Replies({Answer("vague"), Answer("limited")}, Unheard(t), {0})
    BY DEF Answers
  <1> QED BY <1>9, <1>10, <1>11, <1>12, <1>13, <1>14, <1>15

LEMMA AdvancedTyped ==
  ASSUME NEW t \in Task, NEW phase \in {"first", "second", "done"}, NEW ack \in [Venues -> Ack]
  PROVE  /\ Advanced(t, phase, ack) \in Task
         /\ Advanced(t, phase, ack).kind = t.kind /\ Advanced(t, phase, ack).slug = t.slug
         /\ Advanced(t, phase, ack).leg = t.leg /\ Advanced(t, phase, ack).lots = t.lots
         /\ Advanced(t, phase, ack).ack = ack /\ Advanced(t, phase, ack).phase = phase
         /\ Advanced(t, phase, ack).first = t.first /\ Advanced(t, phase, ack).id = t.id
  BY DEF Advanced, Task

\* A task keeps its identity when its order is answered.
LEMMA AfterPostTyped ==
  ASSUME NEW t \in Task, NEW v \in Venues, NEW ack \in Ack
  PROVE  /\ AfterPost(t, v, ack) \in Task
         /\ AfterPost(t, v, ack).kind = t.kind /\ AfterPost(t, v, ack).slug = t.slug
         /\ AfterPost(t, v, ack).leg = t.leg /\ AfterPost(t, v, ack).lots = t.lots
  <1>1. [t.ack EXCEPT ![v] = ack] \in [Venues -> Ack]
    BY DEF Task
  <1>2. [w \in Venues |-> IF w = v THEN ack ELSE Answer("unsent")] \in [Venues -> Ack]
    BY AnswerTyped DEF Results
  <1>3. CASE t.kind = "Recovery" \/ t.phase = "second"
    BY <1>1, <1>3, AdvancedTyped DEF AfterPost
  <1>4. CASE ~ (t.kind = "Recovery" \/ t.phase = "second") /\ Filled(ack, t.lots)
    BY <1>1, <1>4, AdvancedTyped DEF AfterPost
  <1>5. CASE ~ (t.kind = "Recovery" \/ t.phase = "second") /\ ~ Filled(ack, t.lots)
    BY <1>2, <1>5, AdvancedTyped DEF AfterPost
  <1> QED BY <1>3, <1>4, <1>5

LEMMA PostedAtTyped ==
  ASSUME NEW t \in Task
  PROVE  PostedAt(t) \in Venues
  BY VenueFacts DEF PostedAt, Task

LEMMA NotionalTyped ==
  ASSUME NEW leg \in Leg
  PROVE  Notional(leg) \in Nat
  BY DEF Notional, Leg

LEMMA SaturatingTyped ==
  ASSUME NEW a \in Nat, NEW b \in Nat
  PROVE  Saturating(a, b) \in Nat /\ Saturating(a, b) <= a
  BY DEF Saturating

LEMMA ClusterTyped ==
  ASSUME NEW s \in Slugs
  PROVE  Cluster[s] \in Clusters
  BY DEF BookkeepingAssumption

LEMMA ReserveTyped ==
  ASSUME ExposureTyped, NEW s \in Slugs, NEW leg \in Leg, Reserve(s, leg)
  PROVE  ExposureTyped'
  BY NotionalTyped, ClusterTyped DEF ExposureTyped, Reserve

LEMMA SubtractTyped ==
  ASSUME ExposureTyped, NEW s \in Slugs, NEW leg \in Leg, Subtract(s, leg)
  PROVE  ExposureTyped'
  BY NotionalTyped, SaturatingTyped, ClusterTyped DEF ExposureTyped, Subtract

\* What an outcome is: a task that is done.
LEMMA OutcomeTyped ==
  ASSUME TypeOK, NEW kind \in Kinds, NEW t \in Outcome(kind)
  PROVE  /\ t \in tasks /\ t \in Task /\ t.kind = kind /\ t.phase = "done"
         /\ t.slug \in Slugs /\ t.leg \in Leg /\ t.lots \in Nat /\ t.first \in Venues
         /\ t.ack \in [Venues -> Ack]
  BY DEF Outcome, TypeOK, Task

LEMMA HaltTyped ==
  ASSUME NEW s \in Slugs, alarmed \subseteq Slugs, halt \in BOOLEAN, Halt(s) \/ NoHalt
  PROVE  alarmed' \subseteq Slugs /\ halt' \in BOOLEAN
  BY DEF Halt, NoHalt

\* The leg a frame enters has the type of a held leg.
LEMMA EntryLegTyped ==
  ASSUME TypeOK, NEW s \in Slugs, NEW e \in Edges, NEW depth \in Depths
  PROVE  /\ SizeFor(s, e, depth) \in Nat
         /\ [idx |-> nextIdx[s], size |-> SizeFor(s, e, depth), cost |-> CostPer(e.net),
             net |-> e.net, dir |-> e.dir] \in Leg
  <1>1. e.net \in Int /\ e.dir \in Dirs /\ depth \in Nat
    BY DEF BookkeepingAssumption, Edge
  <1>2. /\ perPair[s] \in Nat /\ perCluster[Cluster[s]] \in Nat
        /\ total \in Nat /\ openPositions \in Nat /\ nextIdx[s] \in Nat
    BY ClusterTyped DEF TypeOK, ExposureTyped, LoopTyped
  <1>3. SizeFor(s, e, depth) \in Nat
    BY <1>1, <1>2, ApprovedSizeTyped DEF SizeFor
  <1>4. CostPer(e.net) \in Nat
    BY <1>1, CostPositive
  <1> QED BY <1>1, <1>2, <1>3, <1>4 DEF Leg

(***************************************************************************)
(* Type correctness                                                        *)
(***************************************************************************)

LEMMA FrameSeenTyped ==
  ASSUME TypeOK, NEW s \in Slugs, NEW e \in Edges, FrameSeen(s, e)
  PROVE  TypeOK'
  BY DEF TypeOK, ExposureTyped, LoopTyped, VenuesTyped, FrameSeen, ObserveEdge, exposure, venueVars

LEMMA FireEntryTyped ==
  ASSUME TypeOK, NEW s \in Slugs, NEW e \in Edges, NEW depth \in Depths, NEW first \in Venues,
         FireEntry(s, e, depth, first)
  PROVE  TypeOK'
  <1> DEFINE size == SizeFor(s, e, depth)
             leg == [idx |-> nextIdx[s], size |-> size, cost |-> CostPer(e.net),
                     net |-> e.net, dir |-> e.dir]
             new == NewTask("Entry", s, entriesFired, leg, Lot * size, first)
  <1>1. size \in Nat /\ leg \in Leg
    BY EntryLegTyped
  <1>2. new \in Task
    <2>1. Lot * size \in Nat /\ entriesFired \in Nat /\ "Entry" \in Kinds
      BY <1>1 DEF Lot, Kinds, TypeOK, LoopTyped
    <2> HIDE DEF size, leg
    <2> QED BY <1>1, <2>1, NewTaskTyped
  <1>3. Reserve(s, leg) /\ tasks' = tasks \cup {new}
    BY DEF FireEntry
  <1> HIDE DEF size, leg, new
  <1>4. ExposureTyped'
    BY <1>1, <1>3, ReserveTyped DEF TypeOK
  <1>5. (tasks \subseteq Task)'
    BY <1>2, <1>3 DEF TypeOK
  <1>6. LoopTyped'
    BY DEF FireEntry, ObserveEdge, LoopTyped, TypeOK
  <1>7. VenuesTyped'
    BY DEF FireEntry, venueVars, VenuesTyped, TypeOK
  <1> QED BY <1>4, <1>5, <1>6, <1>7 DEF TypeOK

LEMMA PostTyped ==
  ASSUME TypeOK, NEW t \in tasks, Post(t)
  PROVE  TypeOK'
  <1> DEFINE v == PostedAt(t)
  <1>1. t \in Task /\ t.slug \in Slugs /\ v \in Venues
    BY PostedAtTyped DEF TypeOK, Task
  <1>2. PICK a \in Answers(t, v) :
          /\ tasks' = (tasks \ {t}) \cup {AfterPost(t, v, a.ack)}
          /\ real' = [real EXCEPT ![t.slug][v] = @ + Moved(t, a.moved)]
          /\ resting' = [resting EXCEPT ![t.slug][v] = @ + a.rests]
          /\ coids' = IF v = Kalshi /\ Landed(a) THEN coids \cup {CoidOf(t)} ELSE coids
    BY DEF Post
  <1>3. a.ack \in Ack /\ a.moved \in Nat /\ a.rests \in Nat
    BY <1>1, AnswersTyped
  <1>4. (tasks \subseteq Task)'
    BY <1>1, <1>2, <1>3, AfterPostTyped DEF TypeOK
  <1>5. VenuesTyped'
    <2>1. Moved(t, a.moved) \in Int
      BY <1>3 DEF Moved
    <2>2. real' \in [Slugs -> [Venues -> Int]]
      BY <1>1, <1>2, <2>1 DEF TypeOK, VenuesTyped
    <2>3. resting' \in [Slugs -> [Venues -> Nat]]
      BY <1>1, <1>2, <1>3 DEF TypeOK, VenuesTyped
    <2>4. coids' \subseteq Coid
      BY <1>1, <1>2, CoidTyped DEF TypeOK, VenuesTyped
    <2> QED BY <2>2, <2>3, <2>4 DEF VenuesTyped
  <1>6. ExposureTyped' /\ LoopTyped'
    BY DEF Post, exposure, loopVars, TypeOK, ExposureTyped, LoopTyped
  <1> QED BY <1>4, <1>5, <1>6 DEF TypeOK

LEMMA PanicTyped ==
  ASSUME TypeOK, NEW t \in tasks, Panic(t)
  PROVE  TypeOK'
  <1>1. [v \in Venues |-> Answer("panic")] \in [Venues -> Ack]
    BY AnswerTyped DEF Results
  <1>2. Advanced(t, "done", [v \in Venues |-> Answer("panic")]) \in Task
    BY <1>1, AdvancedTyped DEF TypeOK
  <1>3. (tasks \subseteq Task)'
    BY <1>2 DEF Panic, TypeOK
  <1>4. ExposureTyped' /\ LoopTyped' /\ VenuesTyped'
    BY DEF Panic, exposure, loopVars, venueVars, TypeOK, ExposureTyped, LoopTyped, VenuesTyped
  <1> QED BY <1>3, <1>4 DEF TypeOK

LEMMA LateFillTyped ==
  ASSUME TypeOK, NEW s \in Slugs, NEW v \in Venues, LateFill(s, v)
  PROVE  TypeOK'
  <1>1. VenuesTyped'
    BY DEF LateFill, TypeOK, VenuesTyped
  <1>2. ExposureTyped' /\ LoopTyped' /\ (tasks \subseteq Task)'
    BY DEF LateFill, exposure, loopVars, TypeOK, ExposureTyped, LoopTyped
  <1> QED BY <1>1, <1>2 DEF TypeOK

LEMMA ApplyLockTyped ==
  ASSUME TypeOK, NEW t \in tasks, ApplyLock(t)
  PROVE  TypeOK'
  <1>1. t \in Outcome("Entry") /\ "Entry" \in Kinds
    BY DEF ApplyLock, Kinds
  <1>2. t.slug \in Slugs /\ t.leg \in Leg
    BY <1>1, OutcomeTyped
  <1>3. positions' \in [Slugs -> Seq(Leg)]
    BY <1>2, AppendProperties DEF ApplyLock, TypeOK, LoopTyped
  <1>4. nextIdx' \in [Slugs -> Nat]
    BY <1>2 DEF ApplyLock, TypeOK, LoopTyped
  <1>5. LoopTyped'
    BY <1>3, <1>4 DEF ApplyLock, TypeOK, LoopTyped
  <1>6. ExposureTyped' /\ (tasks \subseteq Task)' /\ VenuesTyped'
    BY DEF ApplyLock, exposure, venueVars, TypeOK, ExposureTyped, VenuesTyped
  <1> QED BY <1>5, <1>6 DEF TypeOK

\* What every missed entry leaves typed: all but the tasks, the flatten slot and the kill-switch.
LEMMA EntryMissedTyped ==
  ASSUME TypeOK, NEW t \in tasks, EntryMissed(t)
  PROVE  /\ t \in Task /\ t.slug \in Slugs
         /\ ExposureTyped' /\ VenuesTyped'
         /\ (positions \in [Slugs -> Seq(Leg)])' /\ (pending \subseteq Slugs)'
         /\ (nextIdx \in [Slugs -> Nat])' /\ (edgeLive \subseteq Slugs)'
         /\ (entriesFired \in Nat)' /\ (unwindsFired \in Nat)' /\ (running \in BOOLEAN)'
  <1>1. t \in Outcome("Entry") /\ "Entry" \in Kinds
    BY DEF EntryMissed, Kinds
  <1>2. t \in Task /\ t.slug \in Slugs /\ t.leg \in Leg
    BY <1>1, OutcomeTyped
  <1>3. ExposureTyped'
    BY <1>2, SubtractTyped DEF EntryMissed, TypeOK
  <1>4. nextIdx' \in [Slugs -> Nat]
    BY <1>2 DEF EntryMissed, TypeOK, LoopTyped
  <1>5. VenuesTyped'
    BY DEF EntryMissed, venueVars, TypeOK, VenuesTyped
  <1> QED BY <1>2, <1>3, <1>4, <1>5 DEF EntryMissed, TypeOK, LoopTyped

LEMMA CleanAbortTyped ==
  ASSUME TypeOK, NEW t \in tasks, ApplyCleanAbort(t)
  PROVE  TypeOK'
  <1>1. EntryMissed(t) /\ tasks' = tasks \ {t} /\ NoHalt /\ flattening' = flattening
    BY DEF ApplyCleanAbort
  <1> QED BY <1>1, EntryMissedTyped DEF NoHalt, TypeOK, LoopTyped

LEMMA AmbiguousAbortTyped ==
  ASSUME TypeOK, NEW t \in tasks, ApplyAmbiguousAbort(t)
  PROVE  TypeOK'
  <1>1. EntryMissed(t) /\ tasks' = tasks \ {t} /\ (Halt(t.slug) \/ NoHalt) /\ flattening' = flattening
    BY DEF ApplyAmbiguousAbort
  <1>2. (alarmed \subseteq Slugs)' /\ (halt \in BOOLEAN)'
    BY <1>1, EntryMissedTyped, HaltTyped DEF TypeOK, LoopTyped
  <1> QED BY <1>1, <1>2, EntryMissedTyped DEF TypeOK, LoopTyped

LEMMA RecoverTyped ==
  ASSUME TypeOK, NEW t \in tasks, ApplyRecover(t)
  PROVE  TypeOK'
  <1>1. /\ EntryMissed(t) /\ NoHalt
        /\ flattening' = [flattening EXCEPT ![t.slug] = "Recovery"]
        /\ \/ tasks' = (tasks \ {t}) \cup RecoverySells(t)
           \/ tasks' = (tasks \ {t}) \cup {}
    BY DEF ApplyRecover
  <1>2. RecoverySells(t) \subseteq Task
    <2>1. ASSUME NEW v \in NakedVenues(t.ack)
          PROVE  NewTask("Recovery", t.slug, t.id, t.leg, t.ack[v].qty, v) \in Task
      <3>1. v \in Venues /\ t.ack[v].qty \in Nat /\ t.id \in Nat /\ t.leg \in Leg /\ t.slug \in Slugs
        BY <1>1, EntryMissedTyped DEF NakedVenues, Task, Ack
      <3> QED BY <3>1, NewTaskTyped DEF Kinds
    <2> QED BY <2>1 DEF RecoverySells
  <1>3. (tasks \subseteq Task)'
    BY <1>1, <1>2 DEF TypeOK
  <1>4. (flattening \in [Slugs -> Slots])'
    BY <1>1 DEF TypeOK, LoopTyped, Slots
  <1> QED BY <1>1, <1>3, <1>4, EntryMissedTyped DEF NoHalt, TypeOK, LoopTyped

LEMMA NakedHaltTyped ==
  ASSUME TypeOK, NEW t \in tasks, ApplyNakedHalt(t)
  PROVE  TypeOK'
  <1>1. EntryMissed(t) /\ tasks' = tasks \ {t} /\ (Halt(t.slug) \/ NoHalt) /\ flattening' = flattening
    BY DEF ApplyNakedHalt, FailClose
  <1>2. (alarmed \subseteq Slugs)' /\ (halt \in BOOLEAN)'
    BY <1>1, EntryMissedTyped, HaltTyped DEF TypeOK, LoopTyped
  <1> QED BY <1>1, <1>2, EntryMissedTyped DEF TypeOK, LoopTyped

LEMMA SpawnUnwindTyped ==
  ASSUME TypeOK, NEW s \in Slugs, SpawnUnwind(s)
  PROVE  TypeOK'
  <1> DEFINE leg == Head(positions[s])
             new == NewTask("Unwind", s, unwindsFired, leg, Lot * leg.size, Pmus)
  <1>1. leg \in Leg
    BY HeadTailProperties DEF SpawnUnwind, TypeOK, LoopTyped
  <1>2. tasks' = tasks \cup {new}
    BY DEF SpawnUnwind
  <1>3. new \in Task
    <2>1. Lot * leg.size \in Nat /\ unwindsFired \in Nat /\ "Unwind" \in Kinds
      BY <1>1 DEF Lot, Leg, Kinds, TypeOK, LoopTyped
    <2> HIDE DEF leg
    <2> QED BY <1>1, <2>1, NewTaskTyped, VenueFacts
  <1>4. (tasks \subseteq Task)'
    BY <1>2, <1>3 DEF TypeOK
  <1>5. LoopTyped'
    BY DEF SpawnUnwind, TypeOK, LoopTyped, Slots
  <1>6. ExposureTyped' /\ VenuesTyped'
    BY DEF SpawnUnwind, exposure, venueVars, TypeOK, ExposureTyped, VenuesTyped
  <1> QED BY <1>4, <1>5, <1>6 DEF TypeOK

LEMMA UnwoundTyped ==
  ASSUME TypeOK, NEW t \in tasks, ApplyUnwound(t)
  PROVE  TypeOK'
  <1>1. t.slug \in Slugs
    BY OutcomeTyped DEF ApplyUnwound, Kinds
  <1>2. positions[t.slug] # <<>> =>
          Head(positions[t.slug]) \in Leg /\ Tail(positions[t.slug]) \in Seq(Leg)
    BY <1>1, HeadTailProperties DEF TypeOK, LoopTyped
  <1>3. ExposureTyped' /\ positions' \in [Slugs -> Seq(Leg)]
    <2>1. CASE positions[t.slug] # <<>>
      BY <1>1, <1>2, <2>1, SubtractTyped DEF ApplyUnwound, TypeOK, LoopTyped
    <2>2. CASE positions[t.slug] = <<>>
      BY <2>2 DEF ApplyUnwound, exposure, TypeOK, LoopTyped, ExposureTyped
    <2> QED BY <2>1, <2>2
  <1>4. LoopTyped'
    BY <1>3 DEF ApplyUnwound, TypeOK, LoopTyped, Slots
  <1>5. (tasks \subseteq Task)' /\ VenuesTyped'
    BY DEF ApplyUnwound, venueVars, TypeOK, VenuesTyped
  <1> QED BY <1>3, <1>4, <1>5 DEF TypeOK

LEMMA UnwindFailedTyped ==
  ASSUME TypeOK, NEW t \in tasks, ApplyUnwindFailed(t)
  PROVE  TypeOK'
  <1>1. t.slug \in Slugs
    BY OutcomeTyped DEF ApplyUnwindFailed, Kinds
  <1>2. (alarmed \subseteq Slugs)' /\ (halt \in BOOLEAN)'
    BY <1>1, HaltTyped DEF ApplyUnwindFailed, FailClose, TypeOK, LoopTyped
  <1>3. LoopTyped'
    BY <1>2 DEF ApplyUnwindFailed, TypeOK, LoopTyped, Slots
  <1>4. ExposureTyped' /\ (tasks \subseteq Task)' /\ VenuesTyped'
    BY DEF ApplyUnwindFailed, exposure, venueVars, TypeOK, ExposureTyped, VenuesTyped
  <1> QED BY <1>3, <1>4 DEF TypeOK

LEMMA RecoveryTyped ==
  ASSUME TypeOK, NEW t \in tasks, ApplyRecovery(t)
  PROVE  TypeOK'
  <1>1. t.slug \in Slugs
    BY OutcomeTyped DEF ApplyRecovery, Kinds
  <1>2. (alarmed \subseteq Slugs)' /\ (halt \in BOOLEAN)'
    BY <1>1, HaltTyped DEF ApplyRecovery, TypeOK, LoopTyped
  <1>3. LoopTyped'
    BY <1>2 DEF ApplyRecovery, TypeOK, LoopTyped, Slots
  <1>4. ExposureTyped' /\ (tasks \subseteq Task)' /\ VenuesTyped'
    BY DEF ApplyRecovery, exposure, venueVars, TypeOK, ExposureTyped, VenuesTyped
  <1> QED BY <1>3, <1>4 DEF TypeOK

LEMMA SuperviseFatalTyped ==
  ASSUME TypeOK, SuperviseFatal
  PROVE  TypeOK'
  BY DEF SuperviseFatal, exposure, loopVars, venueVars, TypeOK, ExposureTyped, LoopTyped, VenuesTyped

LEMMA StutterTyped ==
  ASSUME TypeOK, UNCHANGED vars
  PROVE  TypeOK'
  BY DEF vars, exposure, loopVars, venueVars, TypeOK, ExposureTyped, LoopTyped, VenuesTyped

LEMMA InitTyped ==
  ASSUME Init
  PROVE  TypeOK
  <1>1. ExposureTyped /\ VenuesTyped /\ tasks \subseteq Task
    BY DEF Init, ExposureTyped, VenuesTyped
  <1>2. positions \in [Slugs -> Seq(Leg)]
    <2>1. <<>> \in Seq(Leg)
      BY EmptySeq
    <2> QED BY <2>1 DEF Init
  <1>3. LoopTyped
    BY <1>2 DEF Init, LoopTyped, Slots
  <1> QED BY <1>1, <1>3 DEF TypeOK

\* Every reachable state is well typed, whatever the venues answer and in whatever order: in
\* particular no exposure bucket ever goes below zero (bookkeeping.rs 27-37).
THEOREM TypeCorrect == Spec => []TypeOK
  <1>1. Init => TypeOK
    BY InitTyped
  <1>2. TypeOK /\ [Next]_vars => TypeOK'
    <2> SUFFICES ASSUME TypeOK, [Next]_vars PROVE TypeOK'
      OBVIOUS
    <2>1. ASSUME NEW s \in Slugs, NEW e \in Edges, FrameSeen(s, e) PROVE TypeOK'
      BY <2>1, FrameSeenTyped
    <2>2. ASSUME NEW s \in Slugs, NEW e \in Edges, NEW depth \in Depths, NEW first \in Venues,
                 FireEntry(s, e, depth, first)
          PROVE  TypeOK'
      BY <2>2, FireEntryTyped
    <2>3. ASSUME NEW t \in tasks, Post(t) \/ Panic(t) PROVE TypeOK'
      BY <2>3, PostTyped, PanicTyped
    <2>4. ASSUME NEW t \in tasks, ApplyEntry(t) PROVE TypeOK'
      BY <2>4, ApplyLockTyped, CleanAbortTyped, AmbiguousAbortTyped, RecoverTyped, NakedHaltTyped
         DEF ApplyEntry
    <2>5. ASSUME NEW t \in tasks, ApplyFlatten(t) PROVE TypeOK'
      BY <2>5, UnwoundTyped, UnwindFailedTyped, RecoveryTyped DEF ApplyFlatten
    <2>6. ASSUME NEW s \in Slugs, NEW v \in Venues, LateFill(s, v) PROVE TypeOK'
      BY <2>6, LateFillTyped
    <2>7. ASSUME NEW s \in Slugs, SpawnUnwind(s) PROVE TypeOK'
      BY <2>7, SpawnUnwindTyped
    <2>8. CASE SuperviseFatal
      BY <2>8, SuperviseFatalTyped
    <2>9. CASE UNCHANGED vars
      BY <2>9, StutterTyped
    <2> QED BY <2>1, <2>2, <2>3, <2>4, <2>5, <2>6, <2>7, <2>8, <2>9 DEF Next, ApplyOutcome
  <1> QED BY <1>1, <1>2, PTL DEF Spec

(***************************************************************************)
(* The caps                                                                *)
(***************************************************************************)

\* Only a fired entry, a missed entry and a completed unwind touch the exposure.
LEMMA ExposureSteps ==
  ASSUME TypeOK, [Next]_vars
  PROVE  \/ \E s \in Slugs, e \in Edges, depth \in Depths, first \in Venues :
              FireEntry(s, e, depth, first)
         \/ \E s \in Slugs, leg \in Leg : Subtract(s, leg)
         \/ UNCHANGED exposure
  <1>1. ASSUME NEW t \in tasks, EntryMissed(t)
        PROVE  \E s \in Slugs, leg \in Leg : Subtract(s, leg)
    <2>1. t.slug \in Slugs /\ t.leg \in Leg
      BY <1>1, OutcomeTyped DEF EntryMissed, Kinds
    <2> QED BY <1>1, <2>1 DEF EntryMissed
  <1>2. ASSUME NEW t \in tasks, ApplyUnwound(t)
        PROVE  (\E s \in Slugs, leg \in Leg : Subtract(s, leg)) \/ UNCHANGED exposure
    <2>1. t.slug \in Slugs
      BY <1>2, OutcomeTyped DEF ApplyUnwound, Kinds
    <2>2. CASE positions[t.slug] # <<>>
      <3>1. Head(positions[t.slug]) \in Leg
        BY <2>1, <2>2, HeadTailProperties DEF TypeOK, LoopTyped
      <3> QED BY <1>2, <2>1, <2>2, <3>1 DEF ApplyUnwound
    <2>3. CASE positions[t.slug] = <<>>
      BY <1>2, <2>3 DEF ApplyUnwound
    <2> QED BY <2>2, <2>3
  <1>3. ASSUME NEW t \in tasks, ApplyEntry(t)
        PROVE  EntryMissed(t) \/ UNCHANGED exposure
    BY <1>3 DEF ApplyEntry, ApplyLock, ApplyCleanAbort, ApplyAmbiguousAbort, ApplyRecover,
                ApplyNakedHalt
  <1>4. ASSUME NEW t \in tasks, ApplyFlatten(t)
        PROVE  ApplyUnwound(t) \/ UNCHANGED exposure
    BY <1>4 DEF ApplyFlatten, ApplyUnwindFailed, ApplyRecovery
  <1>5. ASSUME NEW t \in tasks, Post(t) \/ Panic(t) PROVE UNCHANGED exposure
    BY <1>5 DEF Post, Panic
  <1>6. ASSUME NEW s \in Slugs, NEW e \in Edges, FrameSeen(s, e) PROVE UNCHANGED exposure
    BY <1>6 DEF FrameSeen
  <1>7. ASSUME NEW s \in Slugs, NEW v \in Venues, LateFill(s, v) PROVE UNCHANGED exposure
    BY <1>7 DEF LateFill
  <1>8. ASSUME NEW s \in Slugs, SpawnUnwind(s) PROVE UNCHANGED exposure
    BY <1>8 DEF SpawnUnwind
  <1>9. SuperviseFatal \/ UNCHANGED vars => UNCHANGED exposure
    BY DEF SuperviseFatal, vars
  <1> QED BY <1>1, <1>2, <1>3, <1>4, <1>5, <1>6, <1>7, <1>8, <1>9 DEF Next, ApplyOutcome

LEMMA FireEntryCapped ==
  ASSUME TypeOK, CapsHold, NEW s \in Slugs, NEW e \in Edges, NEW depth \in Depths,
         NEW first \in Venues, FireEntry(s, e, depth, first)
  PROVE  CapsHold'
  <1> DEFINE c == Cluster[s]
             size == SizeFor(s, e, depth)
             leg == [idx |-> nextIdx[s], size |-> size, cost |-> CostPer(e.net),
                     net |-> e.net, dir |-> e.dir]
             n == CostPer(e.net) * size
  <1>1. c \in Clusters /\ e.net \in Int /\ depth \in Nat
    BY ClusterTyped DEF BookkeepingAssumption, Edge
  <1>2. /\ perPair[s] \in Nat /\ perCluster[c] \in Nat /\ total \in Nat /\ openPositions \in Nat
        /\ perPair[s] <= MaxPerPair /\ perCluster[c] <= MaxPerCluster /\ total <= MaxTotal
    BY <1>1 DEF TypeOK, ExposureTyped, CapsHold
  <1>3. size \in Nat /\ size > 0
    BY EntryLegTyped DEF FireEntry
  <1>4. /\ openPositions < MaxConcurrent
        /\ perPair[s] + n <= MaxPerPair /\ perCluster[c] + n <= MaxPerCluster
        /\ total + n <= MaxTotal
    BY <1>1, <1>2, <1>3, ApprovedSizeFits DEF SizeFor
  <1>5. Reserve(s, leg) /\ Notional(leg) = n
    BY DEF FireEntry, Notional
  <1> HIDE DEF c, size, leg, n
  <1>6. /\ perPair' = [perPair EXCEPT ![s] = @ + n]
        /\ perCluster' = [perCluster EXCEPT ![c] = @ + n]
        /\ total' = total + n /\ openPositions' = openPositions + 1
    BY <1>5 DEF Reserve, c
  <1>7. (\A r \in Slugs : perPair[r] <= MaxPerPair)'
    BY <1>4, <1>6 DEF TypeOK, ExposureTyped, CapsHold
  <1>8. (\A d \in Clusters : perCluster[d] <= MaxPerCluster)'
    BY <1>4, <1>6 DEF TypeOK, ExposureTyped, CapsHold
  <1>9. (openPositions <= MaxConcurrent)'
    BY <1>2, <1>4, <1>6 DEF RiskAssumption
  <1> QED BY <1>4, <1>6, <1>7, <1>8, <1>9 DEF CapsHold

LEMMA SubtractCapped ==
  ASSUME TypeOK, CapsHold, NEW s \in Slugs, NEW leg \in Leg, Subtract(s, leg)
  PROVE  CapsHold'
  <1>1. Notional(leg) \in Nat /\ Cluster[s] \in Clusters
    BY NotionalTyped, ClusterTyped
  <1>2. \A r \in Slugs : perPair'[r] <= perPair[r] /\ perPair'[r] \in Nat
    <2>1. perPair \in [Slugs -> Nat]
      BY DEF TypeOK, ExposureTyped
    <2>2. perPair' = [perPair EXCEPT ![s] = Saturating(@, Notional(leg))]
      BY DEF Subtract
    <2>3. Saturating(perPair[s], Notional(leg)) \in Nat
          /\ Saturating(perPair[s], Notional(leg)) <= perPair[s]
      BY <1>1, <2>1, SaturatingTyped
    <2> QED BY <2>1, <2>2, <2>3
  <1>3. \A d \in Clusters : perCluster'[d] <= perCluster[d] /\ perCluster'[d] \in Nat
    <2>1. perCluster \in [Clusters -> Nat]
      BY DEF TypeOK, ExposureTyped
    <2>2. perCluster' = [perCluster EXCEPT ![Cluster[s]] = Saturating(@, Notional(leg))]
      BY DEF Subtract
    <2>3. Saturating(perCluster[Cluster[s]], Notional(leg)) \in Nat
          /\ Saturating(perCluster[Cluster[s]], Notional(leg)) <= perCluster[Cluster[s]]
      BY <1>1, <2>1, SaturatingTyped
    <2> QED BY <1>1, <2>1, <2>2, <2>3
  <1>4. total' \in Nat /\ total' <= total /\ openPositions' \in Nat /\ openPositions' <= openPositions
    BY <1>1, SaturatingTyped DEF Subtract, TypeOK, ExposureTyped
  <1> QED BY <1>2, <1>3, <1>4 DEF CapsHold, TypeOK, ExposureTyped, RiskAssumption

\* For any number of slugs, clusters and entries in flight, no exposure bucket ever passes its cap:
\* an entry is sized against what is reserved, not against what is filled (bookkeeping.rs 9-11).
THEOREM CapsNeverPassed == Spec => []CapsHold
  <1>1. Init => CapsHold
    BY DEF Init, CapsHold, RiskAssumption
  <1>2. TypeOK /\ CapsHold /\ [Next]_vars => CapsHold'
    <2> SUFFICES ASSUME TypeOK, CapsHold, [Next]_vars PROVE CapsHold'
      OBVIOUS
    <2>1. CASE UNCHANGED exposure
      BY <2>1 DEF exposure, CapsHold
    <2> QED BY <2>1, ExposureSteps, FireEntryCapped, SubtractCapped
  <1> QED BY <1>1, <1>2, TypeCorrect, PTL DEF Spec

(***************************************************************************)
(* One entry in flight on a slug, and never with a recovery                *)
(***************************************************************************)

\* A task that leaves takes its slug's marker along exactly when it is an entry.
LEMMA TaskLeaves ==
  ASSUME InFlightMarked, NEW t \in tasks, tasks' = tasks \ {t},
         \/ t.kind = "Entry" /\ pending' = pending \ {t.slug}
         \/ t.kind # "Entry" /\ pending' = pending
  PROVE  InFlightMarked'
  BY DEF InFlightMarked, TasksOf

\* An entry that leaves flattens in its place takes its slug's marker along.
LEMMA TaskReplaced ==
  ASSUME InFlightMarked, NEW t \in tasks, t.kind = "Entry", pending' = pending \ {t.slug},
         NEW N, \A u \in N : u.kind # "Entry", tasks' = (tasks \ {t}) \cup N
  PROVE  InFlightMarked'
  BY DEF InFlightMarked, TasksOf

\* A task that moves on keeps its kind and its slug.
LEMMA TaskAdvances ==
  ASSUME InFlightMarked, NEW t \in tasks, NEW u, u.kind = t.kind, u.slug = t.slug,
         tasks' = (tasks \ {t}) \cup {u}, pending' = pending
  PROVE  InFlightMarked'
  BY DEF InFlightMarked, TasksOf

\* A flatten that is spawned changes nothing for the entries.
LEMMA FlattenSpawned ==
  ASSUME InFlightMarked, NEW u, u.kind # "Entry", tasks' = tasks \cup {u}, pending' = pending
  PROVE  InFlightMarked'
  BY DEF InFlightMarked, TasksOf

\* An entry is spawned only where none is in flight.
LEMMA EntrySpawned ==
  ASSUME InFlightMarked, NEW s \in Slugs, s \notin pending, NEW u, u.kind = "Entry", u.slug = s,
         tasks' = tasks \cup {u}, pending' = pending \cup {s}
  PROVE  InFlightMarked'
  BY DEF InFlightMarked, TasksOf

\* Whatever steps the tasks take, a slug is marked pending exactly while its one entry is in flight
\* (live.rs 82-86).
THEOREM OneEntryInFlight == Spec => []InFlightMarked
  <1>1. Init => InFlightMarked
    BY DEF Init, InFlightMarked, TasksOf
  <1>2. TypeOK /\ InFlightMarked /\ [Next]_vars => InFlightMarked'
    <2> SUFFICES ASSUME TypeOK, InFlightMarked, [Next]_vars PROVE InFlightMarked'
      OBVIOUS
    <2>1. ASSUME tasks' = tasks, pending' = pending PROVE InFlightMarked'
      BY <2>1 DEF InFlightMarked, TasksOf
    <2>2. ASSUME NEW s \in Slugs, NEW e \in Edges, FrameSeen(s, e) PROVE InFlightMarked'
      BY <2>1, <2>2 DEF FrameSeen
    <2>3. ASSUME NEW s \in Slugs, NEW e \in Edges, NEW depth \in Depths, NEW first \in Venues,
                 FireEntry(s, e, depth, first)
          PROVE  InFlightMarked'
      <3> DEFINE leg == [idx |-> nextIdx[s], size |-> SizeFor(s, e, depth), cost |-> CostPer(e.net),
                         net |-> e.net, dir |-> e.dir]
                 new == NewTask("Entry", s, entriesFired, leg, Lot * SizeFor(s, e, depth), first)
      <3>1. new.kind = "Entry" /\ new.slug = s
        BY DEF NewTask
      <3>2. s \notin pending /\ tasks' = tasks \cup {new} /\ pending' = pending \cup {s}
        BY <2>3 DEF FireEntry, Idle
      <3> HIDE DEF leg, new
      <3> QED BY <3>1, <3>2, EntrySpawned
    <2>4. ASSUME NEW t \in tasks, Post(t) PROVE InFlightMarked'
      <3>1. PICK a \in Answers(t, PostedAt(t)) :
              tasks' = (tasks \ {t}) \cup {AfterPost(t, PostedAt(t), a.ack)}
        BY <2>4 DEF Post
      <3>2. pending' = pending
        BY <2>4 DEF Post, loopVars
      <3>3. a.ack \in Ack /\ t \in Task
        BY PostedAtTyped, AnswersTyped DEF TypeOK
      <3> QED BY <3>1, <3>2, <3>3, PostedAtTyped, AfterPostTyped, TaskAdvances
    <2>5. ASSUME NEW t \in tasks, Panic(t) PROVE InFlightMarked'
      <3> DEFINE new == Advanced(t, "done", [v \in Venues |-> Answer("panic")])
      <3>1. new.kind = t.kind /\ new.slug = t.slug
        BY DEF Advanced
      <3>2. tasks' = (tasks \ {t}) \cup {new} /\ pending' = pending
        BY <2>5 DEF Panic, loopVars
      <3> HIDE DEF new
      <3> QED BY <3>1, <3>2, TaskAdvances
    <2>6. ASSUME NEW t \in tasks, ApplyEntry(t) PROVE InFlightMarked'
      <3>1. t.kind = "Entry" /\ pending' = pending \ {t.slug}
        BY <2>6 DEF ApplyEntry, ApplyLock, ApplyCleanAbort, ApplyAmbiguousAbort, ApplyRecover,
                    ApplyNakedHalt, EntryMissed, Outcome
      <3>2. tasks' = tasks \ {t} \/ tasks' = (tasks \ {t}) \cup RecoverySells(t)
        BY <2>6 DEF ApplyEntry, ApplyLock, ApplyCleanAbort, ApplyAmbiguousAbort, ApplyRecover,
                    ApplyNakedHalt
      <3>3. \A u \in RecoverySells(t) : u.kind # "Entry"
        BY DEF RecoverySells, NewTask
      <3> QED BY <3>1, <3>2, <3>3, TaskLeaves, TaskReplaced
    <2>7. ASSUME NEW t \in tasks, ApplyFlatten(t) PROVE InFlightMarked'
      <3>1. t.kind # "Entry" /\ tasks' = tasks \ {t} /\ pending' = pending
        BY <2>7 DEF ApplyFlatten, ApplyUnwound, ApplyUnwindFailed, ApplyRecovery, Outcome
      <3> QED BY <3>1, TaskLeaves
    <2>8. ASSUME NEW s \in Slugs, NEW v \in Venues, LateFill(s, v) PROVE InFlightMarked'
      BY <2>1, <2>8 DEF LateFill, loopVars
    <2>9. ASSUME NEW s \in Slugs, SpawnUnwind(s) PROVE InFlightMarked'
      <3> DEFINE new == NewTask("Unwind", s, unwindsFired, Head(positions[s]),
                                Lot * Head(positions[s]).size, Pmus)
      <3>1. new.kind = "Unwind"
        BY DEF NewTask
      <3>2. tasks' = tasks \cup {new} /\ pending' = pending
        BY <2>9 DEF SpawnUnwind
      <3> HIDE DEF new
      <3> QED BY <3>1, <3>2, FlattenSpawned
    <2>10. CASE SuperviseFatal \/ UNCHANGED vars
      BY <2>1, <2>10 DEF SuperviseFatal, vars, loopVars
    <2> QED BY <2>2, <2>3, <2>4, <2>5, <2>6, <2>7, <2>8, <2>9, <2>10 DEF Next, ApplyOutcome
  <1> QED BY <1>1, <1>2, TypeCorrect, PTL DEF Spec

\* An entry and a recovery never hold a slug together, so the branch that takes a naked leg for
\* covered by a recovery already in flight (bookkeeping.rs 596-598) is never taken for an entry.
THEOREM RecoveryHoldsAlone == Spec => []RecoverySlotExclusive
  <1>1. Init => RecoverySlotExclusive
    BY DEF Init, RecoverySlotExclusive
  <1>2. TypeOK /\ RecoverySlotExclusive /\ [Next]_vars => RecoverySlotExclusive'
    <2> SUFFICES ASSUME TypeOK, RecoverySlotExclusive, [Next]_vars PROVE RecoverySlotExclusive'
      OBVIOUS
    <2> pending \subseteq Slugs /\ flattening \in [Slugs -> Slots]
      BY DEF TypeOK, LoopTyped
    <2>1. ASSUME flattening' = flattening, pending' \subseteq pending PROVE RecoverySlotExclusive'
      BY <2>1 DEF RecoverySlotExclusive
    <2>2. ASSUME NEW s \in Slugs, NEW e \in Edges, FrameSeen(s, e) PROVE RecoverySlotExclusive'
      BY <2>1, <2>2 DEF FrameSeen
    <2>3. ASSUME NEW s \in Slugs, NEW e \in Edges, NEW depth \in Depths, NEW first \in Venues,
                 FireEntry(s, e, depth, first)
          PROVE  RecoverySlotExclusive'
      <3>1. /\ flattening[s] = "none" /\ flattening' = flattening /\ pending' = pending \cup {s}
        BY <2>3 DEF FireEntry, Idle
      <3> QED BY <3>1 DEF RecoverySlotExclusive
    <2>4. ASSUME NEW t \in tasks, Post(t) \/ Panic(t) PROVE RecoverySlotExclusive'
      BY <2>1, <2>4 DEF Post, Panic, loopVars
    <2>5. ASSUME NEW t \in tasks, ApplyEntry(t) PROVE RecoverySlotExclusive'
      <3>1. pending' = pending \ {t.slug}
        BY <2>5 DEF ApplyEntry, ApplyLock, ApplyCleanAbort, ApplyAmbiguousAbort, ApplyRecover,
                    ApplyNakedHalt, EntryMissed
      <3>2. \/ flattening' = flattening
            \/ flattening' = [flattening EXCEPT ![t.slug] = "Recovery"]
        BY <2>5 DEF ApplyEntry, ApplyLock, ApplyCleanAbort, ApplyAmbiguousAbort, ApplyRecover,
                    ApplyNakedHalt
      <3> QED BY <3>1, <3>2 DEF RecoverySlotExclusive
    <2>6. ASSUME NEW t \in tasks, ApplyFlatten(t) PROVE RecoverySlotExclusive'
      <3>1. pending' = pending /\ flattening' = [flattening EXCEPT ![t.slug] = "none"]
        BY <2>6 DEF ApplyFlatten, ApplyUnwound, ApplyUnwindFailed, ApplyRecovery
      <3> QED BY <3>1 DEF RecoverySlotExclusive
    <2>7. ASSUME NEW s \in Slugs, SpawnUnwind(s) PROVE RecoverySlotExclusive'
      <3>1. pending' = pending /\ flattening' = [flattening EXCEPT ![s] = "Unwind"]
        BY <2>7 DEF SpawnUnwind
      <3> QED BY <3>1 DEF RecoverySlotExclusive
    <2>8. ASSUME NEW s \in Slugs, NEW v \in Venues, LateFill(s, v) PROVE RecoverySlotExclusive'
      BY <2>1, <2>8 DEF LateFill, loopVars
    <2>9. CASE SuperviseFatal \/ UNCHANGED vars
      BY <2>1, <2>9 DEF SuperviseFatal, vars, loopVars
    <2> QED BY <2>2, <2>3, <2>4, <2>5, <2>6, <2>7, <2>8, <2>9 DEF Next, ApplyOutcome
  <1> QED BY <1>1, <1>2, TypeCorrect, PTL DEF Spec

(***************************************************************************)
(* What the tasks look like on their way                                   *)
(***************************************************************************)

Answered == {"ok", "rejected", "vague", "limited"}

\* What is known of a task's answers in each of its phases.
TaskShape(t) ==
  /\ t.lots > 0 /\ t.leg.size > 0
  /\ t.kind # "Recovery" => t.lots = Lot * t.leg.size
  /\ \A v \in Venues : t.ack[v].qty <= t.lots /\ (t.ack[v].res # "ok" => t.ack[v].qty = 0)
  /\ t.phase = "first" => \A v \in Venues : t.ack[v].res = "wait"
  /\ t.phase = "second" => /\ t.kind # "Recovery" /\ Filled(t.ack[t.first], t.lots)
                           /\ t.ack[Other(t.first)].res = "wait"
  /\ t.phase = "done" /\ t.kind # "Recovery" =>
       \/ \A v \in Venues : t.ack[v].res = "panic"
       \/ /\ t.ack[t.first].res \in Answered /\ ~ Filled(t.ack[t.first], t.lots)
          /\ t.ack[Other(t.first)].res = "unsent"
       \/ Filled(t.ack[t.first], t.lots) /\ t.ack[Other(t.first)].res \in Answered

TasksShaped ==
  /\ IsFiniteSet(tasks)
  /\ \A t \in tasks : TaskShape(t)
  /\ \A s \in Slugs : \A i \in DOMAIN positions[s] : positions[s][i].size > 0

\* An answer reads as a fill of at most what was asked for, or as none.
LEMMA AnswersFit ==
  ASSUME NEW t \in Task, NEW v \in Venues, NEW a \in Answers(t, v)
  PROVE  /\ a.ack.res \in Answered /\ a.ack.qty <= t.lots /\ (a.ack.res # "ok" => a.ack.qty = 0)
         /\ a.ack \in Ack
  <1>1. t.lots \in Nat
    BY DEF Task
  <1>2. a.ack \in {Answer("vague"), Answer("ok"), Answer("rejected"), Answer("limited"), Fill(t.lots)}
          \cup {Fill(p) : p \in Partials(v, t.lots)}
    BY DEF Answers, Replies
  <1>3. a.ack \in Ack
    BY AnswersTyped
  <1> QED BY <1>1, <1>2, <1>3 DEF Answer, Fill, Partials, Lot, Answered

\* The phases an answered order can leave its task in.
LEMMA AfterPostPhases ==
  ASSUME NEW t \in Task, NEW v \in Venues, NEW ack \in Ack, NEW u, u = AfterPost(t, v, ack)
  PROVE  /\ u.kind = t.kind /\ u.slug = t.slug /\ u.id = t.id /\ u.leg = t.leg /\ u.lots = t.lots
         /\ u.first = t.first /\ u.ack \in [Venues -> Ack] /\ u.ack[v] = ack
         /\ t.kind = "Recovery" \/ t.phase = "second" =>
              u.phase = "done" /\ u.ack[Other(v)] = t.ack[Other(v)]
         /\ t.kind # "Recovery" /\ t.phase # "second" /\ Filled(ack, t.lots) =>
              u.phase = "second" /\ u.ack[Other(v)] = t.ack[Other(v)]
         /\ t.kind # "Recovery" /\ t.phase # "second" /\ ~ Filled(ack, t.lots) =>
              u.phase = "done" /\ u.ack[Other(v)] = Answer("unsent")
  <1> DEFINE A1 == [t.ack EXCEPT ![v] = ack]
             A2 == [w \in Venues |-> IF w = v THEN ack ELSE Answer("unsent")]
  <1>1. A1 \in [Venues -> Ack] /\ A1[v] = ack /\ A1[Other(v)] = t.ack[Other(v)]
    BY VenueFacts DEF Task
  <1>2. A2 \in [Venues -> Ack] /\ A2[v] = ack /\ A2[Other(v)] = Answer("unsent")
    BY AnswerTyped, VenueFacts DEF Results
  <1>3. u = IF t.kind = "Recovery" \/ t.phase = "second" THEN Advanced(t, "done", A1)
            ELSE IF Filled(ack, t.lots) THEN Advanced(t, "second", A1)
            ELSE Advanced(t, "done", A2)
    BY DEF AfterPost
  <1> HIDE DEF A1, A2
  <1>4. CASE t.kind = "Recovery" \/ t.phase = "second"
    BY <1>1, <1>3, <1>4, AdvancedTyped
  <1>5. CASE ~ (t.kind = "Recovery" \/ t.phase = "second") /\ Filled(ack, t.lots)
    BY <1>1, <1>3, <1>5, AdvancedTyped
  <1>6. CASE ~ (t.kind = "Recovery" \/ t.phase = "second") /\ ~ Filled(ack, t.lots)
    BY <1>2, <1>3, <1>6, AdvancedTyped
  <1> QED BY <1>4, <1>5, <1>6

\* An answered order leaves its task in shape.
LEMMA AfterPostShaped ==
  ASSUME NEW t \in Task, TaskShape(t), t.phase # "done", NEW a \in Answers(t, PostedAt(t)),
         NEW u, u = AfterPost(t, PostedAt(t), a.ack)
  PROVE  TaskShape(u)
  <1> DEFINE v == PostedAt(t)
  <1>1. /\ v \in Venues /\ Other(v) \in Venues /\ Venues = {v, Other(v)} /\ Other(Other(v)) = v
        /\ t.first \in Venues /\ Other(t.first) \in Venues /\ Other(Other(t.first)) = t.first
        /\ v = IF t.phase = "first" THEN t.first ELSE Other(t.first)
    BY VenueFacts DEF PostedAt, Task, Venues, Other, Kalshi, Pmus
  <1>2. /\ a.ack.res \in Answered /\ a.ack.qty <= t.lots /\ (a.ack.res # "ok" => a.ack.qty = 0)
        /\ a.ack \in Ack
    BY <1>1, AnswersFit
  <1>3. t.phase \in {"first", "second"} /\ t.ack[Other(v)] \in Ack /\ t.lots \in Nat
    BY <1>1 DEF Task
  <1>4. Answer("unsent").qty = 0 /\ Answer("unsent").res = "unsent"
    BY DEF Answer
  <1> HIDE DEF v
  <1>5. /\ u.kind = t.kind /\ u.leg = t.leg /\ u.lots = t.lots /\ u.first = t.first
        /\ u.ack[v] = a.ack
        /\ t.kind = "Recovery" \/ t.phase = "second" =>
             u.phase = "done" /\ u.ack[Other(v)] = t.ack[Other(v)]
        /\ t.kind # "Recovery" /\ t.phase # "second" /\ Filled(a.ack, t.lots) =>
             u.phase = "second" /\ u.ack[Other(v)] = t.ack[Other(v)]
        /\ t.kind # "Recovery" /\ t.phase # "second" /\ ~ Filled(a.ack, t.lots) =>
             u.phase = "done" /\ u.ack[Other(v)] = Answer("unsent")
    BY <1>1, <1>2, AfterPostPhases DEF v
  <1>6. \A w \in Venues : u.ack[w].qty <= t.lots /\ (u.ack[w].res # "ok" => u.ack[w].qty = 0)
    BY <1>1, <1>2, <1>3, <1>4, <1>5 DEF TaskShape
  <1>7. CASE t.phase = "first"
    BY <1>1, <1>2, <1>3, <1>4, <1>5, <1>6, <1>7 DEF TaskShape
  <1>8. CASE t.phase = "second"
    BY <1>1, <1>2, <1>3, <1>4, <1>5, <1>6, <1>8 DEF TaskShape
  <1> QED BY <1>3, <1>7, <1>8

(***************************************************************************)
(* What the steps do to the tasks                                          *)
(***************************************************************************)

\* A submission just spawned is in shape.
LEMMA NewTaskShaped ==
  ASSUME NEW kind \in Kinds, NEW s, NEW id, NEW leg, NEW lots \in Nat, NEW first,
         lots > 0, leg.size > 0, kind # "Recovery" => lots = Lot * leg.size,
         NEW u, u = NewTask(kind, s, id, leg, lots, first)
  PROVE  TaskShape(u) /\ u.phase = "first"
  BY DEF NewTask, TaskShape, Answer

\* What a frame that fires an entry does: it spawns the task u of the leg.
Entered(s, e, u, leg) ==
  /\ tasks' = tasks \cup {u} /\ Reserve(s, leg) /\ pending' = pending \cup {s}
  /\ u.kind = "Entry" /\ u.slug = s /\ u.id = entriesFired /\ u.leg = leg
  /\ TaskShape(u) /\ u.phase = "first"
  /\ leg.idx = nextIdx[s] /\ leg.dir = e.dir /\ leg.net = e.net
  /\ positions[s] # <<>> => QualifyingAdd(positions[s], e, s \in edgeLive)
  /\ ~ halt /\ s \notin pending /\ flattening[s] = "none"
  /\ UNCHANGED <<positions, flattening, nextIdx, halt, running, venueVars, alarmed, unwindsFired>>
  /\ entriesFired' = entriesFired + 1

LEMMA EntryFired ==
  ASSUME TypeOK, NEW s \in Slugs, NEW e \in Edges, NEW depth \in Depths, NEW first \in Venues,
         FireEntry(s, e, depth, first)
  PROVE  \E u \in Task, leg \in Leg : Entered(s, e, u, leg)
  <1> DEFINE size == SizeFor(s, e, depth)
             leg == [idx |-> nextIdx[s], size |-> size, cost |-> CostPer(e.net),
                     net |-> e.net, dir |-> e.dir]
             u == NewTask("Entry", s, entriesFired, leg, Lot * size, first)
  <1>1. /\ tasks' = tasks \cup {u} /\ Reserve(s, leg) /\ pending' = pending \cup {s}
        /\ positions[s] # <<>> => QualifyingAdd(positions[s], e, s \in edgeLive)
        /\ ~ halt /\ s \notin pending /\ flattening[s] = "none"
        /\ UNCHANGED <<positions, flattening, nextIdx, halt, running, venueVars, alarmed,
                       unwindsFired>>
        /\ entriesFired' = entriesFired + 1 /\ size > 0
    BY DEF FireEntry, Idle
  <1>2. size \in Nat /\ leg \in Leg
    BY EntryLegTyped
  <1>3. Lot * size \in Nat /\ Lot * size > 0 /\ entriesFired \in Nat /\ "Entry" \in Kinds
    BY <1>1, <1>2 DEF Lot, Kinds, TypeOK, LoopTyped
  <1>4. leg.idx = nextIdx[s] /\ leg.dir = e.dir /\ leg.net = e.net /\ leg.size = size
    OBVIOUS
  <1> HIDE DEF leg, size
  <1>5. u \in Task /\ u.kind = "Entry" /\ u.slug = s /\ u.leg = leg
    BY <1>2, <1>3, NewTaskTyped
  <1>6. u.id = entriesFired
    BY DEF NewTask
  <1>7. TaskShape(u) /\ u.phase = "first"
    BY <1>1, <1>3, <1>4, NewTaskShaped
  <1> HIDE DEF u
  <1>8. Entered(s, e, u, leg)
    BY <1>1, <1>4, <1>5, <1>6, <1>7 DEF Entered
  <1> QED BY <1>2, <1>5, <1>8

\* What an answered order does.
LEMMA OrderPosted ==
  ASSUME TypeOK, NEW t \in tasks, TaskShape(t), Post(t)
  PROVE  \E a \in Answers(t, PostedAt(t)), u \in Task :
           /\ u = AfterPost(t, PostedAt(t), a.ack) /\ tasks' = (tasks \ {t}) \cup {u}
           /\ TaskShape(u)
           /\ u.kind = t.kind /\ u.slug = t.slug /\ u.id = t.id /\ u.leg = t.leg
           /\ u.lots = t.lots /\ u.first = t.first
           /\ real' = [real EXCEPT ![t.slug][PostedAt(t)] = @ + Moved(t, a.moved)]
           /\ resting' = [resting EXCEPT ![t.slug][PostedAt(t)] = @ + a.rests]
           /\ coids' = IF PostedAt(t) = Kalshi /\ Landed(a) THEN coids \cup {CoidOf(t)} ELSE coids
           /\ UNCHANGED <<positions, exposure, loopVars, halt, running, alarmed, unwindsFired>>
  <1>1. PICK a \in Answers(t, PostedAt(t)) :
          /\ tasks' = (tasks \ {t}) \cup {AfterPost(t, PostedAt(t), a.ack)}
          /\ real' = [real EXCEPT ![t.slug][PostedAt(t)] = @ + Moved(t, a.moved)]
          /\ resting' = [resting EXCEPT ![t.slug][PostedAt(t)] = @ + a.rests]
          /\ coids' = IF PostedAt(t) = Kalshi /\ Landed(a) THEN coids \cup {CoidOf(t)} ELSE coids
    BY DEF Post
  <1>2. t \in Task /\ t.phase # "done" /\ PostedAt(t) \in Venues
    BY PostedAtTyped DEF TypeOK, Post
  <1>3. a.ack \in Ack
    BY <1>2, AnswersFit
  <1> DEFINE u == AfterPost(t, PostedAt(t), a.ack)
  <1>4. u \in Task
    BY <1>2, <1>3, AfterPostTyped
  <1>5. TaskShape(u)
    BY <1>2, AfterPostShaped
  <1>6. /\ u.kind = t.kind /\ u.slug = t.slug /\ u.id = t.id /\ u.leg = t.leg
        /\ u.lots = t.lots /\ u.first = t.first
    BY <1>2, <1>3, AfterPostPhases
  <1>7. UNCHANGED <<positions, exposure, loopVars, halt, running, alarmed, unwindsFired>>
    BY DEF Post
  <1> QED BY <1>1, <1>4, <1>5, <1>6, <1>7

\* What a panic leaves.
LEMMA TaskPanicked ==
  ASSUME TypeOK, NEW t \in tasks, TaskShape(t), Panic(t)
  PROVE  \E u \in Task :
           /\ tasks' = (tasks \ {t}) \cup {u} /\ TaskShape(u) /\ "panic" \in Quirks
           /\ u.kind = t.kind /\ u.slug = t.slug /\ u.id = t.id /\ u.leg = t.leg
           /\ u.lots = t.lots /\ u.first = t.first /\ u.phase = "done"
           /\ \A v \in Venues : u.ack[v] = Answer("panic")
           /\ UNCHANGED <<positions, exposure, loopVars, halt, running, venueVars, alarmed,
                          unwindsFired>>
  <1> DEFINE ack == [v \in Venues |-> Answer("panic")]
             u == Advanced(t, "done", ack)
  <1>1. t \in Task /\ ack \in [Venues -> Ack]
    BY AnswerTyped DEF Results, TypeOK
  <1>2. /\ u \in Task /\ u.kind = t.kind /\ u.slug = t.slug /\ u.id = t.id /\ u.leg = t.leg
        /\ u.lots = t.lots /\ u.first = t.first /\ u.phase = "done" /\ u.ack = ack
    BY <1>1, AdvancedTyped
  <1>3. tasks' = (tasks \ {t}) \cup {u} /\ "panic" \in Quirks
        /\ UNCHANGED <<positions, exposure, loopVars, halt, running, venueVars, alarmed, unwindsFired>>
    BY DEF Panic
  <1>4. TaskShape(u)
    <2>1. t.lots \in Nat
      BY <1>1 DEF Task
    <2> HIDE DEF u
    <2> QED BY <1>2, <2>1 DEF TaskShape, Answer
  <1>5. \A v \in Venues : u.ack[v] = Answer("panic")
    BY <1>2
  <1> HIDE DEF u, ack
  <1> QED BY <1>2, <1>3, <1>4, <1>5

\* What becomes of an entry's task when its outcome is applied.
LEMMA EntryApplied ==
  ASSUME TypeOK, NEW t \in tasks, TaskShape(t), ApplyEntry(t)
  PROVE  /\ t \in Task /\ t.kind = "Entry" /\ t.phase = "done" /\ t.slug \in Slugs
         /\ pending' = pending \ {t.slug}
         /\ \/ /\ ApplyLock(t) /\ tasks' = tasks \ {t} /\ BothFilled(t.ack, t.lots)
            \/ /\ EntryMissed(t) /\ tasks' = tasks \ {t} /\ ~ BothFilled(t.ack, t.lots)
               /\ positions' = positions
            \/ /\ ApplyRecover(t) /\ EntryMissed(t) /\ ~ BothFilled(t.ack, t.lots)
               /\ tasks' = (tasks \ {t}) \cup RecoverySells(t) /\ positions' = positions
               /\ flattening[t.slug] # "Recovery"
         /\ UNCHANGED <<edgeLive, entriesFired, running, venueVars, unwindsFired>>
         /\ halt => halt'
  <1>1. t \in Task /\ t.kind = "Entry" /\ t.phase = "done" /\ t.slug \in Slugs
    BY DEF TypeOK, Task, ApplyEntry, ApplyLock, ApplyCleanAbort, ApplyAmbiguousAbort,
           ApplyRecover, ApplyNakedHalt, EntryMissed, Outcome
  <1>2. CASE ApplyLock(t)
    BY <1>1, <1>2 DEF ApplyLock
  <1>3. CASE ApplyCleanAbort(t)
    BY <1>1, <1>3 DEF ApplyCleanAbort, EntryMissed, NoHalt
  <1>4. CASE ApplyAmbiguousAbort(t)
    BY <1>1, <1>4 DEF ApplyAmbiguousAbort, EntryMissed, NoHalt, Halt
  <1>5. CASE ApplyRecover(t)
    BY <1>1, <1>5 DEF ApplyRecover, EntryMissed, NoHalt
  <1>6. CASE ApplyNakedHalt(t)
    BY <1>1, <1>6 DEF ApplyNakedHalt, EntryMissed, FailClose, NoHalt, Halt
  <1> QED BY <1>2, <1>3, <1>4, <1>5, <1>6 DEF ApplyEntry

\* The SELLs a recovery spawns, at most one per venue.
LEMMA RecoveriesShaped ==
  ASSUME NEW t \in Task, TaskShape(t)
  PROVE  /\ IsFiniteSet(RecoverySells(t))
         /\ \A u \in RecoverySells(t) :
              /\ u \in Task /\ TaskShape(u) /\ u.kind = "Recovery" /\ u.slug = t.slug
              /\ u.id = t.id /\ u.leg = t.leg /\ u.phase = "first"
              /\ u.first \in NakedVenues(t.ack) /\ u.lots = t.ack[u.first].qty
  <1>1. ASSUME NEW u \in RecoverySells(t)
        PROVE  /\ u \in Task /\ TaskShape(u) /\ u.kind = "Recovery" /\ u.slug = t.slug
               /\ u.id = t.id /\ u.leg = t.leg /\ u.phase = "first"
               /\ u.first \in NakedVenues(t.ack) /\ u.lots = t.ack[u.first].qty
    <2>1. PICK v \in NakedVenues(t.ack) : u = NewTask("Recovery", t.slug, t.id, t.leg, t.ack[v].qty, v)
      BY DEF RecoverySells
    <2>2. /\ v \in Venues /\ t.ack[v].qty \in Nat /\ t.ack[v].qty > 0 /\ "Recovery" \in Kinds
          /\ t.slug \in Slugs /\ t.id \in Nat /\ t.leg \in Leg /\ t.leg.size > 0
      BY DEF NakedVenues, LiveFill, Task, Ack, Kinds, TaskShape
    <2>3. u \in Task /\ u.kind = "Recovery" /\ u.slug = t.slug /\ u.leg = t.leg
      BY <2>1, <2>2, NewTaskTyped
    <2>4. TaskShape(u) /\ u.phase = "first"
      BY <2>1, <2>2, NewTaskShaped
    <2>5. u.id = t.id /\ u.first = v /\ u.lots = t.ack[v].qty
      BY <2>1 DEF NewTask
    <2> QED BY <2>2, <2>3, <2>4, <2>5
  <1>2. IsFiniteSet(RecoverySells(t))
    <2> DEFINE N(v) == NewTask("Recovery", t.slug, t.id, t.leg, t.ack[v].qty, v)
    <2>1. RecoverySells(t) \subseteq {N(Kalshi), N(Pmus)}
      BY DEF RecoverySells, NakedVenues, Venues
    <2> HIDE DEF N
    <2>2. IsFiniteSet({N(Kalshi)} \cup {N(Pmus)})
      BY FS_Singleton, FS_AddElement
    <2>3. {N(Kalshi)} \cup {N(Pmus)} = {N(Kalshi), N(Pmus)}
      OBVIOUS
    <2> QED BY <2>1, <2>2, <2>3, FS_Subset
  <1> QED BY <1>1, <1>2

\* What becomes of a flatten's task.
LEMMA FlattenApplied ==
  ASSUME TypeOK, NEW t \in tasks, ApplyFlatten(t)
  PROVE  /\ t \in Task /\ t.kind # "Entry" /\ t.phase = "done" /\ t.slug \in Slugs
         /\ tasks' = tasks \ {t}
         /\ flattening' = [flattening EXCEPT ![t.slug] = "none"]
         /\ UNCHANGED <<pending, nextIdx, edgeLive, entriesFired, running, venueVars,
                        unwindsFired>>
         /\ halt => halt'
         /\ positions' = positions \/ ApplyUnwound(t)
  <1>1. t \in Task /\ t.kind # "Entry" /\ t.phase = "done" /\ t.slug \in Slugs
    BY DEF TypeOK, Task, ApplyFlatten, ApplyUnwound, ApplyUnwindFailed, ApplyRecovery, Outcome
  <1>2. CASE ApplyUnwound(t)
    BY <1>1, <1>2 DEF ApplyUnwound
  <1>3. CASE ApplyUnwindFailed(t)
    BY <1>1, <1>3 DEF ApplyUnwindFailed, FailClose, Halt, NoHalt
  <1>4. CASE ApplyRecovery(t)
    BY <1>1, <1>4 DEF ApplyRecovery, Halt, NoHalt
  <1> QED BY <1>2, <1>3, <1>4 DEF ApplyFlatten

\* What an unwind spawns.
LEMMA UnwindSpawned ==
  ASSUME TypeOK, TasksShaped, NEW s \in Slugs, SpawnUnwind(s)
  PROVE  \E u \in Task :
           /\ tasks' = tasks \cup {u} /\ TaskShape(u)
           /\ u.kind = "Unwind" /\ u.slug = s /\ u.id = unwindsFired
           /\ positions[s] # <<>> /\ u.leg = Head(positions[s]) /\ u.phase = "first"
           /\ flattening[s] = "none" /\ flattening' = [flattening EXCEPT ![s] = "Unwind"]
           /\ unwindsFired' = unwindsFired + 1
           /\ UNCHANGED <<positions, exposure, pending, nextIdx, edgeLive, entriesFired, halt,
                          running, venueVars, alarmed>>
  <1> DEFINE leg == Head(positions[s])
             u == NewTask("Unwind", s, unwindsFired, leg, Lot * leg.size, Pmus)
  <1>1. positions[s] \in Seq(Leg) /\ positions[s] # <<>>
    BY DEF SpawnUnwind, TypeOK, LoopTyped
  <1>2. leg \in Leg /\ leg.size > 0
    <2>1. leg = positions[s][1] /\ 1 \in DOMAIN positions[s] /\ leg \in Leg
      BY <1>1, HeadTailProperties
    <2> QED BY <2>1 DEF TasksShaped
  <1>3. /\ tasks' = tasks \cup {u} /\ flattening[s] = "none"
        /\ flattening' = [flattening EXCEPT ![s] = "Unwind"]
        /\ unwindsFired' = unwindsFired + 1
        /\ UNCHANGED <<positions, exposure, pending, nextIdx, edgeLive, entriesFired, halt,
                       running, venueVars, alarmed>>
    BY DEF SpawnUnwind
  <1> HIDE DEF leg
  <1>4. /\ Lot * leg.size \in Nat /\ Lot * leg.size > 0 /\ unwindsFired \in Nat
        /\ "Unwind" \in Kinds /\ Pmus \in Venues
    BY <1>2, VenueFacts DEF Lot, Leg, Kinds, TypeOK, LoopTyped
  <1>5. u \in Task /\ u.kind = "Unwind" /\ u.slug = s /\ u.leg = leg
    BY <1>2, <1>4, NewTaskTyped
  <1>6. TaskShape(u) /\ u.phase = "first"
    BY <1>2, <1>4, NewTaskShaped
  <1>7. u.id = unwindsFired
    BY DEF NewTask
  <1> HIDE DEF u
  <1> QED BY <1>1, <1>3, <1>5, <1>6, <1>7 DEF leg

\* A step that touches neither the tasks nor the money.
Idles ==
  /\ UNCHANGED <<positions, exposure, pending, flattening, nextIdx, entriesFired, tasks, venueVars,
                 alarmed, unwindsFired>>
  /\ halt => halt'

\* The steps there are.
LEMMA Steps ==
  ASSUME [Next]_vars
  PROVE  \/ \E s \in Slugs, e \in Edges, depth \in Depths, first \in Venues :
              FireEntry(s, e, depth, first)
         \/ \E t \in tasks : Post(t)
         \/ \E t \in tasks : Panic(t)
         \/ \E t \in tasks : ApplyEntry(t)
         \/ \E t \in tasks : ApplyFlatten(t)
         \/ \E s \in Slugs : SpawnUnwind(s)
         \/ \E s \in Slugs, v \in Venues : LateFill(s, v)
         \/ Idles
  <1>1. ASSUME NEW s \in Slugs, NEW e \in Edges, FrameSeen(s, e) PROVE Idles
    BY <1>1 DEF FrameSeen, Idles
  <1>2. ASSUME SuperviseFatal PROVE Idles
    BY <1>2 DEF SuperviseFatal, loopVars, Idles
  <1>3. ASSUME UNCHANGED vars PROVE Idles
    BY <1>3 DEF vars, loopVars, Idles
  <1> QED BY <1>1, <1>2, <1>3 DEF Next, ApplyOutcome

\* The shape of the tasks, and of the legs that stem from them, survives every step.
LEMMA TasksShapedStep ==
  ASSUME TypeOK, TasksShaped, [Next]_vars
  PROVE  TasksShaped'
  <1>1. tasks \subseteq Task /\ positions \in [Slugs -> Seq(Leg)] /\ IsFiniteSet(tasks)
    BY DEF TypeOK, LoopTyped, TasksShaped
  <1>2. ASSUME positions' = positions, NEW N, IsFiniteSet(N), \A u \in N : TaskShape(u),
               tasks' \subseteq tasks \cup N
        PROVE  TasksShaped'
    <2>1. IsFiniteSet(tasks')
      BY <1>1, <1>2, FS_Union, FS_Subset
    <2> QED BY <1>2, <2>1 DEF TasksShaped
  <1>3. ASSUME positions' = positions, NEW u, TaskShape(u), tasks' \subseteq tasks \cup {u}
        PROVE  TasksShaped'
    BY <1>2, <1>3, FS_Singleton
  <1>4. ASSUME positions' = positions, tasks' \subseteq tasks
        PROVE  TasksShaped'
    BY <1>2, <1>4, FS_EmptySet
  <1>5. ASSUME NEW t \in tasks, ApplyLock(t), tasks' = tasks \ {t} PROVE TasksShaped'
    <2>1. positions' = [positions EXCEPT ![t.slug] = Append(@, t.leg)] /\ t.leg \in Leg
          /\ t.leg.size > 0
      BY <1>1, <1>5 DEF ApplyLock, TasksShaped, TaskShape, Task
    <2>2. ASSUME NEW s \in Slugs, NEW i \in DOMAIN positions'[s] PROVE positions'[s][i].size > 0
      <3>1. CASE s = t.slug
        <4>1. positions'[s] = Append(positions[s], t.leg)
          BY <1>1, <2>1, <3>1
        <4>2. positions[s] \in Seq(Leg)
          BY <1>1
        <4>3. \/ i \in DOMAIN positions[s] /\ positions'[s][i] = positions[s][i]
              \/ positions'[s][i] = t.leg
          BY <2>1, <2>2, <4>1, <4>2, AppendProperties
        <4> QED BY <2>1, <4>3 DEF TasksShaped
      <3>2. CASE s # t.slug
        <4>1. positions'[s] = positions[s]
          BY <1>1, <2>1, <3>2
        <4> QED BY <2>2, <4>1 DEF TasksShaped
      <3> QED BY <3>1, <3>2
    <2>3. IsFiniteSet(tasks')
      BY <1>1, <1>5, FS_Subset
    <2> QED BY <1>5, <2>2, <2>3 DEF TasksShaped
  <1>6. ASSUME NEW t \in tasks, ApplyUnwound(t), tasks' = tasks \ {t} PROVE TasksShaped'
    <2>1. CASE positions[t.slug] = <<>>
      BY <1>4, <1>6, <2>1 DEF ApplyUnwound
    <2>2. CASE positions[t.slug] # <<>>
      <3>1. positions' = [positions EXCEPT ![t.slug] = Tail(@)] /\ t.slug \in Slugs
        BY <1>1, <1>6, <2>2 DEF ApplyUnwound, Task
      <3>2. ASSUME NEW s \in Slugs, NEW i \in DOMAIN positions'[s] PROVE positions'[s][i].size > 0
        <4>1. CASE s = t.slug
          <5>1. positions[s] \in Seq(Leg) /\ positions[s] # <<>> /\ positions'[s] = Tail(positions[s])
            BY <1>1, <2>2, <3>1, <4>1
          <5>2. i + 1 \in DOMAIN positions[s] /\ positions'[s][i] = positions[s][i + 1]
            BY <3>2, <5>1, HeadTailProperties
          <5> QED BY <5>2 DEF TasksShaped
        <4>2. CASE s # t.slug
          <5>1. positions'[s] = positions[s]
            BY <1>1, <3>1, <4>2
          <5> QED BY <3>2, <5>1 DEF TasksShaped
        <4> QED BY <4>1, <4>2
      <3>3. IsFiniteSet(tasks')
        BY <1>1, <1>6, FS_Subset
      <3> QED BY <1>6, <3>2, <3>3 DEF TasksShaped
    <2> QED BY <2>1, <2>2
  <1>7. ASSUME NEW s \in Slugs, NEW e \in Edges, NEW depth \in Depths, NEW first \in Venues,
               FireEntry(s, e, depth, first)
        PROVE  TasksShaped'
    <2>0. PICK u \in Task, leg \in Leg : Entered(s, e, u, leg)
      BY <1>7, EntryFired
    <2>1. /\ u \in Task
          /\ tasks' = tasks \cup {u} /\ TaskShape(u) /\ positions' = positions
      BY <2>0 DEF Entered
    <2> QED BY <1>3, <2>1
  <1>8. ASSUME NEW t \in tasks, Post(t) PROVE TasksShaped'
    <2>1. PICK u \in Task : tasks' = (tasks \ {t}) \cup {u} /\ TaskShape(u) /\ positions' = positions
      BY <1>8, OrderPosted DEF TasksShaped
    <2> QED BY <1>3, <2>1
  <1>9. ASSUME NEW t \in tasks, Panic(t) PROVE TasksShaped'
    <2>1. PICK u \in Task : tasks' = (tasks \ {t}) \cup {u} /\ TaskShape(u) /\ positions' = positions
      BY <1>9, TaskPanicked DEF TasksShaped
    <2> QED BY <1>3, <2>1
  <1>10. ASSUME NEW t \in tasks, ApplyEntry(t) PROVE TasksShaped'
    <2>1. /\ t \in Task /\ TaskShape(t)
          /\ \/ ApplyLock(t) /\ tasks' = tasks \ {t}
             \/ tasks' = tasks \ {t} /\ positions' = positions
             \/ tasks' = (tasks \ {t}) \cup RecoverySells(t) /\ positions' = positions
      BY <1>10, EntryApplied DEF TasksShaped
    <2>2. CASE tasks' = (tasks \ {t}) \cup RecoverySells(t) /\ positions' = positions
      <3>1. IsFiniteSet(RecoverySells(t)) /\ \A u \in RecoverySells(t) : TaskShape(u)
        BY <2>1, RecoveriesShaped
      <3> QED BY <1>2, <2>2, <3>1
    <2> QED BY <1>4, <1>5, <2>1, <2>2
  <1>11. ASSUME NEW t \in tasks, ApplyFlatten(t) PROVE TasksShaped'
    BY <1>4, <1>6, <1>11, FlattenApplied
  <1>12. ASSUME NEW s \in Slugs, SpawnUnwind(s) PROVE TasksShaped'
    <2>1. PICK u \in Task : tasks' = tasks \cup {u} /\ TaskShape(u) /\ positions' = positions
      BY <1>12, UnwindSpawned
    <2> QED BY <1>3, <2>1
  <1>13. ASSUME NEW s \in Slugs, NEW v \in Venues, LateFill(s, v) PROVE TasksShaped'
    BY <1>4, <1>13 DEF LateFill
  <1>14. CASE Idles
    BY <1>4, <1>14 DEF Idles
  <1> QED BY <1>7, <1>8, <1>9, <1>10, <1>11, <1>12, <1>13, <1>14, Steps

\* The tasks are in shape in every reachable state.
LEMMA TasksAlwaysShaped == Spec => [](TypeOK /\ TasksShaped)
  <1>1. Init => TasksShaped
    BY FS_EmptySet DEF Init, TasksShaped
  <1>2. TypeOK /\ TasksShaped /\ [Next]_vars => TasksShaped'
    BY TasksShapedStep
  <1> QED BY <1>1, <1>2, TypeCorrect, PTL DEF Spec

(***************************************************************************)
(* The order of the stack                                                  *)
(***************************************************************************)

\* The leg of an entry in flight still qualifies as an add to what is held by now.
EntriesFit ==
  \A t \in tasks : t.kind = "Entry" =>
    /\ \A i \in DOMAIN positions[t.slug] :
         /\ positions[t.slug][i].dir = t.leg.dir
         /\ t.leg.net >= positions[t.slug][i].net + AddTauGain
    /\ Len(positions[t.slug]) < MaxPositionsPerSlug \/ positions[t.slug] = <<>>

\* The legs of one slug, oldest first.
Stacked(held) ==
  /\ Len(held) <= MaxPositionsPerSlug \/ Len(held) <= 1
  /\ \A i, j \in DOMAIN held : i < j => /\ held[i].dir = held[j].dir
                                        /\ held[j].net >= held[i].net + AddTauGain

StackInv == TypeOK /\ InFlightMarked /\ TasksShaped /\ EntriesFit /\ StackOrdered

\* An ordered stack stays ordered under a leg that beats all of it.
LEMMA StackedGrows ==
  ASSUME NEW held \in Seq(Leg), NEW leg \in Leg, Stacked(held),
         \A i \in DOMAIN held : held[i].dir = leg.dir /\ leg.net >= held[i].net + AddTauGain,
         Len(held) < MaxPositionsPerSlug \/ held = <<>>
  PROVE  Stacked(Append(held, leg))
  <1> DEFINE new == Append(held, leg)
  <1>1. /\ new \in Seq(Leg) /\ Len(new) = Len(held) + 1 /\ Len(held) \in Nat
        /\ DOMAIN held = 1 .. Len(held) /\ DOMAIN new = 1 .. Len(held) + 1
        /\ \A i \in 1 .. Len(held) : new[i] = held[i]
        /\ new[Len(held) + 1] = leg
    BY AppendProperties
  <1> HIDE DEF new
  <1>2. Len(new) <= MaxPositionsPerSlug \/ Len(new) <= 1
    <2>1. held = <<>> => Len(held) = 0
      OBVIOUS
    <2> QED BY <1>1, <2>1
  <1>3. ASSUME NEW i \in DOMAIN new, NEW j \in DOMAIN new, i < j
        PROVE  new[i].dir = new[j].dir /\ new[j].net >= new[i].net + AddTauGain
    <2>1. i \in DOMAIN held /\ new[i] = held[i]
      BY <1>1, <1>3
    <2>2. CASE j \in DOMAIN held
      BY <1>1, <1>3, <2>1, <2>2 DEF Stacked
    <2>3. CASE j \notin DOMAIN held
      <3>1. new[j] = leg
        BY <1>1, <1>3, <2>3
      <3> QED BY <2>1, <3>1
    <2> QED BY <2>2, <2>3
  <1> QED BY <1>2, <1>3 DEF Stacked, new

\* An ordered stack stays ordered without its front leg.
LEMMA StackedShrinks ==
  ASSUME NEW held \in Seq(Leg), held # <<>>, Stacked(held)
  PROVE  Stacked(Tail(held))
  <1> DEFINE new == Tail(held)
  <1>1. /\ new \in Seq(Leg) /\ Len(new) = Len(held) - 1 /\ Len(held) \in Nat /\ Len(held) >= 1
        /\ DOMAIN held = 1 .. Len(held) /\ DOMAIN new = 1 .. Len(held) - 1
        /\ \A i \in 1 .. Len(held) - 1 : new[i] = held[i + 1]
    BY HeadTailProperties, EmptySeq
  <1> HIDE DEF new
  <1>2. Len(new) <= MaxPositionsPerSlug \/ Len(new) <= 1
    BY <1>1 DEF Stacked
  <1>3. ASSUME NEW i \in DOMAIN new, NEW j \in DOMAIN new, i < j
        PROVE  new[i].dir = new[j].dir /\ new[j].net >= new[i].net + AddTauGain
    <2>1. i + 1 \in DOMAIN held /\ j + 1 \in DOMAIN held /\ i + 1 < j + 1
      BY <1>1, <1>3
    <2>2. held[i + 1].dir = held[j + 1].dir /\ held[j + 1].net >= held[i + 1].net + AddTauGain
      BY <2>1 DEF Stacked
    <2>3. new[i] = held[i + 1] /\ new[j] = held[j + 1]
      BY <1>1, <1>3
    <2> QED BY <2>2, <2>3
  <1> QED BY <1>2, <1>3 DEF Stacked, new

\* The legs held change on two steps only, and the entries in flight only grow on the first of these.
LEMMA StackStep ==
  ASSUME StackInv, [Next]_vars
  PROVE  EntriesFit' /\ StackOrdered'
  <1>1. /\ tasks \subseteq Task /\ positions \in [Slugs -> Seq(Leg)]
        /\ TypeOK /\ TasksShaped /\ EntriesFit /\ \A t \in tasks : TaskShape(t)
        /\ \A s \in Slugs : Stacked(positions[s])
    BY DEF StackInv, TypeOK, LoopTyped, TasksShaped, StackOrdered, Stacked
  <1>2. ASSUME \A s \in Slugs : Stacked(positions'[s]) PROVE StackOrdered'
    BY <1>2 DEF StackOrdered, Stacked
  <1>3. ASSUME positions' = positions,
               \A u \in tasks' : u.kind = "Entry" =>
                 \E t \in tasks : t.kind = "Entry" /\ t.slug = u.slug /\ t.leg = u.leg
        PROVE  EntriesFit' /\ StackOrdered'
    <2>1. StackOrdered'
      BY <1>1, <1>2, <1>3
    <2>2. ASSUME NEW u \in tasks', u.kind = "Entry"
          PROVE  /\ \A i \in DOMAIN positions[u.slug] :
                      /\ positions[u.slug][i].dir = u.leg.dir
                      /\ u.leg.net >= positions[u.slug][i].net + AddTauGain
                 /\ Len(positions[u.slug]) < MaxPositionsPerSlug \/ positions[u.slug] = <<>>
      <3>1. PICK t \in tasks : t.kind = "Entry" /\ t.slug = u.slug /\ t.leg = u.leg
        BY <1>3, <2>2
      <3> QED BY <1>1, <3>1 DEF EntriesFit
    <2> QED BY <1>3, <2>1, <2>2 DEF EntriesFit
  <1>4. ASSUME NEW s \in Slugs, NEW e \in Edges, NEW depth \in Depths, NEW first \in Venues,
               FireEntry(s, e, depth, first)
        PROVE  EntriesFit' /\ StackOrdered'
    <2>0. PICK u \in Task, leg \in Leg : Entered(s, e, u, leg)
      <3>1. TypeOK
        BY <1>1
      <3> QED BY <1>4, <3>1, EntryFired
    <2>1. /\ u \in Task /\ leg \in Leg
          /\ tasks' = tasks \cup {u} /\ u.kind = "Entry" /\ u.slug = s /\ u.leg = leg
          /\ leg.dir = e.dir /\ leg.net = e.net /\ positions' = positions
          /\ positions[s] # <<>> => QualifyingAdd(positions[s], e, s \in edgeLive)
      BY <2>0 DEF Entered
    <2>2. StackOrdered'
      BY <1>1, <1>2, <2>1
    <2>3. /\ \A i \in DOMAIN positions[s] :
               positions[s][i].dir = leg.dir /\ leg.net >= positions[s][i].net + AddTauGain
          /\ Len(positions[s]) < MaxPositionsPerSlug \/ positions[s] = <<>>
      BY <2>1 DEF QualifyingAdd, SameDir
    <2> QED BY <1>1, <2>1, <2>2, <2>3 DEF EntriesFit
  <1>5. ASSUME NEW t \in tasks, Post(t) PROVE EntriesFit' /\ StackOrdered'
    <2>1. PICK u \in Task : /\ tasks' = (tasks \ {t}) \cup {u} /\ positions' = positions
                            /\ u.kind = t.kind /\ u.slug = t.slug /\ u.leg = t.leg
      BY <1>1, <1>5, OrderPosted
    <2> QED BY <1>3, <2>1
  <1>6. ASSUME NEW t \in tasks, Panic(t) PROVE EntriesFit' /\ StackOrdered'
    <2>1. PICK u \in Task : /\ tasks' = (tasks \ {t}) \cup {u} /\ positions' = positions
                            /\ u.kind = t.kind /\ u.slug = t.slug /\ u.leg = t.leg
      BY <1>1, <1>6, TaskPanicked
    <2> QED BY <1>3, <2>1
  <1>7. ASSUME NEW t \in tasks, ApplyEntry(t) PROVE EntriesFit' /\ StackOrdered'
    <2>1. /\ t \in Task /\ TaskShape(t) /\ t.kind = "Entry" /\ t.slug \in Slugs /\ t.leg \in Leg
          /\ \/ ApplyLock(t) /\ tasks' = tasks \ {t}
             \/ tasks' = tasks \ {t} /\ positions' = positions
             \/ tasks' = (tasks \ {t}) \cup RecoverySells(t) /\ positions' = positions
      BY <1>1, <1>7, EntryApplied DEF Task
    <2>2. CASE positions' = positions /\ tasks' = tasks \ {t}
      BY <1>3, <2>2
    <2>3. CASE positions' = positions /\ tasks' = (tasks \ {t}) \cup RecoverySells(t)
      <3>1. \A u \in RecoverySells(t) : u.kind # "Entry"
        BY <2>1, RecoveriesShaped
      <3> QED BY <1>3, <2>3, <3>1
    <2>4. CASE ApplyLock(t) /\ tasks' = tasks \ {t}
      <3>1. positions' = [positions EXCEPT ![t.slug] = Append(@, t.leg)]
        BY <2>4 DEF ApplyLock
      <3>2. /\ \A i \in DOMAIN positions[t.slug] : positions[t.slug][i].dir = t.leg.dir
                                        /\ t.leg.net >= positions[t.slug][i].net + AddTauGain
            /\ Len(positions[t.slug]) < MaxPositionsPerSlug \/ positions[t.slug] = <<>>
        BY <1>1, <2>1 DEF EntriesFit
      <3>3. Stacked(Append(positions[t.slug], t.leg))
        BY <1>1, <2>1, <3>2, StackedGrows
      <3>4. \A s \in Slugs : Stacked(positions'[s])
        BY <1>1, <2>1, <3>1, <3>3
      <3>5. ASSUME NEW u \in tasks', u.kind = "Entry" PROVE u \in tasks /\ positions'[u.slug] = positions[u.slug]
        <4>1. u \in tasks /\ u # t /\ u.slug \in Slugs
          BY <1>1, <2>4, <3>5 DEF Task
        <4>2. u.slug # t.slug
          BY <2>1, <3>5, <4>1 DEF StackInv, InFlightMarked, TasksOf
        <4> QED BY <1>1, <3>1, <4>1, <4>2
      <3>6. EntriesFit'
        BY <1>1, <3>5 DEF EntriesFit
      <3> QED BY <1>2, <3>4, <3>6
    <2> QED BY <2>1, <2>2, <2>3, <2>4
  <1>8. ASSUME NEW t \in tasks, ApplyFlatten(t) PROVE EntriesFit' /\ StackOrdered'
    <2>1. tasks' = tasks \ {t} /\ t.slug \in Slugs /\ (positions' = positions \/ ApplyUnwound(t))
      BY <1>1, <1>8, FlattenApplied
    <2>2. CASE positions' = positions
      BY <1>3, <2>1, <2>2
    <2>3. CASE ApplyUnwound(t) /\ positions' # positions
      <3>1. positions' = [positions EXCEPT ![t.slug] = Tail(@)] /\ positions[t.slug] # <<>>
        BY <2>3 DEF ApplyUnwound
      <3>2. Stacked(Tail(positions[t.slug]))
        BY <1>1, <2>1, <3>1, StackedShrinks
      <3>3. \A s \in Slugs : Stacked(positions'[s])
        BY <1>1, <2>1, <3>1, <3>2
      <3>4. ASSUME NEW u \in tasks', u.kind = "Entry", u.slug = t.slug
            PROVE  /\ \A i \in DOMAIN positions'[u.slug] :
                        /\ positions'[u.slug][i].dir = u.leg.dir
                        /\ u.leg.net >= positions'[u.slug][i].net + AddTauGain
                   /\ Len(positions'[u.slug]) < MaxPositionsPerSlug \/ positions'[u.slug] = <<>>
        <4> DEFINE held == positions[u.slug]
        <4>1. held \in Seq(Leg) /\ held # <<>> /\ positions'[u.slug] = Tail(held) /\ u \in tasks
          BY <1>1, <2>1, <3>1, <3>4
        <4>2. /\ \A i \in DOMAIN held : held[i].dir = u.leg.dir /\ u.leg.net >= held[i].net + AddTauGain
              /\ Len(held) < MaxPositionsPerSlug
          BY <1>1, <3>4, <4>1 DEF EntriesFit
        <4> HIDE DEF held
        <4>3. /\ Len(Tail(held)) = Len(held) - 1 /\ Len(held) \in Nat
              /\ DOMAIN held = 1 .. Len(held) /\ DOMAIN Tail(held) = 1 .. Len(held) - 1
              /\ \A i \in 1 .. Len(held) - 1 : Tail(held)[i] = held[i + 1]
          BY <4>1, HeadTailProperties
        <4>4. Len(Tail(held)) < MaxPositionsPerSlug
          BY <4>2, <4>3
        <4>5. ASSUME NEW i \in DOMAIN Tail(held)
              PROVE  i + 1 \in DOMAIN held /\ Tail(held)[i] = held[i + 1]
          BY <4>3, <4>5
        <4> QED BY <4>1, <4>2, <4>4, <4>5
      <3>5. ASSUME NEW u \in tasks', u.kind = "Entry", u.slug # t.slug
            PROVE  u \in tasks /\ positions'[u.slug] = positions[u.slug]
        BY <1>1, <2>1, <3>1, <3>5 DEF Task
      <3>6. EntriesFit'
        BY <1>1, <3>4, <3>5 DEF EntriesFit
      <3> QED BY <1>2, <3>3, <3>6
    <2> QED BY <2>1, <2>2, <2>3
  <1>9. ASSUME NEW s \in Slugs, SpawnUnwind(s) PROVE EntriesFit' /\ StackOrdered'
    <2>1. PICK u \in Task : tasks' = tasks \cup {u} /\ u.kind = "Unwind" /\ positions' = positions
      BY <1>1, <1>9, UnwindSpawned
    <2> QED BY <1>3, <2>1
  <1>10. ASSUME NEW s \in Slugs, NEW v \in Venues, LateFill(s, v) PROVE EntriesFit' /\ StackOrdered'
    BY <1>3, <1>10 DEF LateFill
  <1>11. CASE Idles
    BY <1>3, <1>11 DEF Idles
  <1> QED BY <1>4, <1>5, <1>6, <1>7, <1>8, <1>9, <1>10, <1>11, Steps

\* However many frames and outcomes cross, the legs stacked on a slug point one way, climb by at
\* least the gain and never pass their number (bookkeeping.rs 93-116): what was gated on is what is
\* held when the outcome is applied, less the legs unwound in between.
THEOREM StackStaysOrdered == Spec => []StackOrdered
  <1>1. Init => EntriesFit /\ StackOrdered
    BY DEF Init, EntriesFit, StackOrdered
  <1>2. StackInv /\ [Next]_vars => EntriesFit' /\ StackOrdered'
    BY StackStep
  <1> QED BY <1>1, <1>2, TasksAlwaysShaped, OneEntryInFlight, PTL DEF Spec, StackInv

(***************************************************************************)
(* The exposure adds up                                                    *)
(***************************************************************************)

\* What the held legs commit, leg by leg.
LEMMA HeldNotionalOf ==
  ASSUME NEW held \in Seq(Leg)
  PROVE  /\ HeldNotional(held) \in Nat
         /\ \A leg \in Leg : HeldNotional(Append(held, leg)) = HeldNotional(held) + Notional(leg)
         /\ held # <<>> => HeldNotional(held) = Notional(Head(held)) + HeldNotional(Tail(held))
  <1> DEFINE w == [leg \in Leg |-> Notional(leg)]
  <1>1. w \in [Leg -> Nat] /\ \A leg \in Leg : w[leg] = Notional(leg)
    BY NotionalTyped
  <1>2. ASSUME NEW h \in Seq(Leg) PROVE HeldNotional(h) = SumFunction(Weighed(w, h))
    <2>1. \A i \in DOMAIN h : h[i] \in Leg
      BY LenProperties, ElementOfSeq
    <2>2. Weighed(w, h) = [i \in DOMAIN h |-> Notional(h[i])]
      BY <2>1 DEF Weighed
    <2> QED BY <2>2 DEF HeldNotional
  <1> HIDE DEF w
  <1>3. HeldNotional(held) \in Nat
    BY <1>1, <1>2, SumWeighed
  <1>4. ASSUME NEW leg \in Leg
        PROVE  HeldNotional(Append(held, leg)) = HeldNotional(held) + Notional(leg)
    <2>1. Append(held, leg) \in Seq(Leg)
      BY AppendProperties
    <2> QED BY <1>1, <1>2, <2>1, WeighedGrows
  <1>5. ASSUME held # <<>>
        PROVE  HeldNotional(held) = Notional(Head(held)) + HeldNotional(Tail(held))
    <2>1. Tail(held) \in Seq(Leg) /\ Head(held) \in Leg
      BY <1>5, HeadTailProperties
    <2> QED BY <1>1, <1>2, <1>5, <2>1, WeighedShrinks
  <1> QED BY <1>3, <1>4, <1>5

\* What the entries in flight commit.
LEMMA InFlightOf ==
  /\ InFlightNotional({}) = 0
  /\ \A t \in Task : InFlightNotional({t}) = Notional(t.leg)
  /\ \A T \in SUBSET Task : IsFiniteSet(T) => InFlightNotional(T) \in Nat
  <1>1. InFlightNotional({}) = 0
    <2>1. DOMAIN [t \in {} |-> Notional(t.leg)] = {}
      OBVIOUS
    <2> QED BY <2>1, SumOfNothing DEF InFlightNotional, SumFunction
  <1>2. ASSUME NEW t \in Task PROVE InFlightNotional({t}) = Notional(t.leg)
    <2> DEFINE f == [u \in {t} |-> Notional(u.leg)]
    <2>1. f[t] = Notional(t.leg) /\ f[t] \in Int /\ DOMAIN f = {t}
      BY NotionalTyped DEF Task
    <2> HIDE DEF f
    <2>2. SumFunctionOnSet(f, {t}) = f[t] + SumFunctionOnSet(f, {t} \ {t})
      <3>1. IsFiniteSet({t}) /\ t \in {t} /\ \A u \in {t} : f[u] \in Int
        BY <2>1, FS_Singleton
      <3> QED BY <3>1, SumTakesAny
    <2>3. SumFunctionOnSet(f, {t} \ {t}) = 0
      BY SumOfNothing
    <2>4. SumFunction(f) = Notional(t.leg)
      BY <2>1, <2>2, <2>3 DEF SumFunction
    <2> QED BY <2>4 DEF f, InFlightNotional
  <1>3. ASSUME NEW T \in SUBSET Task, IsFiniteSet(T) PROVE InFlightNotional(T) \in Nat
    <2> DEFINE f == [u \in T |-> Notional(u.leg)]
    <2>1. (\A u \in T : f[u] \in Nat) /\ DOMAIN f = T
      BY NotionalTyped DEF Task
    <2> HIDE DEF f
    <2>2. SumFunctionOnSet(f, T) \in Nat
      BY <1>3, <2>1, SumNat
    <2> QED BY <2>1, <2>2 DEF SumFunction, f, InFlightNotional
  <1> QED BY <1>1, <1>2, <1>3

\* What is committed, slug by slug, and the positions, slug by slug.
CommittedMap == [s \in Slugs |-> CommittedOf(s)]
CountMap == [s \in Slugs |-> CountOf(s)]

\* The maps hold naturals.
LEMMA MapsTyped ==
  TypeOK /\ TasksShaped => CommittedMap \in [Slugs -> Nat] /\ CountMap \in [Slugs -> Nat]
  <1> SUFFICES ASSUME TypeOK, TasksShaped
      PROVE  CommittedMap \in [Slugs -> Nat] /\ CountMap \in [Slugs -> Nat]
    OBVIOUS
  <1>1. ASSUME NEW s \in Slugs PROVE CommittedOf(s) \in Nat /\ CountOf(s) \in Nat
    <2>1. positions[s] \in Seq(Leg)
      BY DEF TypeOK, LoopTyped
    <2>2. TasksOf(s, "Entry") \in SUBSET Task /\ IsFiniteSet(TasksOf(s, "Entry"))
      <3>1. TasksOf(s, "Entry") \subseteq tasks /\ IsFiniteSet(tasks)
        BY DEF TasksShaped, TasksOf
      <3> QED BY <3>1, FS_Subset DEF TypeOK
    <2>3. HeldNotional(positions[s]) \in Nat /\ InFlightNotional(TasksOf(s, "Entry")) \in Nat
      BY <2>1, <2>2, HeldNotionalOf, InFlightOf
    <2>4. Len(positions[s]) \in Nat /\ Cardinality(TasksOf(s, "Entry")) \in Nat
      BY <2>1, <2>2, LenProperties, FS_CardinalityType
    <2> QED BY <2>3, <2>4 DEF CommittedOf, CountOf
  <1> QED BY <1>1 DEF CommittedMap, CountMap

\* What is committed on some slugs is the sum of the map over them.
LEMMA CommittedIsSum ==
  ASSUME NEW S \in SUBSET Slugs
  PROVE  Committed(S) = SumFunctionOnSet(CommittedMap, S)
  <1> DEFINE f == [s \in S |-> CommittedOf(s)]
  <1>1. IsFiniteSet(S)
    BY FS_Subset DEF BookkeepingAssumption
  <1>2. (\A s \in S : f[s] = CommittedMap[s]) /\ DOMAIN f = S
    BY DEF CommittedMap
  <1> HIDE DEF f
  <1>3. SumFunctionOnSet(f, S) = SumFunctionOnSet(CommittedMap, S)
    BY <1>1, <1>2, SumExtensional
  <1> QED BY <1>2, <1>3 DEF SumFunction, Committed, f

\* So is the count.
LEMMA CountIsSum == CommittedCount = SumFunctionOnSet(CountMap, Slugs)
  BY DEF CommittedCount, CountMap, SumFunction

\* The buckets, in terms of the maps.
Accounts(f, n) ==
  /\ \A s \in Slugs : perPair[s] = SumFunctionOnSet(f, {s})
  /\ \A c \in Clusters : perCluster[c] = SumFunctionOnSet(f, SlugsOf(c))
  /\ total = SumFunctionOnSet(f, Slugs)
  /\ openPositions = SumFunctionOnSet(n, Slugs)

\* The property says as much as the maps do.
LEMMA AccountsSame == ExposureAccounted <=> Accounts(CommittedMap, CountMap)
  <1>1. /\ \A s \in Slugs : Committed({s}) = SumFunctionOnSet(CommittedMap, {s})
        /\ \A c \in Clusters : Committed(SlugsOf(c)) = SumFunctionOnSet(CommittedMap, SlugsOf(c))
        /\ Committed(Slugs) = SumFunctionOnSet(CommittedMap, Slugs)
    BY CommittedIsSum DEF SlugsOf
  <1> QED BY <1>1, CountIsSum DEF ExposureAccounted, Accounts

\* A sum follows a change at one slug.
LEMMA SumFollows ==
  ASSUME NEW f \in [Slugs -> Nat], NEW g \in [Slugs -> Nat], NEW s \in Slugs,
         \A r \in Slugs \ {s} : f[r] = g[r], NEW S \in SUBSET Slugs
  PROVE  /\ SumFunctionOnSet(f, S) \in Nat /\ SumFunctionOnSet(g, S) \in Nat
         /\ s \in S => SumFunctionOnSet(g, S) = SumFunctionOnSet(f, S) + (g[s] - f[s])
         /\ s \notin S => SumFunctionOnSet(g, S) = SumFunctionOnSet(f, S)
  <1>1. IsFiniteSet(S)
    BY FS_Subset DEF BookkeepingAssumption
  <1>2. \A r \in S : f[r] \in Nat /\ g[r] \in Nat /\ f[r] \in Int /\ g[r] \in Int
    OBVIOUS
  <1>3. SumFunctionOnSet(f, S) \in Nat /\ SumFunctionOnSet(g, S) \in Nat
    BY <1>1, <1>2, SumNat
  <1>4. ASSUME s \in S PROVE SumFunctionOnSet(g, S) = SumFunctionOnSet(f, S) + (g[s] - f[s])
    <2>1. \A r \in S \ {s} : f[r] = g[r]
      OBVIOUS
    <2> QED BY <1>1, <1>2, <1>4, <2>1, SumUpdated
  <1>5. ASSUME s \notin S PROVE SumFunctionOnSet(g, S) = SumFunctionOnSet(f, S)
    <2>1. \A r \in S : f[r] = g[r]
      BY <1>5
    <2> QED BY <1>1, <2>1, SumExtensional
  <1> QED BY <1>3, <1>4, <1>5

\* Reserving follows a slug that commits one leg more.
LEMMA ReserveAccounted ==
  ASSUME TypeOK, NEW s \in Slugs, NEW leg \in Leg, Reserve(s, leg),
         NEW f \in [Slugs -> Nat], NEW g \in [Slugs -> Nat], NEW m \in [Slugs -> Nat],
         NEW n \in [Slugs -> Nat], Accounts(f, m),
         \A r \in Slugs \ {s} : f[r] = g[r] /\ m[r] = n[r],
         g[s] = f[s] + Notional(leg), n[s] = m[s] + 1
  PROVE  Accounts(g, n)'
  <1> DEFINE k == Notional(leg)
             c == Cluster[s]
  <1>1. k \in Nat /\ c \in Clusters /\ perPair \in [Slugs -> Nat] /\ perCluster \in [Clusters -> Nat]
    BY NotionalTyped, ClusterTyped DEF TypeOK, ExposureTyped
  <1>2. /\ perPair' = [perPair EXCEPT ![s] = @ + k]
        /\ perCluster' = [perCluster EXCEPT ![c] = @ + k]
        /\ total' = total + k /\ openPositions' = openPositions + 1
    BY DEF Reserve
  <1>3. ASSUME NEW S \in SUBSET Slugs
        PROVE  /\ SumFunctionOnSet(f, S) \in Nat
               /\ s \in S => SumFunctionOnSet(g, S) = SumFunctionOnSet(f, S) + k
               /\ s \notin S => SumFunctionOnSet(g, S) = SumFunctionOnSet(f, S)
    <2>1. /\ SumFunctionOnSet(f, S) \in Nat
          /\ s \in S => SumFunctionOnSet(g, S) = SumFunctionOnSet(f, S) + (g[s] - f[s])
          /\ s \notin S => SumFunctionOnSet(g, S) = SumFunctionOnSet(f, S)
      BY SumFollows
    <2>2. g[s] - f[s] = k
      BY <1>1
    <2> QED BY <2>1, <2>2
  <1>4. SumFunctionOnSet(n, Slugs) = SumFunctionOnSet(m, Slugs) + 1
    <2>1. SumFunctionOnSet(n, Slugs) = SumFunctionOnSet(m, Slugs) + (n[s] - m[s])
      BY SumFollows
    <2>2. n[s] - m[s] = 1
      OBVIOUS
    <2> QED BY <2>1, <2>2
  <1> HIDE DEF k, c
  <1>5. ASSUME NEW r \in Slugs PROVE perPair'[r] = SumFunctionOnSet(g, {r})
    <2>1. perPair[r] = SumFunctionOnSet(f, {r})
      BY DEF Accounts
    <2> QED BY <1>1, <1>2, <1>3, <2>1
  <1>6. ASSUME NEW d \in Clusters PROVE perCluster'[d] = SumFunctionOnSet(g, SlugsOf(d))
    <2>1. perCluster[d] = SumFunctionOnSet(f, SlugsOf(d))
      BY DEF Accounts
    <2>2. SlugsOf(d) \in SUBSET Slugs /\ (s \in SlugsOf(d) <=> c = d)
      BY DEF SlugsOf, c
    <2> QED BY <1>1, <1>2, <1>3, <2>1, <2>2
  <1>7. total' = SumFunctionOnSet(g, Slugs)
    BY <1>2, <1>3 DEF Accounts
  <1>8. openPositions' = SumFunctionOnSet(n, Slugs)
    BY <1>2, <1>4 DEF Accounts
  <1> QED BY <1>5, <1>6, <1>7, <1>8 DEF Accounts, SlugsOf

\* The subtraction never saturates: what is taken off is in the sum.
LEMMA SubtractAccounted ==
  ASSUME TypeOK, NEW s \in Slugs, NEW leg \in Leg, Subtract(s, leg),
         NEW f \in [Slugs -> Nat], NEW g \in [Slugs -> Nat], NEW m \in [Slugs -> Nat],
         NEW n \in [Slugs -> Nat], Accounts(f, m),
         \A r \in Slugs \ {s} : f[r] = g[r] /\ m[r] = n[r],
         f[s] = g[s] + Notional(leg), m[s] = n[s] + 1
  PROVE  Accounts(g, n)'
  <1> DEFINE k == Notional(leg)
             c == Cluster[s]
  <1>1. k \in Nat /\ c \in Clusters /\ perPair \in [Slugs -> Nat] /\ perCluster \in [Clusters -> Nat]
    BY NotionalTyped, ClusterTyped DEF TypeOK, ExposureTyped
  <1>2. /\ perPair' = [perPair EXCEPT ![s] = Saturating(@, k)]
        /\ perCluster' = [perCluster EXCEPT ![c] = Saturating(@, k)]
        /\ total' = Saturating(total, k) /\ openPositions' = Saturating(openPositions, 1)
    BY DEF Subtract
  <1>3. ASSUME NEW S \in SUBSET Slugs
        PROVE  /\ s \in S => SumFunctionOnSet(g, S) = Saturating(SumFunctionOnSet(f, S), k)
               /\ s \notin S => SumFunctionOnSet(g, S) = SumFunctionOnSet(f, S)
    <2>1. /\ SumFunctionOnSet(f, S) \in Nat /\ SumFunctionOnSet(g, S) \in Nat
          /\ s \in S => SumFunctionOnSet(g, S) = SumFunctionOnSet(f, S) + (g[s] - f[s])
          /\ s \notin S => SumFunctionOnSet(g, S) = SumFunctionOnSet(f, S)
      BY SumFollows
    <2>2. g[s] - f[s] = -k
      BY <1>1
    <2> QED BY <1>1, <2>1, <2>2 DEF Saturating
  <1>4. SumFunctionOnSet(n, Slugs) = Saturating(SumFunctionOnSet(m, Slugs), 1)
    <2>1. /\ SumFunctionOnSet(n, Slugs) = SumFunctionOnSet(m, Slugs) + (n[s] - m[s])
          /\ SumFunctionOnSet(n, Slugs) \in Nat /\ SumFunctionOnSet(m, Slugs) \in Nat
      BY SumFollows
    <2>2. n[s] - m[s] = -1
      OBVIOUS
    <2> QED BY <2>1, <2>2 DEF Saturating
  <1> HIDE DEF k, c
  <1>5. ASSUME NEW r \in Slugs PROVE perPair'[r] = SumFunctionOnSet(g, {r})
    <2>1. perPair[r] = SumFunctionOnSet(f, {r})
      BY DEF Accounts
    <2> QED BY <1>1, <1>2, <1>3, <2>1
  <1>6. ASSUME NEW d \in Clusters PROVE perCluster'[d] = SumFunctionOnSet(g, SlugsOf(d))
    <2>1. perCluster[d] = SumFunctionOnSet(f, SlugsOf(d))
      BY DEF Accounts
    <2>2. SlugsOf(d) \in SUBSET Slugs /\ (s \in SlugsOf(d) <=> c = d)
      BY DEF SlugsOf, c
    <2> QED BY <1>1, <1>2, <1>3, <2>1, <2>2
  <1>7. total' = SumFunctionOnSet(g, Slugs)
    BY <1>2, <1>3 DEF Accounts
  <1>8. openPositions' = SumFunctionOnSet(n, Slugs)
    BY <1>2, <1>4 DEF Accounts
  <1> QED BY <1>5, <1>6, <1>7, <1>8 DEF Accounts, SlugsOf

ExposureInv == TypeOK /\ TasksShaped /\ InFlightMarked /\ ExposureAccounted

\* A slug of which neither the held legs nor the entry in flight changed.
Untouched(s) ==
  positions'[s] = positions[s] /\ TasksOf(s, "Entry")' = TasksOf(s, "Entry")

\* A slug left alone commits what it did.
LEMMA UntouchedSame ==
  ASSUME NEW s, Untouched(s)
  PROVE  CommittedOf(s)' = CommittedOf(s) /\ CountOf(s)' = CountOf(s)
  BY DEF Untouched, CommittedOf, CountOf

\* The entry in flight on a slug, if there is one, is all there is.
LEMMA TheEntry ==
  ASSUME TypeOK, InFlightMarked, NEW t \in tasks, t.kind = "Entry"
  PROVE  TasksOf(t.slug, "Entry") = {t} /\ t.slug \in pending /\ t.slug \in Slugs
  BY DEF TypeOK, Task, InFlightMarked, TasksOf

\* What one entry in flight, or none, commits.
LEMMA CommittedWith ==
  /\ \A T, t : t \in Task /\ T = {t} => InFlightNotional(T) = Notional(t.leg) /\ Cardinality(T) = 1
  /\ \A T : T = {} => InFlightNotional(T) = 0 /\ Cardinality(T) = 0
  BY InFlightOf, FS_Singleton, FS_EmptySet

\* What a slug commits after the step.
LEMMA PerSlug ==
  ASSUME NEW s
  PROVE  /\ CommittedOf(s)' = HeldNotional(positions'[s]) + InFlightNotional(TasksOf(s, "Entry")')
         /\ CountOf(s)' = Len(positions'[s]) + Cardinality(TasksOf(s, "Entry")')
  BY DEF CommittedOf, CountOf

\* Each step moves the exposure by what it commits or gives up.
LEMMA ExposureStep ==
  ASSUME ExposureInv, [Next]_vars, (TypeOK /\ TasksShaped)'
  PROVE  ExposureAccounted'
  <1>1. /\ TypeOK /\ TasksShaped /\ InFlightMarked /\ tasks \subseteq Task
        /\ positions \in [Slugs -> Seq(Leg)] /\ \A t \in tasks : TaskShape(t)
    BY DEF ExposureInv, TypeOK, LoopTyped, TasksShaped
  <1>2. CommittedMap \in [Slugs -> Nat] /\ CountMap \in [Slugs -> Nat] /\ Accounts(CommittedMap, CountMap)
    BY MapsTyped, AccountsSame DEF ExposureInv
  <1>3. (CommittedMap \in [Slugs -> Nat] /\ CountMap \in [Slugs -> Nat])'
    BY MapsTyped, PTL
  <1>4. PICK f \in [Slugs -> Nat], m \in [Slugs -> Nat], g \in [Slugs -> Nat], n \in [Slugs -> Nat] :
          f = CommittedMap /\ m = CountMap /\ g = CommittedMap' /\ n = CountMap'
    BY <1>2, <1>3
  <1>5. /\ Accounts(f, m)
        /\ Accounts(g, n)' => ExposureAccounted'
    <2>1. ExposureAccounted' <=> Accounts(CommittedMap, CountMap)'
      BY AccountsSame, PTL
    <2>2. Accounts(CommittedMap, CountMap)' <=> Accounts(g, n)'
      BY <1>4 DEF Accounts
    <2> QED BY <1>2, <1>4, <2>1, <2>2
  <1>6. \A s \in Slugs : /\ f[s] = CommittedOf(s) /\ m[s] = CountOf(s)
                         /\ g[s] = CommittedOf(s)' /\ n[s] = CountOf(s)'
    BY <1>4 DEF CommittedMap, CountMap
  <1>7. ASSUME UNCHANGED exposure, \A s \in Slugs : f[s] = g[s] /\ m[s] = n[s]
        PROVE  ExposureAccounted'
    <2>1. f = g /\ m = n
      BY <1>7
    <2>2. Accounts(g, n)'
      BY <1>5, <1>7, <2>1 DEF Accounts, exposure, SlugsOf
    <2> QED BY <1>5, <2>2
  <1>8. ASSUME UNCHANGED exposure, \A s \in Slugs : Untouched(s)
        PROVE  ExposureAccounted'
    BY <1>6, <1>7, <1>8, UntouchedSame
  <1>9. ASSUME UNCHANGED exposure, positions' = positions, NEW t \in tasks, NEW u \in Task,
               tasks' = (tasks \ {t}) \cup {u}, u.kind = t.kind, u.slug = t.slug, u.leg = t.leg
        PROVE  ExposureAccounted'
    <2>1. CASE t.kind # "Entry"
      <3>1. \A s \in Slugs : Untouched(s)
        BY <1>9, <2>1 DEF Untouched, TasksOf
      <3> QED BY <1>8, <1>9, <3>1
    <2>2. CASE t.kind = "Entry"
      <3>1. \A s \in Slugs \ {t.slug} : Untouched(s)
        BY <1>9, <2>2 DEF Untouched, TasksOf
      <3>2. TasksOf(t.slug, "Entry") = {t} /\ t.slug \in Slugs
        BY <1>1, <2>2, TheEntry
      <3>3. TasksOf(t.slug, "Entry")' = {u}
        BY <1>9, <2>2, <3>2 DEF TasksOf
      <3>4. /\ InFlightNotional(TasksOf(t.slug, "Entry")') = InFlightNotional(TasksOf(t.slug, "Entry"))
            /\ Cardinality(TasksOf(t.slug, "Entry")') = Cardinality(TasksOf(t.slug, "Entry"))
        BY <1>1, <1>9, <3>2, <3>3, CommittedWith
      <3>5. CommittedOf(t.slug)' = CommittedOf(t.slug) /\ CountOf(t.slug)' = CountOf(t.slug)
        BY <1>9, <3>4 DEF CommittedOf, CountOf
      <3>6. \A s \in Slugs : f[s] = g[s] /\ m[s] = n[s]
        BY <1>6, <3>1, <3>5, UntouchedSame
      <3> QED BY <1>7, <1>9, <3>6
    <2> QED BY <2>1, <2>2
  <1>10. ASSUME NEW s \in Slugs, NEW e \in Edges, NEW depth \in Depths, NEW first \in Venues,
                FireEntry(s, e, depth, first)
         PROVE  ExposureAccounted'
    <2>0. PICK u \in Task, leg \in Leg : Entered(s, e, u, leg)
      <3>1. TypeOK
        BY <1>1
      <3> QED BY <1>10, <3>1, EntryFired
    <2>1. /\ u \in Task /\ leg \in Leg
          /\ tasks' = tasks \cup {u} /\ Reserve(s, leg) /\ positions' = positions
          /\ u.kind = "Entry" /\ u.slug = s /\ u.leg = leg /\ s \notin pending
      BY <2>0 DEF Entered
    <2>2. TasksOf(s, "Entry") = {}
      BY <1>1, <2>1 DEF InFlightMarked
    <2>3. TasksOf(s, "Entry")' = {u}
      BY <2>1, <2>2 DEF TasksOf
    <2>4. \A r \in Slugs \ {s} : Untouched(r)
      BY <2>1 DEF Untouched, TasksOf
    <2>5. PICK h \in Nat, l \in Nat : h = HeldNotional(positions[s]) /\ l = Len(positions[s])
      BY <1>1, HeldNotionalOf, LenProperties
    <2>6. f[s] = h + 0 /\ m[s] = l + 0
      BY <1>6, <2>2, <2>5, CommittedWith DEF CommittedOf, CountOf
    <2>7. g[s] = h + Notional(leg) /\ n[s] = l + 1
      <3>1. /\ InFlightNotional(TasksOf(s, "Entry")') = Notional(leg)
            /\ Cardinality(TasksOf(s, "Entry")') = 1
        BY <2>1, <2>3, CommittedWith
      <3>2. HeldNotional(positions'[s]) = h /\ Len(positions'[s]) = l
        BY <2>1, <2>5
      <3>3. CommittedOf(s)' = h + Notional(leg) /\ CountOf(s)' = l + 1
        BY <3>1, <3>2, PerSlug
      <3> QED BY <1>6, <3>3
    <2>8. g[s] = f[s] + Notional(leg) /\ n[s] = m[s] + 1
      BY <2>5, <2>6, <2>7
    <2>9. \A r \in Slugs \ {s} : f[r] = g[r] /\ m[r] = n[r]
      BY <1>6, <2>4, UntouchedSame
    <2>10. Accounts(g, n)'
      <3>1. TypeOK /\ Reserve(s, leg)
        BY <1>1, <2>1
      <3>2. Accounts(f, m)
        BY <1>5
      <3> QED BY <2>8, <2>9, <3>1, <3>2, ReserveAccounted
    <2> QED BY <1>5, <2>10
  <1>11. ASSUME NEW t \in tasks, Post(t) PROVE ExposureAccounted'
    <2>1. PICK u \in Task : /\ tasks' = (tasks \ {t}) \cup {u} /\ positions' = positions
                            /\ UNCHANGED exposure
                            /\ u.kind = t.kind /\ u.slug = t.slug /\ u.leg = t.leg
      BY <1>1, <1>11, OrderPosted
    <2> QED BY <1>9, <2>1
  <1>12. ASSUME NEW t \in tasks, Panic(t) PROVE ExposureAccounted'
    <2>1. PICK u \in Task : /\ tasks' = (tasks \ {t}) \cup {u} /\ positions' = positions
                            /\ UNCHANGED exposure
                            /\ u.kind = t.kind /\ u.slug = t.slug /\ u.leg = t.leg
      BY <1>1, <1>12, TaskPanicked
    <2> QED BY <1>9, <2>1
  <1>13. ASSUME NEW t \in tasks, ApplyEntry(t) PROVE ExposureAccounted'
    <2> DEFINE s == t.slug
    <2>1. /\ t \in Task /\ TaskShape(t) /\ t.kind = "Entry" /\ s \in Slugs /\ t.leg \in Leg
          /\ \/ ApplyLock(t) /\ tasks' = tasks \ {t}
             \/ EntryMissed(t) /\ positions' = positions /\ tasks' = tasks \ {t}
             \/ EntryMissed(t) /\ positions' = positions /\ tasks' = (tasks \ {t}) \cup RecoverySells(t)
      BY <1>1, <1>13, EntryApplied DEF Task
    <2>2. \A u \in RecoverySells(t) : u.kind # "Entry"
      BY <2>1, RecoveriesShaped
    <2>3. TasksOf(s, "Entry") = {t}
      BY <1>1, <2>1, TheEntry
    <2>4. TasksOf(s, "Entry")' = {}
      BY <2>1, <2>2, <2>3 DEF TasksOf
    <2>5. \A r \in Slugs \ {s} : TasksOf(r, "Entry")' = TasksOf(r, "Entry")
      BY <2>1, <2>2 DEF TasksOf
    <2>6. PICK h \in Nat, l \in Nat : h = HeldNotional(positions[s]) /\ l = Len(positions[s])
      BY <1>1, <2>1, HeldNotionalOf, LenProperties
    <2>7. f[s] = h + Notional(t.leg) /\ m[s] = l + 1
      BY <1>6, <2>1, <2>3, <2>6, CommittedWith DEF CommittedOf, CountOf
    <2>8. CASE EntryMissed(t) /\ positions' = positions
      <3>1. g[s] = h + 0 /\ n[s] = l + 0
        BY <1>6, <2>1, <2>4, <2>6, <2>8, CommittedWith DEF CommittedOf, CountOf
      <3>2. f[s] = g[s] + Notional(t.leg) /\ m[s] = n[s] + 1
        BY <2>6, <2>7, <3>1
      <3>3. \A r \in Slugs \ {s} : f[r] = g[r] /\ m[r] = n[r]
        BY <1>6, <2>5, <2>8, UntouchedSame DEF Untouched
      <3>4. Subtract(s, t.leg)
        BY <2>8 DEF EntryMissed
      <3>5. Accounts(g, n)'
        <4>1. TypeOK /\ s \in Slugs /\ t.leg \in Leg
          BY <1>1, <2>1
        <4>2. Accounts(f, m)
          BY <1>5
        <4> QED BY <3>2, <3>3, <3>4, <4>1, <4>2, SubtractAccounted, SMTT(60)
      <3> QED BY <1>5, <3>5
    <2>9. CASE ApplyLock(t)
      <3>1. positions' = [positions EXCEPT ![s] = Append(@, t.leg)] /\ UNCHANGED exposure
        BY <2>9 DEF ApplyLock
      <3>2. positions'[s] = Append(positions[s], t.leg) /\ \A r \in Slugs \ {s} : positions'[r] = positions[r]
        BY <1>1, <2>1, <3>1
      <3>3. /\ HeldNotional(Append(positions[s], t.leg)) = h + Notional(t.leg)
            /\ Len(Append(positions[s], t.leg)) = l + 1
        BY <1>1, <2>1, <2>6, HeldNotionalOf, AppendProperties
      <3>4. Notional(t.leg) \in Nat
        BY <2>1, NotionalTyped
      <3>5. g[s] = (h + Notional(t.leg)) + 0 /\ n[s] = (l + 1) + 0
        <4>1. /\ InFlightNotional(TasksOf(s, "Entry")') = 0
              /\ Cardinality(TasksOf(s, "Entry")') = 0
          BY <2>4, CommittedWith
        <4>2. HeldNotional(positions'[s]) = h + Notional(t.leg) /\ Len(positions'[s]) = l + 1
          BY <3>2, <3>3
        <4>3. CommittedOf(s)' = (h + Notional(t.leg)) + 0 /\ CountOf(s)' = (l + 1) + 0
          BY <4>1, <4>2, PerSlug
        <4> QED BY <1>6, <2>1, <4>3
      <3>6. f[s] = g[s] /\ m[s] = n[s]
        BY <2>6, <2>7, <3>4, <3>5
      <3>7. \A r \in Slugs \ {s} : f[r] = g[r] /\ m[r] = n[r]
        BY <1>6, <2>5, <3>2, UntouchedSame DEF Untouched
      <3> QED BY <1>7, <3>1, <3>6, <3>7
    <2> QED BY <2>1, <2>8, <2>9
  <1>14. ASSUME NEW t \in tasks, ApplyFlatten(t) PROVE ExposureAccounted'
    <2> DEFINE s == t.slug
    <2>1. t.kind # "Entry" /\ tasks' = tasks \ {t} /\ s \in Slugs
      BY <1>1, <1>14, FlattenApplied
    <2>2. \A r \in Slugs : TasksOf(r, "Entry")' = TasksOf(r, "Entry")
      BY <2>1 DEF TasksOf
    <2>3. CASE UNCHANGED <<positions, exposure>>
      BY <1>8, <2>2, <2>3 DEF Untouched
    <2>4. CASE ApplyUnwound(t) /\ positions[s] # <<>>
      <3> DEFINE leg == Head(positions[s])
      <3>1. positions' = [positions EXCEPT ![s] = Tail(@)] /\ Subtract(s, leg)
        BY <2>4 DEF ApplyUnwound
      <3>2. positions'[s] = Tail(positions[s]) /\ \A r \in Slugs \ {s} : positions'[r] = positions[r]
        BY <1>1, <2>1, <3>1
      <3>3. leg \in Leg /\ Tail(positions[s]) \in Seq(Leg)
            /\ Len(Tail(positions[s])) = Len(positions[s]) - 1
        BY <1>1, <2>1, <2>4, HeadTailProperties
      <3>4. PICK h \in Nat, l \in Nat : /\ h = HeldNotional(Tail(positions[s]))
                                        /\ l = Len(Tail(positions[s]))
        BY <3>3, HeldNotionalOf, LenProperties
      <3>5. PICK i \in Nat, c \in Nat : /\ i = InFlightNotional(TasksOf(s, "Entry"))
                                        /\ c = Cardinality(TasksOf(s, "Entry"))
        <4>1. TasksOf(s, "Entry") \in SUBSET Task /\ IsFiniteSet(TasksOf(s, "Entry"))
          <5>1. TasksOf(s, "Entry") \subseteq tasks /\ IsFiniteSet(tasks)
            BY <1>1 DEF TasksShaped, TasksOf
          <5> QED BY <1>1, <5>1, FS_Subset
        <4> QED BY <4>1, InFlightOf, FS_CardinalityType
      <3>6. Notional(leg) \in Nat
        BY <3>3, NotionalTyped
      <3>7. f[s] = (Notional(leg) + h) + i /\ m[s] = (l + 1) + c
        <4>1. HeldNotional(positions[s]) = Notional(leg) + h
          BY <1>1, <2>1, <2>4, <3>4, HeldNotionalOf
        <4>2. Len(positions[s]) = l + 1
          <5>1. Len(positions[s]) \in Nat
            BY <1>1, <2>1, LenProperties
          <5> QED BY <3>3, <3>4, <5>1
        <4> QED BY <1>6, <2>1, <3>5, <4>1, <4>2 DEF CommittedOf, CountOf
      <3>8. g[s] = h + i /\ n[s] = l + c
        BY <1>6, <2>1, <2>2, <3>2, <3>4, <3>5 DEF CommittedOf, CountOf
      <3>9. f[s] = g[s] + Notional(leg) /\ m[s] = n[s] + 1
        BY <3>4, <3>5, <3>6, <3>7, <3>8, SMTT(30)
      <3>10. \A r \in Slugs \ {s} : f[r] = g[r] /\ m[r] = n[r]
        BY <1>6, <2>2, <3>2, UntouchedSame DEF Untouched
      <3> HIDE DEF leg
      <3>11. Accounts(g, n)'
        <4>1. TypeOK /\ s \in Slugs /\ leg \in Leg /\ Subtract(s, leg)
          BY <1>1, <2>1, <3>1, <3>3
        <4>2. Accounts(f, m)
          BY <1>5
        <4> QED BY <3>9, <3>10, <4>1, <4>2, SubtractAccounted
      <3> QED BY <1>5, <3>11
    <2>5. UNCHANGED <<positions, exposure>> \/ (ApplyUnwound(t) /\ positions[s] # <<>>)
      BY <1>14 DEF ApplyFlatten, ApplyUnwound, ApplyUnwindFailed, ApplyRecovery
    <2> QED BY <2>3, <2>4, <2>5
  <1>15. ASSUME NEW s \in Slugs, SpawnUnwind(s) PROVE ExposureAccounted'
    <2>1. PICK u \in Task : /\ tasks' = tasks \cup {u} /\ u.kind = "Unwind"
                            /\ UNCHANGED <<positions, exposure>>
      BY <1>1, <1>15, UnwindSpawned
    <2> QED BY <1>8, <2>1 DEF Untouched, TasksOf
  <1>16. ASSUME NEW s \in Slugs, NEW v \in Venues, LateFill(s, v) PROVE ExposureAccounted'
    BY <1>8, <1>16 DEF LateFill, Untouched, TasksOf
  <1>17. CASE Idles
    BY <1>8, <1>17 DEF Idles, Untouched, TasksOf
  <1> QED BY <1>10, <1>11, <1>12, <1>13, <1>14, <1>15, <1>16, <1>17, Steps

\* The four buckets are at every moment what the held legs and the entries in flight add up to, so a
\* reservation is never lost, given back twice or cut off by the saturating subtraction
\* (bookkeeping.rs 20-37).
THEOREM ExposureAlwaysAccounted == Spec => []ExposureAccounted
  <1>1. Init => ExposureAccounted
    <2> SUFFICES ASSUME Init PROVE ExposureAccounted
      OBVIOUS
    <2>1. \A s \in Slugs : CommittedMap[s] = 0 /\ CountMap[s] = 0
      <3>1. HeldNotional(<<>>) = 0
        <4>1. DOMAIN [i \in DOMAIN <<>> |-> Notional(<<>>[i])] = {}
          OBVIOUS
        <4> QED BY <4>1, SumOfNothing DEF HeldNotional, SumFunction
      <3>2. ASSUME NEW s \in Slugs PROVE CommittedOf(s) = 0 /\ CountOf(s) = 0
        <4>1. positions[s] = <<>> /\ TasksOf(s, "Entry") = {}
          BY DEF Init, TasksOf
        <4>2. Len(<<>>) = 0
          BY EmptySeq
        <4> QED BY <3>1, <4>1, <4>2, CommittedWith DEF CommittedOf, CountOf
      <3> QED BY <3>2 DEF CommittedMap, CountMap
    <2> DEFINE zero == [s \in Slugs |-> 0]
    <2>2. CommittedMap = zero /\ CountMap = zero
      BY <2>1 DEF CommittedMap, CountMap
    <2>3. ASSUME NEW S \in SUBSET Slugs PROVE SumFunctionOnSet(zero, S) = 0
      <3> DEFINE B == {T \in SUBSET S : SumFunctionOnSet(zero, T) = 0}
      <3>1. {} \in B
        BY SumOfNothing
      <3>2. ASSUME NEW T \in SUBSET S, NEW x \in S, T \in B PROVE T \cup {x} \in B
        <4>1. CASE x \in T
          BY <3>2, <4>1
        <4>2. CASE x \notin T
          <5>1. IsFiniteSet(T \cup {x}) /\ x \in T \cup {x} /\ \A r \in T \cup {x} : zero[r] \in Int
            BY FS_Subset DEF BookkeepingAssumption
          <5>2. SumFunctionOnSet(zero, T \cup {x}) = zero[x] + SumFunctionOnSet(zero, (T \cup {x}) \ {x})
            <6> HIDE DEF zero, B
            <6> QED BY <5>1, SumTakesAny
          <5>3. (T \cup {x}) \ {x} = T /\ zero[x] = 0
            BY <4>2
          <5>4. SumFunctionOnSet(zero, T \cup {x}) = 0
            <6> HIDE DEF zero
            <6> QED BY <3>2, <5>2, <5>3
          <5> QED BY <5>4
        <4> QED BY <4>1, <4>2
      <3>3. IsFiniteSet(S)
        BY FS_Subset DEF BookkeepingAssumption
      <3>4. S \in B
        <4> HIDE DEF B
        <4> QED BY <3>1, <3>2, <3>3, SubsetInduction
      <3> QED BY <3>4
    <2> HIDE DEF zero
    <2>4. Accounts(zero, zero)
      BY <2>3 DEF Accounts, Init, SlugsOf
    <2> QED BY <2>2, <2>4, AccountsSame
  <1>2. ExposureInv /\ [Next]_vars /\ (TypeOK /\ TasksShaped)' => ExposureAccounted'
    BY ExposureStep
  <1> QED BY <1>1, <1>2, TasksAlwaysShaped, OneEntryInFlight, PTL DEF Spec, ExposureInv

(***************************************************************************)
(* The client order ids of the entries                                     *)
(***************************************************************************)

\* The order was posted, whatever became of it.
Asked(ack) == ack.res \notin {"wait", "unsent"}

\* An entry in flight carries the index its slug is at.
EntriesNumbered == \A t \in tasks : t.kind = "Entry" => t.leg.idx = nextIdx[t.slug]

\* An entry's client order id that Kalshi has seen is behind the slug's index, or that of the entry
\* in flight after it was posted, or the bot has halted with no entry left on the slug.
CoidsSpent ==
  \A c \in coids : c.kind = "Entry" =>
    \/ c.idx < nextIdx[c.slug]
    \/ halt /\ c.slug \notin pending
    \/ \E t \in tasks : t.kind = "Entry" /\ CoidOf(t) = c /\ Asked(t.ack[Kalshi])

CoidInv == TypeOK /\ TasksShaped /\ InFlightMarked /\ EntriesNumbered /\ CoidsSpent

\* What a client order id names.
LEMMA CoidFields ==
  /\ \A t : CoidOf(t).kind = t.kind /\ CoidOf(t).slug = t.slug
            /\ (t.kind = "Entry" => CoidOf(t).idx = t.leg.idx)
  /\ \A t, u : t.kind = u.kind /\ t.slug = u.slug /\ t.leg = u.leg => CoidOf(t) = CoidOf(u)
  BY DEF CoidOf

\* An entry that was posted to Kalshi and leaves without spending the index halts the bot.
LEMMA UnspentHalts ==
  ASSUME TypeOK, NEW t \in tasks, t \in Task, TaskShape(t), t.phase = "done",
         Asked(t.ack[Kalshi]), EntryMissed(t), ~ LandedOrder(t.ack), ApplyEntry(t)
  PROVE  halt'
  <1>1. /\ Venues = {Kalshi, Pmus} /\ Kalshi # Pmus /\ Other(Kalshi) = Pmus /\ Other(Pmus) = Kalshi
        /\ t.first \in Venues /\ t.kind = "Entry"
    BY DEF Venues, Kalshi, Pmus, Other, Task, EntryMissed, Outcome
  <1>2. /\ \A v \in Venues : t.ack[v].res \notin {"ok", "rejected", "vague", "panic"}
        /\ \A v \in Venues : t.ack[v].res \in Results
    BY DEF LandedOrder, Task, Ack
  <1>3. t.ack[Kalshi].res = "limited"
    BY <1>1, <1>2 DEF Asked, Results
  <1>4. t.ack[Pmus].res = "unsent"
    <2>1. \/ \A v \in Venues : t.ack[v].res = "panic"
          \/ /\ t.ack[t.first].res \in Answered /\ ~ Filled(t.ack[t.first], t.lots)
             /\ t.ack[Other(t.first)].res = "unsent"
          \/ Filled(t.ack[t.first], t.lots) /\ t.ack[Other(t.first)].res \in Answered
      BY <1>1 DEF TaskShape
    <2>2. ~ Filled(t.ack[t.first], t.lots)
      BY <1>1, <1>2 DEF Filled
    <2>3. t.ack[Other(t.first)].res = "unsent"
      BY <1>1, <1>2, <2>1, <2>2
    <2>4. t.first = Kalshi
      BY <1>1, <1>3, <2>3
    <2> QED BY <1>1, <2>3, <2>4
  <1>5. EntryMiss(t.ack) = "AmbiguousAbort"
    <2>1. (CHOOSE v \in Venues : t.ack[Other(v)].res = "unsent") = Kalshi
      <3>1. t.ack[Other(Kalshi)].res = "unsent" /\ Kalshi \in Venues
        BY <1>1, <1>4
      <3>2. \A v \in Venues : t.ack[Other(v)].res = "unsent" => v = Kalshi
        BY <1>1, <1>3
      <3> QED BY <3>1, <3>2
    <2>2. ~ (\A v \in Venues : t.ack[v].res # "unsent")
      BY <1>1, <1>4
    <2>3. ~ LiveFill(t.ack[Kalshi]) /\ t.ack[Kalshi].res # "ok"
      BY <1>3 DEF LiveFill
    <2> QED BY <2>1, <2>2, <2>3 DEF EntryMiss
  <1>6. ApplyAmbiguousAbort(t)
    BY <1>5 DEF ApplyEntry, ApplyLock, EntryMissed, ApplyCleanAbort, ApplyRecover, ApplyNakedHalt
  <1>7. ~ \E v \in Venues : DefiniteNotFilled(t.ack[v])
    BY <1>2 DEF DefiniteNotFilled
  <1> QED BY <1>6, <1>7 DEF ApplyAmbiguousAbort, Halt

\* Each step keeps the entries' ids spent once.
LEMMA CoidStep ==
  ASSUME CoidInv, [Next]_vars
  PROVE  EntriesNumbered' /\ CoidsSpent'
  <1>1. /\ TypeOK /\ TasksShaped /\ InFlightMarked /\ EntriesNumbered /\ CoidsSpent
        /\ tasks \subseteq Task /\ nextIdx \in [Slugs -> Nat] /\ coids \subseteq Coid
        /\ \A t \in tasks : TaskShape(t)
    BY DEF CoidInv, TypeOK, LoopTyped, VenuesTyped, TasksShaped
  <1>0. TypeOK
    BY <1>1
  <1>2. ASSUME nextIdx' = nextIdx, coids' = coids, pending' = pending, halt => halt',
               \A u \in tasks' : u.kind = "Entry" => u \in tasks,
               \A t \in tasks : t.kind = "Entry" => t \in tasks'
        PROVE  EntriesNumbered' /\ CoidsSpent'
    <2>1. EntriesNumbered'
      BY <1>1, <1>2 DEF EntriesNumbered
    <2>2. CoidsSpent'
      BY <1>1, <1>2 DEF CoidsSpent
    <2> QED BY <2>1, <2>2
  <1>3. ASSUME NEW s \in Slugs, NEW e \in Edges, NEW depth \in Depths, NEW first \in Venues,
               FireEntry(s, e, depth, first)
        PROVE  EntriesNumbered' /\ CoidsSpent'
    <2>0. PICK u \in Task, leg \in Leg : Entered(s, e, u, leg)
      BY <1>0, <1>3, EntryFired
    <2>1. /\ u \in Task
          /\ tasks' = tasks \cup {u} /\ u.kind = "Entry" /\ u.slug = s /\ u.leg.idx = nextIdx[s]
          /\ ~ halt /\ UNCHANGED <<nextIdx, coids>>
      BY <2>0 DEF Entered, venueVars
    <2>2. EntriesNumbered'
      BY <1>1, <2>1 DEF EntriesNumbered
    <2>3. CoidsSpent'
      BY <1>1, <2>1 DEF CoidsSpent
    <2> QED BY <2>2, <2>3
  <1>4. ASSUME NEW t \in tasks, Post(t) PROVE EntriesNumbered' /\ CoidsSpent'
    <2> DEFINE v == PostedAt(t)
    <2>1. PICK a \in Answers(t, v), u \in Task :
            /\ u = AfterPost(t, v, a.ack) /\ tasks' = (tasks \ {t}) \cup {u}
            /\ u.kind = t.kind /\ u.slug = t.slug /\ u.leg = t.leg
            /\ coids' = IF v = Kalshi /\ Landed(a) THEN coids \cup {CoidOf(t)} ELSE coids
            /\ UNCHANGED <<loopVars, halt>>
      <3>1. TaskShape(t)
        BY <1>1
      <3> QED BY <1>0, <1>4, <3>1, OrderPosted
    <2>11. /\ \A c \in coids' : c \in coids \/ (c = CoidOf(t) /\ v = Kalshi)
           /\ UNCHANGED <<nextIdx, pending, halt>>
      BY <2>1 DEF loopVars
    <2>2. /\ v \in Venues /\ Venues = {Kalshi, Pmus} /\ Other(Pmus) = Kalshi
          /\ t \in Task /\ TaskShape(t) /\ t.phase \in {"first", "second"}
      BY <1>1, <1>4, PostedAtTyped DEF Venues, Kalshi, Pmus, Other, Post, Task
    <2>3. a.ack \in Ack /\ a.ack.res \in Answered
      BY <2>2, AnswersFit
    <2> HIDE DEF v
    <2>4. /\ u.ack[v] = a.ack
          /\ t.kind = "Recovery" \/ t.phase = "second" => u.ack[Other(v)] = t.ack[Other(v)]
      BY <2>1, <2>2, <2>3, AfterPostPhases
    <2>5. EntriesNumbered'
      BY <1>1, <2>1, <2>11 DEF EntriesNumbered
    <2>6. v = Kalshi => Asked(u.ack[Kalshi])
      BY <2>3, <2>4 DEF Asked, Answered
    <2>7. Asked(t.ack[Kalshi]) => Asked(u.ack[Kalshi])
      <3>1. CASE v = Kalshi
        BY <2>6, <3>1
      <3>2. CASE v = Pmus
        <4>1. t.phase = "first" => ~ Asked(t.ack[Kalshi])
          BY <2>2 DEF TaskShape, Asked
        <4> QED BY <2>2, <2>4, <3>2, <4>1
      <3> QED BY <2>2, <3>1, <3>2
    <2>8. CoidOf(u) = CoidOf(t)
      BY <2>1, CoidFields
    <2>9. ASSUME NEW c \in coids', c.kind = "Entry"
          PROVE  \/ c.idx < nextIdx[c.slug]
                 \/ halt /\ c.slug \notin pending
                 \/ \E w \in tasks' : w.kind = "Entry" /\ CoidOf(w) = c /\ Asked(w.ack[Kalshi])
      <3>1. CASE c \notin coids
        <4>1. c = CoidOf(t) /\ v = Kalshi
          BY <2>9, <2>11, <3>1
        <4>2. u.kind = "Entry"
          BY <2>1, <2>9, <4>1, CoidFields
        <4> QED BY <2>1, <2>6, <2>8, <4>1, <4>2
      <3>2. CASE c \in coids
        <4>1. \/ c.idx < nextIdx[c.slug]
              \/ halt /\ c.slug \notin pending
              \/ \E w \in tasks : w.kind = "Entry" /\ CoidOf(w) = c /\ Asked(w.ack[Kalshi])
          BY <1>1, <2>9, <3>2 DEF CoidsSpent
        <4>2. ASSUME NEW w \in tasks, w.kind = "Entry", CoidOf(w) = c, Asked(w.ack[Kalshi])
              PROVE  \E x \in tasks' : x.kind = "Entry" /\ CoidOf(x) = c /\ Asked(x.ack[Kalshi])
          <5>1. CASE w = t
            BY <2>1, <2>7, <2>8, <4>2, <5>1
          <5>2. CASE w # t
            BY <2>1, <4>2, <5>2
          <5> QED BY <5>1, <5>2
        <4> QED BY <4>1, <4>2
      <3> QED BY <3>1, <3>2
    <2>10. CoidsSpent'
      BY <2>9, <2>11 DEF CoidsSpent
    <2> QED BY <2>5, <2>10
  <1>5. ASSUME NEW t \in tasks, Panic(t) PROVE EntriesNumbered' /\ CoidsSpent'
    <2>1. PICK u \in Task :
            /\ tasks' = (tasks \ {t}) \cup {u}
            /\ u.kind = t.kind /\ u.slug = t.slug /\ u.leg = t.leg
            /\ \A v \in Venues : u.ack[v] = Answer("panic")
            /\ UNCHANGED <<nextIdx, pending, halt, coids>>
      <3>1. TaskShape(t)
        BY <1>1
      <3> QED BY <1>0, <1>5, <3>1, TaskPanicked DEF loopVars, venueVars
    <2>2. Asked(u.ack[Kalshi]) /\ CoidOf(u) = CoidOf(t)
      BY <2>1, VenueFacts, CoidFields DEF Asked, Answer
    <2>3. EntriesNumbered'
      BY <1>1, <2>1 DEF EntriesNumbered
    <2>4. CoidsSpent'
      BY <1>1, <2>1, <2>2 DEF CoidsSpent
    <2> QED BY <2>3, <2>4
  <1>6. ASSUME NEW t \in tasks, ApplyEntry(t) PROVE EntriesNumbered' /\ CoidsSpent'
    <2>1. /\ t \in Task /\ TaskShape(t) /\ t.kind = "Entry" /\ t.phase = "done" /\ t.slug \in Slugs
          /\ pending' = pending \ {t.slug} /\ coids' = coids /\ (halt => halt')
          /\ ApplyLock(t) \/ EntryMissed(t)
          /\ tasks' = tasks \ {t} \/ tasks' = (tasks \ {t}) \cup RecoverySells(t)
      <3>1. TaskShape(t)
        BY <1>1
      <3> QED BY <1>0, <1>6, <3>1, EntryApplied DEF venueVars
    <2>2. /\ \A u \in tasks' : u.kind = "Entry" => u \in tasks /\ u # t
          /\ \A u \in tasks : u # t => u \in tasks'
      BY <2>1, RecoveriesShaped
    <2>3. \A u \in tasks : u.kind = "Entry" /\ u # t => u.slug # t.slug
      BY <1>1, <2>1 DEF InFlightMarked, TasksOf, Task
    <2>4. /\ \A s \in Slugs : nextIdx'[s] >= nextIdx[s]
          /\ \A s \in Slugs \ {t.slug} : nextIdx'[s] = nextIdx[s]
          /\ nextIdx'[t.slug] = nextIdx[t.slug] + 1 \/ (EntryMissed(t) /\ ~ LandedOrder(t.ack))
      <3>1. \/ nextIdx' = [nextIdx EXCEPT ![t.slug] = @ + 1]
            \/ nextIdx' = nextIdx /\ EntryMissed(t) /\ ~ LandedOrder(t.ack)
        BY <2>1 DEF ApplyLock, EntryMissed
      <3> QED BY <1>1, <2>1, <3>1
    <2>5. EntriesNumbered'
      <3>1. \A u \in tasks' : u.kind = "Entry" => u.slug \in Slugs \ {t.slug}
        BY <1>1, <2>2, <2>3 DEF Task
      <3> QED BY <1>1, <2>2, <2>4, <3>1 DEF EntriesNumbered
    <2>6. ASSUME NEW c \in coids, c.kind = "Entry"
          PROVE  \/ c.idx < nextIdx'[c.slug]
                 \/ halt' /\ c.slug \notin pending'
                 \/ \E w \in tasks' : w.kind = "Entry" /\ CoidOf(w) = c /\ Asked(w.ack[Kalshi])
      <3>1. c.slug \in Slugs /\ c.idx \in Nat /\ nextIdx[c.slug] \in Nat
        BY <1>1, <2>6 DEF Coid
      <3>2. CASE c.idx < nextIdx[c.slug]
        <4>1. nextIdx'[c.slug] >= nextIdx[c.slug]
          BY <2>4, <3>1
        <4>2. nextIdx'[c.slug] \in Nat
          <5>1. (nextIdx \in [Slugs -> Nat])'
            BY <1>1, <2>1 DEF ApplyLock, EntryMissed
          <5> QED BY <3>1, <5>1
        <4> QED BY <3>1, <3>2, <4>1, <4>2
      <3>3. CASE halt /\ c.slug \notin pending
        BY <2>1, <3>3
      <3>4. ASSUME NEW w \in tasks, w.kind = "Entry", CoidOf(w) = c, Asked(w.ack[Kalshi])
            PROVE  \/ c.idx < nextIdx'[c.slug]
                   \/ halt' /\ c.slug \notin pending'
                   \/ \E x \in tasks' : x.kind = "Entry" /\ CoidOf(x) = c /\ Asked(x.ack[Kalshi])
        <4>1. CASE w # t
          BY <2>2, <3>4, <4>1
        <4>2. CASE w = t
          <5>1. c.slug = t.slug /\ c.idx = nextIdx[t.slug]
            BY <1>1, <2>1, <3>4, <4>2, CoidFields DEF EntriesNumbered
          <5>2. CASE nextIdx'[t.slug] = nextIdx[t.slug] + 1
            BY <3>1, <5>1, <5>2
          <5>3. CASE EntryMissed(t) /\ ~ LandedOrder(t.ack)
            <6>1. halt'
              BY <1>0, <1>6, <2>1, <3>4, <4>2, <5>3, UnspentHalts
            <6> QED BY <2>1, <5>1, <6>1
          <5> QED BY <2>4, <5>2, <5>3
        <4> QED BY <4>1, <4>2
      <3> QED BY <1>1, <2>6, <3>2, <3>3, <3>4 DEF CoidsSpent
    <2>7. CoidsSpent'
      BY <2>1, <2>6 DEF CoidsSpent
    <2> QED BY <2>5, <2>7
  <1>7. ASSUME NEW t \in tasks, ApplyFlatten(t) PROVE EntriesNumbered' /\ CoidsSpent'
    <2>1. /\ t.kind # "Entry" /\ tasks' = tasks \ {t}
          /\ UNCHANGED <<nextIdx, pending, coids>> /\ (halt => halt')
      BY <1>0, <1>7, FlattenApplied DEF venueVars
    <2> QED BY <1>2, <2>1
  <1>8. ASSUME NEW s \in Slugs, SpawnUnwind(s) PROVE EntriesNumbered' /\ CoidsSpent'
    <2>1. PICK u \in Task : /\ tasks' = tasks \cup {u} /\ u.kind = "Unwind"
                            /\ UNCHANGED <<nextIdx, pending, coids, halt>>
      BY <1>1, <1>8, UnwindSpawned DEF venueVars
    <2> QED BY <1>2, <2>1
  <1>9. ASSUME NEW s \in Slugs, NEW v \in Venues, LateFill(s, v) PROVE EntriesNumbered' /\ CoidsSpent'
    BY <1>2, <1>9 DEF LateFill, loopVars
  <1>10. CASE Idles
    BY <1>2, <1>10 DEF Idles, venueVars
  <1> QED BY <1>3, <1>4, <1>5, <1>6, <1>7, <1>8, <1>9, <1>10, Steps

\* An entry never posts to Kalshi under a client order id Kalshi has seen: the index moves on with
\* every outcome that may have burnt one, and the one that does not say halts (bookkeeping.rs 347-357).
THEOREM CoidsStayFresh == Spec => []EntryCoidFresh
  <1>1. Init => EntriesNumbered /\ CoidsSpent
    BY DEF Init, EntriesNumbered, CoidsSpent
  <1>2. CoidInv /\ [Next]_vars => EntriesNumbered' /\ CoidsSpent'
    BY CoidStep
  <1>3. CoidInv => EntryCoidFresh
    <2> SUFFICES ASSUME CoidInv, NEW t \in tasks, t.kind = "Entry", t.ack[Kalshi].res = "wait",
                        CoidOf(t) \in coids
                 PROVE  FALSE
      BY DEF EntryCoidFresh
    <2>1. /\ TypeOK /\ InFlightMarked /\ t.slug \in Slugs /\ t.leg.idx = nextIdx[t.slug]
          /\ nextIdx[t.slug] \in Nat
      BY DEF CoidInv, TypeOK, LoopTyped, Task, EntriesNumbered
    <2>2. CoidOf(t).kind = "Entry" /\ CoidOf(t).slug = t.slug /\ CoidOf(t).idx = nextIdx[t.slug]
      BY <2>1, CoidFields
    <2>3. t.slug \in pending /\ \A u \in tasks : u.kind = "Entry" /\ u.slug = t.slug => u = t
      BY <2>1, TheEntry DEF TasksOf
    <2>4. ~ (CoidOf(t).idx < nextIdx[CoidOf(t).slug])
      BY <2>1, <2>2
    <2>5. PICK u \in tasks : u.kind = "Entry" /\ CoidOf(u) = CoidOf(t) /\ Asked(u.ack[Kalshi])
      BY <2>2, <2>3, <2>4 DEF CoidInv, CoidsSpent
    <2>6. u.slug = t.slug
      BY <2>2, <2>5, CoidFields
    <2>7. u = t
      BY <2>3, <2>5, <2>6
    <2> QED BY <2>5, <2>7 DEF Asked
  <1> QED BY <1>1, <1>2, <1>3, TasksAlwaysShaped, OneEntryInFlight, PTL DEF Spec, CoidInv

(***************************************************************************)
(* The books and the venues                                                *)
(***************************************************************************)

\* What a task moved at a venue that the books do not show yet.
Net(t, v) ==
  IF t.kind = "Entry" THEN t.ack[v].qty
  ELSE IF t.kind = "Unwind" THEN 0 - t.ack[v].qty
  ELSE IF v = t.first THEN t.lots - t.ack[v].qty ELSE 0

InFlightNet(T, v) == SumFunction([t \in T |-> Net(t, v)])

\* An entry whose answer does not say what its order moved.
Unsure(t) == t.kind = "Entry" /\ \E v \in Venues : t.ack[v].res \in {"vague", "limited"}

On(s) == {t \in tasks : t.slug = s}

Balanced(s) ==
  \A v \in Venues : real[s][v] = HeldLots(positions[s]) + InFlightNet(On(s), v)

\* At each venue a slug holds its legs and what its tasks in flight moved, unless an answer in flight
\* does not say or the owner was called.
BooksBalance ==
  \A s \in Slugs \ alarmed : (\A t \in On(s) : ~ Unsure(t)) => Balanced(s)

\* No order rests and no submission panicked.
Quiet ==
  /\ \A s \in Slugs, v \in Venues : resting[s][v] = 0
  /\ \A t \in tasks, v \in Venues : t.ack[v].res # "panic"

\* Two submissions are never taken for one another.
TasksApart ==
  /\ \A t \in tasks : t.id < (IF t.kind = "Unwind" THEN unwindsFired ELSE entriesFired)
  /\ \A t, u \in tasks :
       t.kind = u.kind /\ t.slug = u.slug /\ t.id = u.id /\ t.first = u.first => t = u
  /\ \A t, u \in tasks : t.kind = "Entry" /\ u.kind = "Recovery" /\ t.slug = u.slug => t.id # u.id

\* An unwind in flight closes the front leg, or can no longer be filled at Kalshi: of the unwinds that
\* share a client order id, Kalshi fills one.
UnwindsClose ==
  /\ \A t \in tasks : t.kind = "Unwind" =>
       \/ positions[t.slug] # <<>> /\ Head(positions[t.slug]) = t.leg
       \/ CoidOf(t) \in coids /\ t.ack[Kalshi].qty = 0
  /\ \A t \in tasks : t.kind = "Unwind" /\ t.ack[Kalshi].qty > 0 => CoidOf(t) \in coids
  /\ \A t, u \in tasks :
       /\ t.kind = "Unwind" /\ u.kind = "Unwind" /\ CoidOf(t) = CoidOf(u)
       /\ t.ack[Kalshi].qty > 0 /\ u.ack[Kalshi].qty > 0
       => t = u

MatchInv ==
  /\ TypeOK /\ TasksShaped /\ InFlightMarked /\ RecoverySlotExclusive
  /\ Quiet /\ TasksApart /\ UnwindsClose /\ BooksBalance

\* The lots of the held legs, leg by leg.
LEMMA HeldLotsOf ==
  ASSUME NEW held \in Seq(Leg)
  PROVE  /\ HeldLots(held) \in Nat
         /\ \A leg \in Leg : HeldLots(Append(held, leg)) = HeldLots(held) + Lot * leg.size
         /\ held # <<>> => HeldLots(held) = Lot * Head(held).size + HeldLots(Tail(held))
  <1> DEFINE w == [leg \in Leg |-> Lot * leg.size]
  <1>1. w \in [Leg -> Nat] /\ \A leg \in Leg : w[leg] = Lot * leg.size
    BY DEF Lot, Leg
  <1>2. ASSUME NEW h \in Seq(Leg) PROVE HeldLots(h) = SumFunction(Weighed(w, h))
    <2>1. \A i \in DOMAIN h : h[i] \in Leg
      BY LenProperties, ElementOfSeq
    <2>2. Weighed(w, h) = [i \in DOMAIN h |-> Lot * h[i].size]
      BY <2>1 DEF Weighed
    <2> QED BY <2>2 DEF HeldLots
  <1> HIDE DEF w
  <1>3. HeldLots(held) \in Nat
    BY <1>1, <1>2, SumWeighed
  <1>4. ASSUME NEW leg \in Leg
        PROVE  HeldLots(Append(held, leg)) = HeldLots(held) + Lot * leg.size
    <2>1. Append(held, leg) \in Seq(Leg)
      BY AppendProperties
    <2> QED BY <1>1, <1>2, <2>1, WeighedGrows
  <1>5. ASSUME held # <<>>
        PROVE  HeldLots(held) = Lot * Head(held).size + HeldLots(Tail(held))
    <2>1. Tail(held) \in Seq(Leg) /\ Head(held) \in Leg
      BY <1>5, HeadTailProperties
    <2> QED BY <1>1, <1>2, <1>5, <2>1, WeighedShrinks
  <1> QED BY <1>3, <1>4, <1>5

\* What a task moved is a number.
LEMMA NetTyped ==
  ASSUME NEW t \in Task, NEW v \in Venues
  PROVE  Net(t, v) \in Int
  BY DEF Net, Task, Ack

\* What is in flight, without one of its tasks.
LEMMA NetLeaves ==
  ASSUME NEW T \in SUBSET Task, IsFiniteSet(T), NEW v \in Venues
  PROVE  /\ InFlightNet(T, v) \in Int
         /\ \A t \in T : InFlightNet(T, v) = Net(t, v) + InFlightNet(T \ {t}, v)
  <1>1. ASSUME NEW S \in SUBSET T
        PROVE  /\ InFlightNet(S, v) = SumFunctionOnSet([u \in T |-> Net(u, v)], S)
               /\ IsFiniteSet(S)
    <2> DEFINE f == [u \in S |-> Net(u, v)]
               g == [u \in T |-> Net(u, v)]
    <2>1. (\A u \in S : f[u] = g[u]) /\ DOMAIN f = S
      OBVIOUS
    <2>2. IsFiniteSet(S)
      BY FS_Subset
    <2> HIDE DEF f, g
    <2>3. SumFunctionOnSet(f, S) = SumFunctionOnSet(g, S)
      BY <2>1, <2>2, SumExtensional
    <2>4. SumFunction(f) = SumFunctionOnSet(g, S)
      BY <2>1, <2>3 DEF SumFunction
    <2> QED BY <2>2, <2>4 DEF f, g, InFlightNet
  <1> DEFINE g == [u \in T |-> Net(u, v)]
  <1>2. \A u \in T : g[u] = Net(u, v) /\ g[u] \in Int
    BY NetTyped
  <1>3. \A S \in SUBSET T : InFlightNet(S, v) = SumFunctionOnSet(g, S)
    BY <1>1
  <1> HIDE DEF g
  <1>4. SumFunctionOnSet(g, T) \in Int
    BY <1>2, SumType
  <1>5. ASSUME NEW t \in T PROVE InFlightNet(T, v) = Net(t, v) + InFlightNet(T \ {t}, v)
    <2>1. SumFunctionOnSet(g, T) = g[t] + SumFunctionOnSet(g, T \ {t})
      BY <1>2, SumTakesAny
    <2> QED BY <1>2, <1>3, <2>1
  <1> QED BY <1>3, <1>4, <1>5

\* What is in flight, with one more task.
LEMMA NetEnters ==
  ASSUME NEW T \in SUBSET Task, IsFiniteSet(T), NEW v \in Venues, NEW u \in Task, u \notin T
  PROVE  InFlightNet(T \cup {u}, v) = InFlightNet(T, v) + Net(u, v)
  <1> DEFINE S == T \cup {u}
  <1>1. S \in SUBSET Task /\ IsFiniteSet(S) /\ u \in S /\ S \ {u} = T
    BY FS_AddElement
  <1> HIDE DEF S
  <1>2. InFlightNet(S, v) = Net(u, v) + InFlightNet(T, v)
    BY <1>1, NetLeaves
  <1>3. InFlightNet(T, v) \in Int /\ Net(u, v) \in Int
    BY NetLeaves, NetTyped
  <1> QED BY <1>2, <1>3 DEF S

\* Nothing in flight moves nothing.
LEMMA NetOfNone == \A v : InFlightNet({}, v) = 0
  <1> TAKE v
  <1>1. DOMAIN [t \in {} |-> Net(t, v)] = {}
    OBVIOUS
  <1> QED BY <1>1, SumOfNothing DEF InFlightNet, SumFunction

\* The answers when no quirk but a death can happen: nothing rests, and what moves is read, but for
\* an entry whose answer is vague.
LEMMA QuietAnswers ==
  ASSUME Quirks \subseteq {"death"}, NEW t \in Task, NEW v \in Venues, NEW a \in Answers(t, v)
  PROVE  /\ a.rests = 0 /\ a.moved \in Nat
         /\ a.moved = a.ack.qty \/ (t.kind = "Entry" /\ a.ack.res \in {"vague", "limited"})
         /\ v = Kalshi /\ CoidOf(t) \in coids => a.ack.qty = 0
         /\ a.ack.qty > 0 => Landed(a)
  <1>1. /\ Unread(t) = {0} /\ \A n : Rests(t, n) = {0}
        /\ t.kind # "Entry" => Unheard(t) = {0}
    BY DEF Unread, Rests, Unheard
  <1>2. a.moved \in Nat
    BY AnswersTyped
  <1>3. CASE v = Kalshi /\ CoidOf(t) \in coids
    BY <1>2, <1>3 DEF Answers, Replies, Answer, Landed
  <1>4. CASE ~ (v = Kalshi /\ CoidOf(t) \in coids)
    <2>1. \/ a \in Replies({Fill(t.lots)}, {t.lots}, {0})
          \/ \E p \in Partials(v, t.lots) : a \in Replies({Fill(p)}, {p}, {0})
          \/ a \in Replies({Answer("ok")}, {0}, {0})
          \/ a \in Replies({Answer("rejected")}, {0}, {0})
          \/ a \in Replies({Answer("vague"), Answer("limited")}, Unheard(t), {0})
      BY <1>1, <1>4 DEF Answers
    <2> QED BY <1>1, <1>2, <1>4, <2>1 DEF Replies, Fill, Answer, Landed
  <1> QED BY <1>3, <1>4

\* An order of t was answered at v: it moved n lots, and left the task u.
Posted(t, v, u, n) ==
  /\ tasks' = (tasks \ {t}) \cup {u} /\ TaskShape(u)
  /\ u.kind = t.kind /\ u.slug = t.slug /\ u.id = t.id /\ u.leg = t.leg
  /\ u.lots = t.lots /\ u.first = t.first
  /\ t.ack[v].qty = 0 /\ u.ack[Other(v)].qty = t.ack[Other(v)].qty
  /\ u.ack[v].res \in Answered
  /\ u.ack[Other(v)].res \in {t.ack[Other(v)].res, "unsent"}
  /\ ~ Unsure(t) /\ (t.kind = "Recovery" => v = t.first)
  /\ n = u.ack[v].qty \/ (t.kind = "Entry" /\ u.ack[v].res \in {"vague", "limited"})
  /\ v = Kalshi /\ CoidOf(t) \in coids => u.ack[v].qty = 0
  /\ v = Kalshi /\ u.ack[v].qty > 0 => CoidOf(t) \in coids'
  /\ coids \subseteq coids'
  /\ real' = [real EXCEPT ![t.slug][v] = @ + Moved(t, n)] /\ resting' = resting
  /\ UNCHANGED <<positions, exposure, loopVars, halt, running, alarmed, unwindsFired>>

\* An order answered without a quirk.
LEMMA QuietPost ==
  ASSUME Quirks \subseteq {"death"}, TypeOK, NEW t \in tasks, TaskShape(t), Post(t)
  PROVE  \E v \in Venues, u \in Task, n \in Nat : Posted(t, v, u, n)
  <1>1. PICK a \in Answers(t, PostedAt(t)), u \in Task :
          /\ u = AfterPost(t, PostedAt(t), a.ack) /\ tasks' = (tasks \ {t}) \cup {u}
          /\ TaskShape(u)
          /\ u.kind = t.kind /\ u.slug = t.slug /\ u.id = t.id /\ u.leg = t.leg
          /\ u.lots = t.lots /\ u.first = t.first
          /\ real' = [real EXCEPT ![t.slug][PostedAt(t)] = @ + Moved(t, a.moved)]
          /\ resting' = [resting EXCEPT ![t.slug][PostedAt(t)] = @ + a.rests]
          /\ coids' = IF PostedAt(t) = Kalshi /\ Landed(a) THEN coids \cup {CoidOf(t)} ELSE coids
          /\ UNCHANGED <<positions, exposure, loopVars, halt, running, alarmed, unwindsFired>>
    BY OrderPosted
  <1>2. PICK v \in Venues : v = PostedAt(t)
    BY PostedAtTyped DEF TypeOK
  <1>3. /\ t \in Task /\ t.slug \in Slugs /\ t.phase \in {"first", "second"} /\ t.first \in Venues
        /\ v = (IF t.phase = "first" THEN t.first ELSE Other(t.first))
        /\ Venues = {v, Other(v)} /\ Other(Other(v)) = v /\ Other(Other(t.first)) = t.first
    BY <1>2 DEF TypeOK, Task, Post, PostedAt, Venues, Other, Kalshi, Pmus
  <1>4. a.ack \in Ack /\ a.ack.res \in Answered
    BY <1>2, <1>3, AnswersFit
  <1>5. /\ a.rests = 0 /\ a.moved \in Nat
        /\ a.moved = a.ack.qty \/ (t.kind = "Entry" /\ a.ack.res \in {"vague", "limited"})
        /\ v = Kalshi /\ CoidOf(t) \in coids => a.ack.qty = 0
        /\ a.ack.qty > 0 => Landed(a)
    BY <1>2, <1>3, QuietAnswers
  <1>6. /\ u.ack[v] = a.ack
        /\ t.kind = "Recovery" \/ t.phase = "second" => u.ack[Other(v)] = t.ack[Other(v)]
        /\ t.kind # "Recovery" /\ t.phase # "second" /\ Filled(a.ack, t.lots) =>
             u.ack[Other(v)] = t.ack[Other(v)]
        /\ t.kind # "Recovery" /\ t.phase # "second" /\ ~ Filled(a.ack, t.lots) =>
             u.ack[Other(v)] = Answer("unsent")
    <2>1. u = AfterPost(t, v, a.ack)
      BY <1>1, <1>2
    <2> QED BY <1>3, <1>4, <2>1, AfterPostPhases
  <1>7. \/ u.ack[Other(v)] = t.ack[Other(v)]
        \/ t.phase = "first" /\ u.ack[Other(v)] = Answer("unsent")
    BY <1>3, <1>6
  <1>8. /\ \A w \in Venues : t.ack[w].res # "ok" => t.ack[w].qty = 0
        /\ t.phase = "first" => \A w \in Venues : t.ack[w].res = "wait"
        /\ t.phase = "second" => /\ t.kind # "Recovery" /\ t.ack[t.first].res = "ok"
                                 /\ t.ack[Other(t.first)].res = "wait"
    BY DEF TaskShape, Filled
  <1>9. t.ack[v].qty = 0 /\ u.ack[Other(v)].qty = t.ack[Other(v)].qty
    <2>1. t.ack[v].res = "wait" /\ t.ack[v].qty = 0
      BY <1>3, <1>8
    <2>2. Answer("unsent").qty = 0
      BY DEF Answer
    <2> QED BY <1>3, <1>7, <1>8, <2>1, <2>2
  <1>10. /\ ~ Unsure(t) /\ (t.kind = "Recovery" => v = t.first)
         /\ u.ack[Other(v)].res \in {t.ack[Other(v)].res, "unsent"}
    BY <1>3, <1>7, <1>8 DEF Unsure, Answer
  <1>11. resting' = resting
    BY <1>1, <1>2, <1>3, <1>5 DEF TypeOK, VenuesTyped
  <1>12. real' = [real EXCEPT ![t.slug][v] = @ + Moved(t, a.moved)]
    BY <1>1, <1>2
  <1>13. coids \subseteq coids' /\ (v = Kalshi /\ a.ack.qty > 0 => CoidOf(t) \in coids')
    BY <1>1, <1>2, <1>5
  <1>14. Posted(t, v, u, a.moved)
    BY <1>1, <1>4, <1>5, <1>6, <1>9, <1>10, <1>11, <1>12, <1>13 DEF Posted
  <1>15. a.moved \in Nat
    BY <1>5
  <1> QED BY <1>14, <1>15

\* Without a quirk no order rests and nothing panics.
LEMMA QuietStep ==
  ASSUME Quirks \subseteq {"death"}, TypeOK, TasksShaped, Quiet, [Next]_vars
  PROVE  Quiet'
  <1>1. /\ tasks \subseteq Task /\ \A t \in tasks : TaskShape(t)
        /\ resting \in [Slugs -> [Venues -> Nat]]
        /\ \A s \in Slugs, v \in Venues : resting[s][v] = 0
        /\ \A t \in tasks, v \in Venues : t.ack[v].res # "panic"
    BY DEF TypeOK, VenuesTyped, TasksShaped, Quiet
  <1>0. TypeOK
    OBVIOUS
  <1>2. ASSUME resting' = resting, NEW N, tasks' \subseteq tasks \cup N,
               \A u \in N, v \in Venues : u.ack[v].res # "panic"
        PROVE  Quiet'
    BY <1>1, <1>2 DEF Quiet
  <1>21. ASSUME resting' = resting, NEW u, tasks' \subseteq tasks \cup {u},
                \A v \in Venues : u.ack[v].res # "panic"
         PROVE  Quiet'
    <2>1. \A w \in {u}, v \in Venues : w.ack[v].res # "panic"
      BY <1>21
    <2> QED BY <1>2, <1>21, <2>1
  <1>22. ASSUME resting' = resting, tasks' \subseteq tasks
         PROVE  Quiet'
    BY <1>1, <1>22 DEF Quiet
  <1>3. \A u : TaskShape(u) /\ u.phase = "first" => \A v \in Venues : u.ack[v].res # "panic"
    BY DEF TaskShape
  <1>4. ASSUME NEW s \in Slugs, NEW e \in Edges, NEW depth \in Depths, NEW first \in Venues,
               FireEntry(s, e, depth, first)
        PROVE  Quiet'
    <2>0. PICK u \in Task, leg \in Leg : Entered(s, e, u, leg)
      BY <1>0, <1>4, EntryFired
    <2>1. /\ u \in Task
          /\ tasks' = tasks \cup {u} /\ TaskShape(u) /\ u.phase = "first"
          /\ UNCHANGED venueVars
      BY <2>0 DEF Entered
    <2> QED BY <1>3, <1>21, <2>1 DEF venueVars
  <1>5. ASSUME NEW t \in tasks, Post(t) PROVE Quiet'
    <2>1. PICK v \in Venues, u \in Task, n \in Nat : Posted(t, v, u, n)
      <3>1. TaskShape(t)
        BY <1>1
      <3> QED BY <1>0, <1>5, <3>1, QuietPost
    <2>2. /\ tasks' = (tasks \ {t}) \cup {u} /\ resting' = resting
          /\ u.ack[v].res \in Answered
          /\ u.ack[Other(v)].res \in {t.ack[Other(v)].res, "unsent"}
      BY <2>1 DEF Posted
    <2>3. \A w \in Venues : w = v \/ w = Other(v)
      BY DEF Venues, Other, Kalshi, Pmus
    <2>4. \A w \in Venues : u.ack[w].res # "panic"
      BY <1>1, <2>2, <2>3 DEF Answered
    <2> QED BY <1>21, <2>2, <2>4
  <1>6. ASSUME NEW t \in tasks, ApplyEntry(t) PROVE Quiet'
    <2>1. /\ t \in Task /\ TaskShape(t) /\ UNCHANGED venueVars
          /\ tasks' = tasks \ {t} \/ tasks' = (tasks \ {t}) \cup RecoverySells(t)
      <3>1. TaskShape(t)
        BY <1>1
      <3> QED BY <1>0, <1>6, <3>1, EntryApplied
    <2>2. \A u \in RecoverySells(t) : TaskShape(u) /\ u.phase = "first"
      BY <2>1, RecoveriesShaped
    <2>3. resting' = resting
      BY <2>1 DEF venueVars
    <2>4. CASE tasks' = tasks \ {t}
      BY <1>22, <2>3, <2>4
    <2>5. CASE tasks' = (tasks \ {t}) \cup RecoverySells(t)
      <3>1. \A u \in RecoverySells(t), v \in Venues : u.ack[v].res # "panic"
        BY <1>3, <2>2
      <3> QED BY <1>2, <2>3, <2>5, <3>1
    <2> QED BY <2>1, <2>4, <2>5
  <1>7. ASSUME NEW t \in tasks, ApplyFlatten(t) PROVE Quiet'
    <2>1. tasks' = tasks \ {t} /\ UNCHANGED venueVars
      BY <1>0, <1>7, FlattenApplied
    <2> QED BY <1>22, <2>1 DEF venueVars
  <1>8. ASSUME NEW s \in Slugs, SpawnUnwind(s) PROVE Quiet'
    <2>1. PICK u \in Task : tasks' = tasks \cup {u} /\ TaskShape(u) /\ u.phase = "first"
      BY <1>8, UnwindSpawned
    <2>2. resting' = resting
      BY <1>8 DEF SpawnUnwind, venueVars
    <2> QED BY <1>3, <1>21, <2>1, <2>2
  <1>9. CASE Idles
    BY <1>22, <1>9 DEF Idles, venueVars
  <1>10. ~ (\E s \in Slugs, v \in Venues : LateFill(s, v)) /\ ~ \E t \in tasks : Panic(t)
    BY <1>1 DEF LateFill, Panic
  <1> QED BY <1>4, <1>5, <1>6, <1>7, <1>8, <1>9, <1>10, Steps

\* A recovery has one SELL at a venue.
LEMMA RecoveriesApart ==
  ASSUME NEW t, NEW u \in RecoverySells(t), NEW w \in RecoverySells(t), u.first = w.first
  PROVE  u = w
  BY DEF RecoverySells, NewTask

\* The number of the submissions of a task's kind.
FiredOf(t) == IF t.kind = "Unwind" THEN unwindsFired ELSE entriesFired

\* Each step keeps the submissions apart.
LEMMA TasksApartStep ==
  ASSUME TypeOK, TasksShaped, InFlightMarked, TasksApart, [Next]_vars
  PROVE  TasksApart'
  <1>1. /\ tasks \subseteq Task /\ (\A t \in tasks : TaskShape(t))
        /\ entriesFired \in Nat /\ unwindsFired \in Nat /\ \A t \in Task : t.id \in Nat
        /\ \A t \in tasks : t.id < FiredOf(t)
        /\ \A t, u \in tasks :
             t.kind = u.kind /\ t.slug = u.slug /\ t.id = u.id /\ t.first = u.first => t = u
        /\ \A t, u \in tasks :
             t.kind = "Entry" /\ u.kind = "Recovery" /\ t.slug = u.slug => t.id # u.id
    BY DEF TypeOK, LoopTyped, TasksShaped, TasksApart, FiredOf, Task
  <1>0. TypeOK
    OBVIOUS
  <1>2. ASSUME NEW N, tasks' \subseteq tasks \cup N,
               entriesFired' \in Nat, unwindsFired' \in Nat,
               entriesFired' >= entriesFired, unwindsFired' >= unwindsFired,
               \A u \in N : u.id < (IF u.kind = "Unwind" THEN unwindsFired' ELSE entriesFired'),
               \A u \in N, w \in tasks' :
                 u.kind = w.kind /\ u.slug = w.slug /\ u.id = w.id /\ u.first = w.first => u = w,
               \A u \in N, w \in tasks' :
                 {u.kind, w.kind} = {"Entry", "Recovery"} /\ u.slug = w.slug => u.id # w.id
        PROVE  TasksApart'
    <2>1. ASSUME NEW t \in tasks'
          PROVE  t.id < (IF t.kind = "Unwind" THEN unwindsFired' ELSE entriesFired')
      <3>1. CASE t \in N
        BY <1>2, <3>1
      <3>2. CASE t \in tasks
        <4>1. t.id \in Nat /\ t.id < FiredOf(t)
          BY <1>1, <3>2
        <4> QED BY <1>1, <1>2, <4>1 DEF FiredOf
      <3> QED BY <1>2, <2>1, <3>1, <3>2
    <2>2. ASSUME NEW t \in tasks', NEW u \in tasks', t.kind = u.kind, t.slug = u.slug, t.id = u.id,
                 t.first = u.first
          PROVE  t = u
      BY <1>1, <1>2, <2>2
    <2>3. ASSUME NEW t \in tasks', NEW u \in tasks', t.kind = "Entry", u.kind = "Recovery",
                 t.slug = u.slug
          PROVE  t.id # u.id
      <3>1. CASE t \in N \/ u \in N
        BY <1>2, <2>3, <3>1
      <3>2. CASE t \in tasks /\ u \in tasks
        BY <1>1, <2>3, <3>2
      <3> QED BY <1>2, <3>1, <3>2
    <2> QED BY <2>1, <2>2, <2>3 DEF TasksApart
  <1>21. ASSUME NEW u, tasks' = tasks \cup {u},
                entriesFired' \in Nat, unwindsFired' \in Nat,
                entriesFired' >= entriesFired, unwindsFired' >= unwindsFired,
                u.id < (IF u.kind = "Unwind" THEN unwindsFired' ELSE entriesFired'),
                u.kind \in {"Entry", "Unwind"},
                \A w \in tasks : (w.kind = "Unwind") = (u.kind = "Unwind") => u.id # w.id
         PROVE  TasksApart'
    <2> DEFINE N == {u}
    <2>1. /\ tasks' \subseteq tasks \cup N
          /\ \A x \in N : x.id < (IF x.kind = "Unwind" THEN unwindsFired' ELSE entriesFired')
          /\ \A x \in N, w \in tasks' :
                 x.kind = w.kind /\ x.slug = w.slug /\ x.id = w.id /\ x.first = w.first => x = w
          /\ \A x \in N, w \in tasks' :
                 {x.kind, w.kind} = {"Entry", "Recovery"} /\ x.slug = w.slug => x.id # w.id
      BY <1>21
    <2> HIDE DEF N
    <2> QED BY <1>2, <1>21, <2>1
  <1>3. ASSUME tasks' \subseteq tasks, UNCHANGED <<entriesFired, unwindsFired>>
        PROVE  TasksApart'
    BY <1>1, <1>3 DEF TasksApart, FiredOf
  <1>4. ASSUME NEW t \in tasks, NEW u \in Task, tasks' = (tasks \ {t}) \cup {u}, u.kind = t.kind,
               u.slug = t.slug, u.id = t.id, u.first = t.first,
               UNCHANGED <<entriesFired, unwindsFired>>
        PROVE  TasksApart'
    BY <1>1, <1>4 DEF TasksApart, FiredOf
  <1>5. ASSUME NEW s \in Slugs, NEW e \in Edges, NEW depth \in Depths, NEW first \in Venues,
               FireEntry(s, e, depth, first)
        PROVE  TasksApart'
    <2>0. PICK u \in Task, leg \in Leg : Entered(s, e, u, leg)
      BY <1>0, <1>5, EntryFired
    <2>1. /\ u \in Task
          /\ tasks' = tasks \cup {u} /\ u.kind = "Entry" /\ u.id = entriesFired
          /\ entriesFired' = entriesFired + 1 /\ unwindsFired' = unwindsFired
      BY <2>0 DEF Entered
    <2>2. \A w \in tasks : w.kind # "Unwind" => w.id < entriesFired
      BY <1>1 DEF FiredOf
    <2>3. \A w \in tasks : w.kind # "Unwind" => w.id # u.id
      BY <1>1, <2>1, <2>2
    <2> QED BY <1>1, <1>21, <2>1, <2>3
  <1>6. ASSUME NEW t \in tasks, Post(t) PROVE TasksApart'
    <2>1. PICK u \in Task :
            /\ tasks' = (tasks \ {t}) \cup {u} /\ u.kind = t.kind /\ u.slug = t.slug /\ u.id = t.id
            /\ u.first = t.first /\ UNCHANGED <<loopVars, unwindsFired>>
      <3>1. TaskShape(t)
        BY <1>1
      <3> QED BY <1>0, <1>6, <3>1, OrderPosted
    <2> QED BY <1>4, <2>1 DEF loopVars
  <1>7. ASSUME NEW t \in tasks, Panic(t) PROVE TasksApart'
    <2>1. PICK u \in Task :
            /\ tasks' = (tasks \ {t}) \cup {u} /\ u.kind = t.kind /\ u.slug = t.slug /\ u.id = t.id
            /\ u.first = t.first /\ UNCHANGED <<loopVars, unwindsFired>>
      <3>1. TaskShape(t)
        BY <1>1
      <3> QED BY <1>0, <1>7, <3>1, TaskPanicked
    <2> QED BY <1>4, <2>1 DEF loopVars
  <1>8. ASSUME NEW t \in tasks, ApplyEntry(t) PROVE TasksApart'
    <2>1. /\ t \in Task /\ TaskShape(t) /\ t.kind = "Entry" /\ UNCHANGED <<entriesFired, unwindsFired>>
          /\ tasks' = tasks \ {t} \/ tasks' = (tasks \ {t}) \cup RecoverySells(t)
      <3>1. TaskShape(t)
        BY <1>1
      <3> QED BY <1>0, <1>8, <3>1, EntryApplied
    <2>2. CASE tasks' = (tasks \ {t}) \cup RecoverySells(t)
      <3>1. \A u \in RecoverySells(t) : u.kind = "Recovery" /\ u.slug = t.slug /\ u.id = t.id
        BY <2>1, RecoveriesShaped
      <3>2. t.id \in Nat /\ t.id < entriesFired
        BY <1>1, <2>1 DEF FiredOf
      <3>3. \A w \in tasks : w.slug = t.slug /\ w.kind = "Recovery" => w.id # t.id
        BY <1>1, <2>1
      <3>4. \A w \in tasks : w.slug = t.slug /\ w.kind = "Entry" => w = t
        BY <2>1, TheEntry DEF TasksOf
      <3>5. ASSUME NEW u \in RecoverySells(t), NEW w \in tasks', u.kind = w.kind, u.slug = w.slug,
                   u.id = w.id, u.first = w.first
            PROVE  u = w
        <4>1. w \in RecoverySells(t)
          BY <2>2, <3>1, <3>3, <3>5
        <4> QED BY <3>5, <4>1, RecoveriesApart
      <3>6. ASSUME NEW u \in RecoverySells(t), NEW w \in tasks', w.kind = "Entry", u.slug = w.slug
            PROVE  FALSE
        BY <2>2, <3>1, <3>4, <3>6
      <3>7. \A u \in RecoverySells(t), w \in tasks' :
              {u.kind, w.kind} = {"Entry", "Recovery"} /\ u.slug = w.slug => u.id # w.id
        BY <3>1, <3>6
      <3>8. \A u \in RecoverySells(t) :
              u.id < (IF u.kind = "Unwind" THEN unwindsFired' ELSE entriesFired')
        BY <2>1, <3>1, <3>2
      <3> QED BY <1>1, <1>2, <2>1, <2>2, <3>5, <3>7, <3>8, SMTT(60)
    <2> QED BY <1>3, <2>1, <2>2
  <1>9. ASSUME NEW t \in tasks, ApplyFlatten(t) PROVE TasksApart'
    <2>1. tasks' = tasks \ {t} /\ UNCHANGED <<entriesFired, unwindsFired>>
      BY <1>0, <1>9, FlattenApplied
    <2> QED BY <1>3, <2>1
  <1>10. ASSUME NEW s \in Slugs, SpawnUnwind(s) PROVE TasksApart'
    <2>1. PICK u \in Task : /\ tasks' = tasks \cup {u} /\ u.kind = "Unwind" /\ u.id = unwindsFired
                            /\ unwindsFired' = unwindsFired + 1 /\ entriesFired' = entriesFired
      BY <1>10, UnwindSpawned
    <2>2. \A w \in tasks : w.kind = "Unwind" => w.id < unwindsFired
      BY <1>1 DEF FiredOf
    <2>3. \A w \in tasks : w.kind = "Unwind" => w.id # u.id
      BY <1>1, <2>1, <2>2
    <2> QED BY <1>1, <1>21, <2>1, <2>3
  <1>11. ASSUME NEW s \in Slugs, NEW v \in Venues, LateFill(s, v) PROVE TasksApart'
    BY <1>3, <1>11 DEF LateFill, loopVars
  <1>12. CASE Idles
    BY <1>3, <1>12 DEF Idles
  <1> QED BY <1>5, <1>6, <1>7, <1>8, <1>9, <1>10, <1>11, <1>12, Steps

\* Each step keeps the unwinds to the legs they close.
LEMMA UnwindsCloseStep ==
  ASSUME Quirks \subseteq {"death"}, TypeOK, TasksShaped, UnwindsClose, [Next]_vars
  PROVE  UnwindsClose'
  <1>1. /\ tasks \subseteq Task /\ (\A t \in tasks : TaskShape(t))
        /\ positions \in [Slugs -> Seq(Leg)] /\ \A t \in Task : t.slug \in Slugs
        /\ \A t \in tasks : t.kind = "Unwind" =>
             \/ positions[t.slug] # <<>> /\ Head(positions[t.slug]) = t.leg
             \/ CoidOf(t) \in coids /\ t.ack[Kalshi].qty = 0
        /\ \A t \in tasks : t.kind = "Unwind" /\ t.ack[Kalshi].qty > 0 => CoidOf(t) \in coids
        /\ \A t, u \in tasks :
             /\ t.kind = "Unwind" /\ u.kind = "Unwind" /\ CoidOf(t) = CoidOf(u)
             /\ t.ack[Kalshi].qty > 0 /\ u.ack[Kalshi].qty > 0
             => t = u
    BY DEF TypeOK, LoopTyped, TasksShaped, UnwindsClose, Task
  <1>0. TypeOK
    OBVIOUS
  <1>2. ASSUME coids \subseteq coids', \A t \in tasks' : t.kind = "Unwind" => t \in tasks,
               \A t \in tasks' : t.kind = "Unwind" =>
                 \/ positions'[t.slug] # <<>> /\ Head(positions'[t.slug]) = t.leg
                 \/ CoidOf(t) \in coids /\ t.ack[Kalshi].qty = 0
        PROVE  UnwindsClose'
    BY <1>1, <1>2 DEF UnwindsClose
  <1>3. ASSUME positions' = positions, coids \subseteq coids',
               \A t \in tasks' : t.kind = "Unwind" => t \in tasks
        PROVE  UnwindsClose'
    BY <1>1, <1>2, <1>3
  <1>4. ASSUME NEW s \in Slugs, NEW e \in Edges, NEW depth \in Depths, NEW first \in Venues,
               FireEntry(s, e, depth, first)
        PROVE  UnwindsClose'
    <2>0. PICK u \in Task, leg \in Leg : Entered(s, e, u, leg)
      BY <1>0, <1>4, EntryFired
    <2>1. /\ u \in Task
          /\ tasks' = tasks \cup {u} /\ u.kind = "Entry"
          /\ UNCHANGED <<positions, venueVars>>
      BY <2>0 DEF Entered
    <2> QED BY <1>3, <2>1 DEF venueVars
  <1>5. ASSUME NEW t \in tasks, Post(t) PROVE UnwindsClose'
    <2>1. PICK v \in Venues, u \in Task, n \in Nat : Posted(t, v, u, n)
      <3>1. TaskShape(t)
        BY <1>1
      <3> QED BY <1>0, <1>5, <3>1, QuietPost
    <2>2. /\ tasks' = (tasks \ {t}) \cup {u} /\ positions' = positions /\ coids \subseteq coids'
          /\ u.kind = t.kind /\ u.slug = t.slug /\ u.leg = t.leg
          /\ u.ack[Other(v)].qty = t.ack[Other(v)].qty
          /\ v = Kalshi /\ CoidOf(t) \in coids => u.ack[v].qty = 0
          /\ v = Kalshi /\ u.ack[v].qty > 0 => CoidOf(t) \in coids'
      BY <2>1 DEF Posted
    <2>3. CASE t.kind # "Unwind"
      BY <1>3, <2>2, <2>3
    <2>4. CASE t.kind = "Unwind"
      <3>1. v = Kalshi \/ (v = Pmus /\ Other(v) = Kalshi)
        BY DEF Venues, Other, Kalshi, Pmus
      <3>2. CoidOf(u) = CoidOf(t) /\ u.ack[Kalshi].qty \in Nat /\ t.ack[Kalshi].qty \in Nat
        BY <1>1, <2>2, CoidFields, VenueFacts DEF Task, Ack
      <3>3. /\ CoidOf(t) \in coids /\ t.ack[Kalshi].qty = 0 => u.ack[Kalshi].qty = 0
            /\ u.ack[Kalshi].qty > 0 => CoidOf(t) \in coids'
            /\ u.ack[Kalshi].qty > 0 => CoidOf(t) \notin coids \/ t.ack[Kalshi].qty > 0
        BY <1>1, <2>2, <2>4, <3>1, <3>2
      <3>4. ASSUME NEW w \in tasks', w.kind = "Unwind"
            PROVE  /\ \/ positions'[w.slug] # <<>> /\ Head(positions'[w.slug]) = w.leg
                      \/ CoidOf(w) \in coids' /\ w.ack[Kalshi].qty = 0
                   /\ w.ack[Kalshi].qty > 0 => CoidOf(w) \in coids'
        <4>1. CASE w \in tasks
          BY <1>1, <2>2, <3>4, <4>1
        <4>2. CASE w = u
          BY <1>1, <2>2, <2>4, <3>2, <3>3, <4>2
        <4> QED BY <2>2, <4>1, <4>2
      <3>5. ASSUME NEW w \in tasks, w # t, w.kind = "Unwind", CoidOf(w) = CoidOf(u),
                   w.ack[Kalshi].qty > 0, u.ack[Kalshi].qty > 0
            PROVE  FALSE
        BY <1>1, <2>4, <3>2, <3>3, <3>5
      <3>6. \A w, x \in tasks' :
              /\ w.kind = "Unwind" /\ x.kind = "Unwind" /\ CoidOf(w) = CoidOf(x)
              /\ w.ack[Kalshi].qty > 0 /\ x.ack[Kalshi].qty > 0
              => w = x
        BY <1>1, <2>2, <3>5
      <3> QED BY <3>4, <3>6 DEF UnwindsClose
    <2> QED BY <2>3, <2>4
  <1>6. ASSUME NEW t \in tasks, ApplyEntry(t) PROVE UnwindsClose'
    <2>1. /\ t \in Task /\ TaskShape(t) /\ UNCHANGED venueVars
          /\ tasks' = tasks \ {t} \/ tasks' = (tasks \ {t}) \cup RecoverySells(t)
          /\ positions' = positions \/ ApplyLock(t)
      <3>1. TaskShape(t)
        BY <1>1
      <3> QED BY <1>0, <1>6, <3>1, EntryApplied
    <2>2. \A u \in tasks' : u.kind = "Unwind" => u \in tasks
      BY <2>1, RecoveriesShaped
    <2>3. CASE ApplyLock(t)
      <3>1. positions' = [positions EXCEPT ![t.slug] = Append(@, t.leg)] /\ t.leg \in Leg
        BY <2>1, <2>3 DEF ApplyLock, Task
      <3>2. ASSUME NEW s \in Slugs, positions[s] # <<>>
            PROVE  positions'[s] # <<>> /\ Head(positions'[s]) = Head(positions[s])
        <4>1. CASE s = t.slug
          <5>1. positions'[s] = Append(positions[s], t.leg) /\ positions[s] \in Seq(Leg)
            BY <1>1, <3>1, <4>1
          <5> QED BY <3>1, <3>2, <5>1
        <4>2. CASE s # t.slug
          BY <1>1, <3>1, <3>2, <4>2
        <4> QED BY <4>1, <4>2
      <3> QED BY <1>1, <1>2, <2>1, <2>2, <3>2 DEF venueVars
    <2> QED BY <1>3, <2>1, <2>2, <2>3 DEF venueVars
  <1>7. ASSUME NEW t \in tasks, ApplyFlatten(t) PROVE UnwindsClose'
    <2>1. /\ tasks' = tasks \ {t} /\ UNCHANGED venueVars
          /\ positions' = positions \/ ApplyUnwound(t)
      BY <1>0, <1>7, FlattenApplied
    <2>2. CASE ApplyUnwound(t)
      <3>1. /\ t.kind = "Unwind" /\ Filled(t.ack[Kalshi], t.lots) /\ t.slug \in Slugs
            /\ positions[t.slug] # <<>> =>
                 positions' = [positions EXCEPT ![t.slug] = Tail(@)]
            /\ positions[t.slug] = <<>> => positions' = positions
        BY <1>1, <2>2, VenueFacts DEF ApplyUnwound, Outcome, BothFilled
      <3>2. t.ack[Kalshi].qty > 0 /\ t.ack[Kalshi].qty # 0
        <4>1. t.lots > 0 /\ t.lots \in Nat /\ t.ack[Kalshi].qty \in Nat
          BY <1>1, VenueFacts DEF TaskShape, Task, Ack
        <4> QED BY <3>1, <4>1 DEF Filled
      <3>3. positions[t.slug] # <<>> /\ Head(positions[t.slug]) = t.leg /\ CoidOf(t) \in coids
        BY <1>1, <3>1, <3>2
      <3>4. ASSUME NEW u \in tasks', u.kind = "Unwind"
            PROVE  \/ positions'[u.slug] # <<>> /\ Head(positions'[u.slug]) = u.leg
                   \/ CoidOf(u) \in coids /\ u.ack[Kalshi].qty = 0
        <4>1. u \in tasks /\ u # t /\ u.slug \in Slugs
          BY <1>1, <2>1
        <4>2. CASE CoidOf(u) \in coids /\ u.ack[Kalshi].qty = 0
          BY <4>2
        <4>3. CASE /\ positions[u.slug] # <<>> /\ Head(positions[u.slug]) = u.leg
                   /\ u.slug # t.slug
          BY <1>1, <3>1, <3>3, <4>1, <4>3
        <4>4. CASE Head(positions[u.slug]) = u.leg /\ u.slug = t.slug
          <5>1. CoidOf(u) = CoidOf(t)
            BY <3>1, <3>3, <3>4, <4>4, CoidFields
          <5>2. ~ (u.ack[Kalshi].qty > 0)
            BY <1>1, <3>1, <3>2, <3>4, <4>1, <5>1
          <5>3. u.ack[Kalshi].qty \in Nat
            BY <1>1, <4>1, VenueFacts DEF Task, Ack
          <5> QED BY <3>3, <5>1, <5>2, <5>3
        <4> QED BY <1>1, <3>4, <4>1, <4>2, <4>3, <4>4
      <3> QED BY <1>2, <2>1, <3>4 DEF venueVars
    <2> QED BY <1>3, <2>1, <2>2 DEF venueVars
  <1>8. ASSUME NEW s \in Slugs, SpawnUnwind(s) PROVE UnwindsClose'
    <2>1. PICK u \in Task : /\ tasks' = tasks \cup {u} /\ TaskShape(u) /\ u.phase = "first"
                            /\ u.kind = "Unwind" /\ u.slug = s /\ positions[s] # <<>>
                            /\ u.leg = Head(positions[s]) /\ positions' = positions
      BY <1>8, UnwindSpawned
    <2>2. coids' = coids
      BY <1>8 DEF SpawnUnwind, venueVars
    <2>3. ~ (u.ack[Kalshi].qty > 0)
      BY <2>1, VenueFacts DEF TaskShape
    <2> QED BY <1>1, <2>1, <2>2, <2>3 DEF UnwindsClose
  <1>9. ASSUME NEW s \in Slugs, NEW v \in Venues, LateFill(s, v) PROVE UnwindsClose'
    BY <1>3, <1>9 DEF LateFill
  <1>10. CASE Idles
    BY <1>3, <1>10 DEF Idles, venueVars
  <1>11. ~ \E t \in tasks : Panic(t)
    BY DEF Panic
  <1> QED BY <1>4, <1>5, <1>6, <1>7, <1>8, <1>9, <1>10, <1>11, Steps

\* What an entry that did not lock was answered: its first leg decided alone, or the second did not
\* fill after it.
LEMMA MissKinds ==
  ASSUME NEW t \in Task, TaskShape(t), t.phase = "done", t.kind = "Entry", ~ BothFilled(t.ack, t.lots),
         \A v \in Venues : t.ack[v].res # "panic", NEW f, f = t.first, NEW o, o = Other(t.first)
  PROVE  /\ f \in Venues /\ o \in Venues /\ Venues = {f, o} /\ f # o /\ Other(f) = o /\ Other(o) = f
         /\ t.lots > 0 /\ t.lots \in Nat
         /\ \A v \in Venues : t.ack[v].qty \in Nat /\ (t.ack[v].res # "ok" => t.ack[v].qty = 0)
         /\ \/ /\ t.ack[f].res \in Answered /\ ~ Filled(t.ack[f], t.lots) /\ t.ack[o].res = "unsent"
               /\ LiveFill(t.ack[f]) => EntryMiss(t.ack) = "NakedOrOther"
               /\ ~ LiveFill(t.ack[f]) /\ t.ack[f].res = "ok" => EntryMiss(t.ack) = "CleanAbort"
               /\ t.ack[f].res # "ok" => EntryMiss(t.ack) = "AmbiguousAbort"
            \/ /\ Filled(t.ack[f], t.lots) /\ t.ack[o].res \in Answered /\ ~ Filled(t.ack[o], t.lots)
               /\ EntryMiss(t.ack) = "NakedOrOther"
  <1>1. /\ f \in Venues /\ o \in Venues /\ Venues = {f, o} /\ f # o /\ Other(f) = o /\ Other(o) = f
    BY DEF Venues, Kalshi, Pmus, Other, Task
  <1>2. /\ t.lots > 0 /\ t.lots \in Nat
        /\ \A v \in Venues : t.ack[v].qty \in Nat /\ (t.ack[v].res # "ok" => t.ack[v].qty = 0)
    BY DEF TaskShape, Task, Ack
  <1>3. \/ t.ack[f].res \in Answered /\ ~ Filled(t.ack[f], t.lots) /\ t.ack[o].res = "unsent"
        \/ Filled(t.ack[f], t.lots) /\ t.ack[o].res \in Answered
    BY <1>1 DEF TaskShape
  <1>4. CASE t.ack[f].res \in Answered /\ ~ Filled(t.ack[f], t.lots) /\ t.ack[o].res = "unsent"
    <2>1. (CHOOSE v \in Venues : t.ack[Other(v)].res = "unsent") = f
      <3>1. t.ack[Other(f)].res = "unsent" /\ f \in Venues
        BY <1>1, <1>4
      <3>2. \A v \in Venues : t.ack[Other(v)].res = "unsent" => v = f
        BY <1>1, <1>4 DEF Answered
      <3> QED BY <3>1, <3>2
    <2>2. ~ (\A v \in Venues : t.ack[v].res # "unsent")
      BY <1>1, <1>4
    <2>3. EntryMiss(t.ack) = IF LiveFill(t.ack[f]) THEN "NakedOrOther"
                             ELSE IF t.ack[f].res = "ok" THEN "CleanAbort" ELSE "AmbiguousAbort"
      BY <2>1, <2>2 DEF EntryMiss
    <2>4. t.ack[f].res # "ok" => ~ LiveFill(t.ack[f])
      BY DEF LiveFill
    <2> QED BY <1>1, <1>2, <1>4, <2>3, <2>4
  <1>5. CASE Filled(t.ack[f], t.lots) /\ t.ack[o].res \in Answered
    <2>1. ~ Filled(t.ack[o], t.lots)
      BY <1>1, <1>5 DEF BothFilled
    <2>2. \A v \in Venues : t.ack[v].res # "unsent"
      BY <1>1, <1>5 DEF Filled, Answered
    <2>3. EntryMiss(t.ack) = "NakedOrOther"
      BY <2>2 DEF EntryMiss
    <2> QED BY <1>1, <1>2, <1>5, <2>1, <2>3
  <1> QED BY <1>3, <1>4, <1>5

\* An entry that leaves without a recovery and without a halt filled nothing, and said so.
LEMMA MissSure ==
  ASSUME NEW t \in Task, TaskShape(t), t.phase = "done", t.kind = "Entry", ~ BothFilled(t.ack, t.lots),
         \A v \in Venues : t.ack[v].res # "panic", flattening[t.slug] # "Recovery",
         ApplyCleanAbort(t) \/ ApplyAmbiguousAbort(t) \/ ApplyNakedHalt(t), t.slug \notin alarmed'
  PROVE  ~ Unsure(t) /\ \A v \in Venues : t.ack[v].qty = 0
  <1> DEFINE f == t.first
             o == Other(t.first)
  <1>1. /\ f \in Venues /\ o \in Venues /\ Venues = {f, o} /\ f # o /\ Other(f) = o /\ Other(o) = f
        /\ t.lots > 0 /\ t.lots \in Nat
        /\ \A v \in Venues : t.ack[v].qty \in Nat /\ (t.ack[v].res # "ok" => t.ack[v].qty = 0)
        /\ \/ /\ t.ack[f].res \in Answered /\ ~ Filled(t.ack[f], t.lots) /\ t.ack[o].res = "unsent"
              /\ LiveFill(t.ack[f]) => EntryMiss(t.ack) = "NakedOrOther"
              /\ ~ LiveFill(t.ack[f]) /\ t.ack[f].res = "ok" => EntryMiss(t.ack) = "CleanAbort"
              /\ t.ack[f].res # "ok" => EntryMiss(t.ack) = "AmbiguousAbort"
           \/ /\ Filled(t.ack[f], t.lots) /\ t.ack[o].res \in Answered /\ ~ Filled(t.ack[o], t.lots)
              /\ EntryMiss(t.ack) = "NakedOrOther"
    BY MissKinds
  <1> HIDE DEF f, o
  <1>2. CASE EntryMiss(t.ack) = "NakedOrOther"
    <2>1. ApplyNakedHalt(t)
      BY <1>2 DEF ApplyCleanAbort, ApplyAmbiguousAbort
    <2>2. HalfFilled(t.ack, t.lots)
      <3>1. LiveFill(t.ack[f]) /\ ~ Filled(t.ack[Other(f)], t.lots)
        BY <1>1, <1>2 DEF LiveFill, Filled
      <3> QED BY <1>1, <3>1 DEF HalfFilled
    <2>3. t.slug \in alarmed'
      BY <2>1, <2>2 DEF ApplyNakedHalt, FailClose, Halt
    <2> QED BY <2>3
  <1>3. CASE EntryMiss(t.ack) = "CleanAbort"
    <2>1. t.ack[f].res = "ok" /\ t.ack[f].qty = 0 /\ t.ack[o].res = "unsent" /\ t.ack[o].qty = 0
      BY <1>1, <1>3 DEF LiveFill
    <2> QED BY <1>1, <2>1 DEF Unsure
  <1>4. CASE EntryMiss(t.ack) = "AmbiguousAbort"
    <2>1. /\ t.ack[f].res # "ok" /\ t.ack[f].res \in Answered /\ t.ack[o].res = "unsent"
          /\ t.ack[f].qty = 0 /\ t.ack[o].qty = 0
      BY <1>1, <1>4
    <2>2. ApplyAmbiguousAbort(t)
      BY <1>4 DEF ApplyCleanAbort, ApplyNakedHalt
    <2>3. \E v \in Venues : DefiniteNotFilled(t.ack[v])
      BY <2>2 DEF ApplyAmbiguousAbort, Halt
    <2>4. t.ack[f].res = "rejected"
      BY <1>1, <2>1, <2>3 DEF DefiniteNotFilled
    <2> QED BY <1>1, <2>1, <2>4 DEF Unsure
  <1> QED BY <1>1, <1>2, <1>3, <1>4

\* An entry whose naked legs are sold again said what each leg filled.
LEMMA RecoverSure ==
  ASSUME NEW t \in Task, TaskShape(t), t.phase = "done", t.kind = "Entry", ~ BothFilled(t.ack, t.lots),
         \A v \in Venues : t.ack[v].res # "panic", Recoverable(t)
  PROVE  ~ Unsure(t) /\ \A v \in Venues \ NakedVenues(t.ack) : t.ack[v].qty = 0
  <1>1. \A v \in Venues : t.ack[v].qty \in Nat /\ (t.ack[v].res # "ok" => t.ack[v].qty = 0)
    BY DEF TaskShape, Task, Ack
  <1>2. ASSUME NEW v \in Venues PROVE t.ack[v].res \notin {"vague", "limited"}
    BY DEF Recoverable, UnfilledLegsKnown, NakedVenues, LiveFill, IsErr, DefiniteNotFilled
  <1> QED BY <1>1, <1>2 DEF Unsure, NakedVenues, LiveFill

\* The recovery SELLs of an entry take over what it filled, venue by venue.
LEMMA RecoveriesNet ==
  ASSUME NEW t \in Task, NEW R \in SUBSET Task, IsFiniteSet(R), NEW v \in Venues,
         TaskShape(t), \A w \in Venues \ NakedVenues(t.ack) : t.ack[w].qty = 0,
         \A u \in RecoverySells(t) : u \notin R
  PROVE  InFlightNet(R \cup RecoverySells(t), v) = InFlightNet(R, v) + t.ack[v].qty
  <1> DEFINE N == RecoverySells(t)
             S == {u \in N : u.first # v}
  <1>1. /\ IsFiniteSet(N) /\ N \subseteq Task
        /\ \A u \in N : /\ u.kind = "Recovery" /\ u.first \in NakedVenues(t.ack)
                        /\ u.lots = t.ack[u.first].qty /\ \A w \in Venues : u.ack[w].qty = 0
    <2>1. \A u : TaskShape(u) /\ u.phase = "first" => \A w \in Venues : u.ack[w].qty = 0
      BY DEF TaskShape
    <2> QED BY <2>1, RecoveriesShaped
  <1>2. \A u, w \in N : u.first = w.first => u = w
    BY RecoveriesApart
  <1>3. v \in NakedVenues(t.ack) => \E u \in N : u.first = v
    <2>1. ASSUME v \in NakedVenues(t.ack) PROVE \E u \in N : u.first = v
      <3>1. NewTask("Recovery", t.slug, t.id, t.leg, t.ack[v].qty, v) \in N
        BY <2>1 DEF RecoverySells
      <3>2. NewTask("Recovery", t.slug, t.id, t.leg, t.ack[v].qty, v).first = v
        BY DEF NewTask
      <3> QED BY <3>1, <3>2
    <2> QED BY <2>1
  <1>4. \A u \in N : u \notin R
    OBVIOUS
  <1>5. S \subseteq N /\ \A u \in S : u.first # v
    OBVIOUS
  <1>6. \A u \in N \ S : u.first = v
    OBVIOUS
  <1>7. InFlightNet(R, v) \in Int /\ t.ack[v].qty \in Nat
    BY NetLeaves DEF Task, Ack
  <1> HIDE DEF N, S
  \* The sells at the other venue net to nothing here.
  <1>8. /\ InFlightNet(R \cup S, v) = InFlightNet(R, v)
        /\ R \cup S \in SUBSET Task /\ IsFiniteSet(R \cup S)
    <2>1. R \cup S \in SUBSET Task /\ IsFiniteSet(R \cup S)
      BY <1>1, <1>5, FS_Union, FS_Subset
    <2>2. CASE S = {}
      <3>1. R \cup S = R
        BY <2>2
      <3> QED BY <2>1, <3>1
    <2>3. CASE S # {}
      <3>1. PICK u \in S : S = {u}
        <4>1. PICK u \in S : TRUE
          BY <2>3
        <4>2. \A w \in S : w.first = u.first
          BY <1>1, <1>5, <4>1 DEF NakedVenues, Venues, Kalshi, Pmus
        <4> QED BY <1>2, <1>5, <4>1, <4>2
      <3>2. u \in Task /\ u \notin R /\ Net(u, v) = 0
        BY <1>1, <1>4, <1>5, <3>1 DEF Net
      <3>3. InFlightNet(R \cup {u}, v) = InFlightNet(R, v) + Net(u, v)
        BY <3>2, NetEnters
      <3> QED BY <1>7, <2>1, <3>1, <3>2, <3>3
    <2> QED BY <2>2, <2>3
  <1>9. CASE N = S
    <2>1. v \notin NakedVenues(t.ack)
      BY <1>3, <1>5, <1>9
    <2>2. t.ack[v].qty = 0
      BY <2>1
    <2>3. InFlightNet(R \cup N, v) = InFlightNet(R, v) + t.ack[v].qty
      BY <1>7, <1>8, <1>9, <2>2
    <2> QED BY <2>3 DEF N
  <1>10. CASE N # S
    <2>1. PICK u \in N : u \notin S
      BY <1>5, <1>10
    <2>2. u.first = v /\ \A w \in N \ S : w = u
      BY <1>2, <1>6, <2>1
    <2>3. u \in Task /\ u \notin R \cup S /\ Net(u, v) = t.ack[v].qty
      BY <1>1, <1>4, <1>7, <2>1, <2>2 DEF Net
    <2>4. R \cup N = (R \cup S) \cup {u}
      BY <1>5, <2>1, <2>2
    <2> DEFINE T == R \cup S
    <2>5. T \in SUBSET Task /\ IsFiniteSet(T) /\ u \notin T
      BY <1>8, <2>3
    <2> HIDE DEF T
    <2>6. InFlightNet(T \cup {u}, v) = InFlightNet(T, v) + Net(u, v)
      BY <2>3, <2>5, NetEnters
    <2>7. InFlightNet(R \cup N, v) = InFlightNet(R, v) + t.ack[v].qty
      BY <1>8, <2>3, <2>4, <2>6 DEF T
    <2> QED BY <2>7 DEF N
  <1> QED BY <1>9, <1>10

\* The balance of a slug after the step.
LEMMA BalancedNext ==
  ASSUME NEW s
  PROVE  Balanced(s)' <=>
           \A v \in Venues : real'[s][v] = HeldLots(positions'[s]) + InFlightNet(On(s)', v)
  BY DEF Balanced

\* Each step moves the books, the venues and what is in flight together.
LEMMA BalanceStep ==
  ASSUME Quirks \subseteq {"death"}, MatchInv, [Next]_vars, TypeOK'
  PROVE  BooksBalance'
  <1>1. /\ TypeOK /\ TasksShaped /\ InFlightMarked /\ RecoverySlotExclusive
        /\ tasks \subseteq Task /\ (\A t \in tasks : TaskShape(t)) /\ IsFiniteSet(tasks)
        /\ positions \in [Slugs -> Seq(Leg)] /\ real \in [Slugs -> [Venues -> Int]]
        /\ (\A s \in Slugs, v \in Venues : resting[s][v] = 0)
        /\ (\A t \in tasks, v \in Venues : t.ack[v].res # "panic")
        /\ \A t \in Task : t.slug \in Slugs
    BY DEF MatchInv, TypeOK, LoopTyped, VenuesTyped, TasksShaped, Quiet, Task
  <1>0. TypeOK
    BY <1>1
  <1>2. ASSUME NEW s PROVE On(s) \in SUBSET Task /\ IsFiniteSet(On(s))
    <2>1. On(s) \subseteq tasks
      BY DEF On
    <2> QED BY <1>1, <2>1, FS_Subset
  <1>3. /\ \A s \in Slugs \ alarmed : (\A t \in On(s) : ~ Unsure(t)) => Balanced(s)
        /\ \A s : Balanced(s) =>
             \A v \in Venues : real[s][v] = HeldLots(positions[s]) + InFlightNet(On(s), v)
    BY DEF MatchInv, BooksBalance, Balanced
  <1>4. \A s \in Slugs, v \in Venues :
          real[s][v] \in Int /\ HeldLots(positions[s]) \in Int /\ InFlightNet(On(s), v) \in Int
    <2>1. ASSUME NEW s \in Slugs, NEW v \in Venues
          PROVE  real[s][v] \in Int /\ HeldLots(positions[s]) \in Int /\ InFlightNet(On(s), v) \in Int
      <3>1. real[s][v] \in Int /\ positions[s] \in Seq(Leg)
        BY <1>1
      <3>2. InFlightNet(On(s), v) \in Int
        BY <1>2, NetLeaves
      <3>3. HeldLots(positions[s]) \in Nat
        BY <3>1, HeldLotsOf
      <3> QED BY <3>1, <3>2, <3>3
    <2> QED BY <2>1
  \* Only what happens to one slug matters.
  <1>5. ASSUME NEW s \in Slugs, alarmed \subseteq alarmed',
               \A r \in Slugs \ {s} :
                 real'[r] = real[r] /\ positions'[r] = positions[r] /\ On(r)' = On(r),
               s \notin alarmed' /\ (\A t \in On(s)' : ~ Unsure(t)) => Balanced(s)'
        PROVE  BooksBalance'
    <2>1. ASSUME NEW r \in Slugs, r \notin alarmed', \A t \in On(r)' : ~ Unsure(t)
          PROVE  Balanced(r)'
      <3>1. CASE r = s
        BY <1>5, <2>1, <3>1
      <3>2. CASE r # s
        <4>1. real'[r] = real[r] /\ positions'[r] = positions[r] /\ On(r)' = On(r) /\ r \notin alarmed
          BY <1>5, <2>1, <3>2
        <4>2. Balanced(r)
          BY <1>3, <2>1, <4>1
        <4> QED BY <1>3, <4>1, <4>2, BalancedNext
      <3> QED BY <3>1, <3>2
    <2> QED BY <2>1 DEF BooksBalance
  <1>6. ASSUME UNCHANGED <<real, positions, tasks>>, alarmed \subseteq alarmed'
        PROVE  BooksBalance'
    <2>1. \A s : On(s)' = On(s)
      BY <1>6 DEF On
    <2>2. ASSUME NEW s \in Slugs, s \notin alarmed', \A t \in On(s)' : ~ Unsure(t)
          PROVE  Balanced(s)'
      BY <1>3, <1>6, <2>1, <2>2, BalancedNext
    <2> QED BY <2>2 DEF BooksBalance
  \* A submission is spawned, and has moved nothing yet.
  <1>7. ASSUME NEW u \in Task, u \notin tasks, tasks' = tasks \cup {u}, TaskShape(u),
               u.phase = "first", u.kind \in {"Entry", "Unwind"},
               UNCHANGED <<real, positions, alarmed>>
        PROVE  BooksBalance'
    <2>1. \A v \in Venues : Net(u, v) = 0
      BY <1>7 DEF TaskShape, Net
    <2>2. u.slug \in Slugs /\ On(u.slug)' = On(u.slug) \cup {u} /\ u \notin On(u.slug)
          /\ \A r : r # u.slug => On(r)' = On(r)
      BY <1>1, <1>7 DEF On
    <2>3. ASSUME u.slug \notin alarmed', \A t \in On(u.slug)' : ~ Unsure(t) PROVE Balanced(u.slug)'
      <3>1. \A v \in Venues : real[u.slug][v] = HeldLots(positions[u.slug]) + InFlightNet(On(u.slug), v)
        BY <1>3, <1>7, <2>2, <2>3
      <3>2. ASSUME NEW v \in Venues
            PROVE  InFlightNet(On(u.slug)', v) = InFlightNet(On(u.slug), v)
        <4>1. InFlightNet(On(u.slug) \cup {u}, v) = InFlightNet(On(u.slug), v) + Net(u, v)
          BY <1>2, <1>7, <2>2, NetEnters
        <4> QED BY <1>4, <2>1, <2>2, <4>1
      <3> QED BY <1>7, <3>1, <3>2, BalancedNext
    <2> QED BY <1>5, <1>7, <2>2, <2>3
  \* A submission leaves, and the books take in what it moved.
  <1>8. ASSUME NEW t \in tasks, tasks' = tasks \ {t}, real' = real, alarmed \subseteq alarmed',
               \A r \in Slugs \ {t.slug} : positions'[r] = positions[r],
               t.slug \notin alarmed' =>
                 /\ ~ Unsure(t)
                 /\ \A v \in Venues :
                      HeldLots(positions'[t.slug]) = HeldLots(positions[t.slug]) + Net(t, v)
        PROVE  BooksBalance'
    <2>1. /\ t.slug \in Slugs /\ On(t.slug)' = On(t.slug) \ {t} /\ t \in On(t.slug) /\ t \in Task
          /\ \A r : r # t.slug => On(r)' = On(r)
      BY <1>1, <1>8 DEF On
    <2>2. ASSUME t.slug \notin alarmed', \A u \in On(t.slug)' : ~ Unsure(u) PROVE Balanced(t.slug)'
      <3>1. \A v \in Venues : real[t.slug][v] = HeldLots(positions[t.slug]) + InFlightNet(On(t.slug), v)
        BY <1>3, <1>8, <2>1, <2>2
      <3>2. ASSUME NEW v \in Venues
            PROVE  real'[t.slug][v] = HeldLots(positions'[t.slug]) + InFlightNet(On(t.slug)', v)
        <4>1. InFlightNet(On(t.slug), v) = Net(t, v) + InFlightNet(On(t.slug) \ {t}, v)
          BY <1>2, <2>1, NetLeaves
        <4>2. On(t.slug) \ {t} \in SUBSET Task /\ IsFiniteSet(On(t.slug) \ {t})
          BY <1>2, FS_Subset
        <4>3. InFlightNet(On(t.slug) \ {t}, v) \in Int /\ Net(t, v) \in Int
          BY <2>1, <4>2, NetLeaves, NetTyped
        <4>4. HeldLots(positions'[t.slug]) = HeldLots(positions[t.slug]) + Net(t, v)
          BY <1>8, <2>2
        <4>5. real'[t.slug][v] = real[t.slug][v] /\ HeldLots(positions[t.slug]) \in Int
          BY <1>4, <1>8, <2>1
        <4> DEFINE h == HeldLots(positions[t.slug])
                   n == InFlightNet(On(t.slug) \ {t}, v)
                   m == Net(t, v)
        <4>6. real'[t.slug][v] = h + (m + n) /\ HeldLots(positions'[t.slug]) = h + m
              /\ InFlightNet(On(t.slug)', v) = n
          BY <2>1, <3>1, <4>1, <4>4, <4>5
        <4>7. h \in Int /\ n \in Int /\ m \in Int
          BY <4>3, <4>5
        <4> HIDE DEF h, n, m
        <4> QED BY <4>6, <4>7
      <3> QED BY <3>2, BalancedNext
    <2> QED BY <1>5, <1>8, <2>1, <2>2
  <1>9. ASSUME NEW s \in Slugs, NEW e \in Edges, NEW depth \in Depths, NEW first \in Venues,
               FireEntry(s, e, depth, first)
        PROVE  BooksBalance'
    <2>0. PICK u \in Task, leg \in Leg : Entered(s, e, u, leg)
      BY <1>0, <1>9, EntryFired
    <2>1. /\ u \in Task
          /\ tasks' = tasks \cup {u} /\ TaskShape(u) /\ u.phase = "first"
          /\ u.kind = "Entry" /\ u.id = entriesFired
          /\ UNCHANGED <<positions, venueVars, alarmed>>
      BY <2>0 DEF Entered
    <2>2. u \notin tasks
      <3>1. u \in tasks => u.id < entriesFired
        BY <2>1 DEF MatchInv, TasksApart
      <3>2. entriesFired \in Nat
        BY <1>0 DEF TypeOK, LoopTyped
      <3> QED BY <2>1, <3>1, <3>2
    <2> QED BY <1>7, <2>1, <2>2 DEF venueVars
  <1>10. ASSUME NEW s \in Slugs, SpawnUnwind(s) PROVE BooksBalance'
    <2>1. PICK u \in Task : /\ tasks' = tasks \cup {u} /\ TaskShape(u) /\ u.phase = "first"
                            /\ u.kind = "Unwind" /\ u.id = unwindsFired
      BY <1>1, <1>10, UnwindSpawned
    <2>2. u \notin tasks
      <3>1. u \in tasks => u.id < unwindsFired
        BY <2>1 DEF MatchInv, TasksApart
      <3>2. unwindsFired \in Nat
        BY <1>0 DEF TypeOK, LoopTyped
      <3> QED BY <2>1, <3>1, <3>2
    <2>3. UNCHANGED <<real, positions, alarmed>>
      BY <1>10 DEF SpawnUnwind, venueVars
    <2> QED BY <1>7, <2>1, <2>2, <2>3
  <1>11. ASSUME NEW t \in tasks, ApplyFlatten(t) PROVE BooksBalance'
    <2>1. /\ t \in Task /\ TaskShape(t) /\ t.kind # "Entry" /\ t.slug \in Slugs
          /\ tasks' = tasks \ {t} /\ real' = real
      BY <1>0, <1>1, <1>11, FlattenApplied DEF venueVars
    <2>2. /\ ~ Unsure(t) /\ t.lots > 0 /\ t.lots \in Nat /\ positions[t.slug] \in Seq(Leg)
          /\ \A v \in Venues : /\ t.ack[v].qty \in Nat /\ t.ack[v].qty <= t.lots
                               /\ (t.ack[v].res # "ok" => t.ack[v].qty = 0)
      BY <1>1, <2>1 DEF Unsure, TaskShape, Task, Ack
    <2>3. CASE ApplyUnwound(t)
      <3>1. t.kind = "Unwind" /\ \A v \in Venues : t.ack[v].qty = t.lots
        BY <2>2, <2>3 DEF ApplyUnwound, Outcome, BothFilled, Filled
      <3>2. t.ack[Kalshi].qty # 0
        BY <2>2, <3>1, VenueFacts
      <3>3. positions[t.slug] # <<>> /\ Head(positions[t.slug]) = t.leg
        BY <3>1, <3>2 DEF MatchInv, UnwindsClose
      <3>4. positions' = [positions EXCEPT ![t.slug] = Tail(@)] /\ alarmed' = alarmed
        BY <2>3, <3>3 DEF ApplyUnwound
      <3>5. HeldLots(positions[t.slug]) = Lot * t.leg.size + HeldLots(Tail(positions[t.slug]))
        BY <2>2, <3>3, HeldLotsOf
      <3>6. t.lots = Lot * t.leg.size
        BY <2>1, <3>1 DEF TaskShape
      <3>7. Tail(positions[t.slug]) \in Seq(Leg)
        BY <2>2, <3>3, HeadTailProperties
      <3>8. HeldLots(Tail(positions[t.slug])) \in Nat
        BY <3>7, HeldLotsOf
      <3>9. positions'[t.slug] = Tail(positions[t.slug])
            /\ \A r \in Slugs \ {t.slug} : positions'[r] = positions[r]
        BY <1>1, <2>1, <3>4
      <3>10. \A v \in Venues : Net(t, v) = 0 - t.lots
        BY <3>1 DEF Net
      <3>11. \A v \in Venues : HeldLots(positions'[t.slug]) = HeldLots(positions[t.slug]) + Net(t, v)
        BY <2>2, <3>5, <3>6, <3>8, <3>9, <3>10
      <3> QED BY <1>8, <2>1, <2>2, <3>4, <3>9, <3>11
    <2>4. ASSUME positions' = positions, alarmed \subseteq alarmed',
                 t.slug \notin alarmed' => \A v \in Venues : Net(t, v) = 0
          PROVE  BooksBalance'
      <3>1. HeldLots(positions[t.slug]) \in Nat
        BY <2>2, HeldLotsOf
      <3>2. t.slug \notin alarmed' => \A v \in Venues :
              HeldLots(positions'[t.slug]) = HeldLots(positions[t.slug]) + Net(t, v)
        BY <2>4, <3>1
      <3> QED BY <1>8, <2>1, <2>2, <2>4, <3>2
    <2>5. CASE ApplyUnwindFailed(t)
      <3>1. /\ positions' = positions /\ t.kind = "Unwind" /\ ~ BothFilled(t.ack, t.lots)
            /\ alarmed \subseteq alarmed'
            /\ t.slug \notin alarmed' => ~ HalfFilled(t.ack, t.lots)
        BY <2>5 DEF ApplyUnwindFailed, Outcome, FailClose, Halt, NoHalt
      <3>2. ASSUME t.slug \notin alarmed', NEW v \in Venues PROVE Net(t, v) = 0
        <4>1. Venues = {v, Other(v)} /\ Other(v) \in Venues /\ Other(Other(v)) = v
          BY DEF Venues, Other, Kalshi, Pmus
        <4>2. ~ LiveFill(t.ack[v])
          <5>1. LiveFill(t.ack[v]) => Filled(t.ack[Other(v)], t.lots)
            BY <3>1, <3>2 DEF HalfFilled
          <5>2. Filled(t.ack[Other(v)], t.lots) => LiveFill(t.ack[Other(v)])
            BY <2>2, <4>1 DEF LiveFill, Filled
          <5>3. LiveFill(t.ack[Other(v)]) => Filled(t.ack[v], t.lots)
            BY <3>1, <3>2, <4>1 DEF HalfFilled
          <5> QED BY <3>1, <4>1, <5>1, <5>2, <5>3 DEF BothFilled
        <4>3. t.ack[v].qty = 0
          BY <2>2, <4>2 DEF LiveFill
        <4> QED BY <3>1, <4>3 DEF Net
      <3> QED BY <2>4, <3>1, <3>2
    <2>6. CASE ApplyRecovery(t)
      <3>1. /\ positions' = positions /\ t.kind = "Recovery" /\ alarmed \subseteq alarmed'
            /\ t.slug \notin alarmed' => Filled(t.ack[t.first], t.lots)
        BY <2>6 DEF ApplyRecovery, Outcome, Halt, NoHalt
      <3>2. ASSUME t.slug \notin alarmed', NEW v \in Venues PROVE Net(t, v) = 0
        <4>1. t.ack[t.first].qty = t.lots
          BY <2>1, <2>2, <3>1, <3>2 DEF Filled, Task
        <4> QED BY <2>2, <3>1, <4>1 DEF Net
      <3> QED BY <2>4, <3>1, <3>2
    <2> QED BY <1>11, <2>3, <2>5, <2>6 DEF ApplyFlatten
  <1>12. CASE Idles
    BY <1>6, <1>12 DEF Idles, venueVars
  <1>13. ~ (\E s \in Slugs, v \in Venues : LateFill(s, v)) /\ ~ \E t \in tasks : Panic(t)
    BY <1>1 DEF LateFill, Panic
  <1>14. ASSUME NEW t \in tasks, Post(t) PROVE BooksBalance'
    <2>1. PICK v \in Venues, u \in Task, n \in Nat : Posted(t, v, u, n)
      <3>1. TaskShape(t)
        BY <1>1
      <3> QED BY <1>0, <1>14, <3>1, QuietPost
    <2>2. /\ tasks' = (tasks \ {t}) \cup {u}
          /\ u.kind = t.kind /\ u.slug = t.slug /\ u.id = t.id
          /\ u.lots = t.lots /\ u.first = t.first
          /\ t.ack[v].qty = 0 /\ u.ack[Other(v)].qty = t.ack[Other(v)].qty
          /\ ~ Unsure(t) /\ (t.kind = "Recovery" => v = t.first)
          /\ n = u.ack[v].qty \/ (t.kind = "Entry" /\ u.ack[v].res \in {"vague", "limited"})
          /\ real' = [real EXCEPT ![t.slug][v] = @ + Moved(t, n)]
          /\ positions' = positions /\ alarmed' = alarmed
      BY <2>1 DEF Posted
    <2>3. /\ t \in Task /\ t.slug \in Slugs /\ v # Other(v) /\ Venues = {v, Other(v)}
          /\ t.lots \in Int /\ u.ack[v].qty \in Int /\ t.ack[Other(v)].qty \in Int
      BY <1>1 DEF Task, Ack, Venues, Other, Kalshi, Pmus
    <2>4. u \notin tasks \ {t}
      BY <2>2 DEF MatchInv, TasksApart
    <2> DEFINE s == t.slug
               R == On(s) \ {t}
    <2>5. /\ On(s)' = R \cup {u} /\ u \notin R /\ t \in On(s)
          /\ \A r : r # s => On(r)' = On(r)
      BY <2>2, <2>4 DEF On
    <2>6. \A r \in Slugs \ {s} : real'[r] = real[r]
      BY <1>1, <2>2
    <2>7. real'[s][v] = real[s][v] + Moved(t, n) /\ real'[s][Other(v)] = real[s][Other(v)]
      BY <1>1, <2>2, <2>3
    <2>8. s \in Slugs /\ R \in SUBSET Task /\ IsFiniteSet(R)
      BY <1>2, <2>3, FS_Subset
    <2> HIDE DEF s, R
    <2>9. ASSUME s \notin alarmed', \A w \in On(s)' : ~ Unsure(w) PROVE Balanced(s)'
      <3>1. ~ Unsure(u) /\ \A w \in On(s) : ~ Unsure(w)
        BY <2>2, <2>5, <2>9 DEF R
      <3>2. n = u.ack[v].qty
        BY <2>2, <3>1 DEF Unsure
      <3>3. Net(u, v) = Net(t, v) + Moved(t, n) /\ Net(u, Other(v)) = Net(t, Other(v))
        <4>1. t.kind \in {"Entry", "Unwind", "Recovery"}
          BY <2>3 DEF Task, Kinds
        <4>2. CASE t.kind = "Entry"
          BY <2>2, <2>3, <3>2, <4>2 DEF Net, Moved
        <4>3. CASE t.kind = "Unwind"
          BY <2>2, <2>3, <3>2, <4>3 DEF Net, Moved
        <4>4. CASE t.kind = "Recovery"
          BY <2>2, <2>3, <3>2, <4>4 DEF Net, Moved
        <4> QED BY <4>1, <4>2, <4>3, <4>4
      <3>4. \A w \in Venues : real[s][w] = HeldLots(positions[s]) + InFlightNet(On(s), w)
        BY <1>3, <2>2, <2>8, <2>9, <3>1
      <3>5. ASSUME NEW w \in Venues
            PROVE  real'[s][w] = HeldLots(positions'[s]) + InFlightNet(On(s)', w)
        <4>1. InFlightNet(On(s), w) = Net(t, w) + InFlightNet(R, w)
          BY <1>2, <2>5, NetLeaves DEF R
        <4>2. InFlightNet(R \cup {u}, w) = InFlightNet(R, w) + Net(u, w)
          BY <2>5, <2>8, NetEnters
        <4>3. InFlightNet(R, w) \in Int /\ Net(t, w) \in Int /\ Net(u, w) \in Int
          BY <2>3, <2>8, NetLeaves, NetTyped
        <4>4. Moved(t, n) \in Int /\ HeldLots(positions[s]) \in Int
          BY <1>4, <2>8 DEF Moved
        <4>5. real'[s][w] = real[s][w] + (Net(u, w) - Net(t, w))
          <5>1. real[s][w] \in Int
            BY <1>4, <2>8
          <5>2. CASE w = v
            BY <2>7, <3>3, <4>3, <4>4, <5>1, <5>2
          <5>3. CASE w = Other(v)
            BY <2>7, <3>3, <4>3, <5>1, <5>3
          <5> QED BY <2>3, <5>2, <5>3
        <4> DEFINE h == HeldLots(positions[s])
                   m == InFlightNet(R, w)
                   a == Net(t, w)
                   b == Net(u, w)
        <4>6. real'[s][w] = (h + (a + m)) + (b - a) /\ InFlightNet(On(s)', w) = m + b
              /\ HeldLots(positions'[s]) = h
          BY <2>2, <2>5, <3>4, <4>1, <4>2, <4>5
        <4>7. h \in Int /\ m \in Int /\ a \in Int /\ b \in Int
          BY <4>3, <4>4
        <4> HIDE DEF h, m, a, b
        <4> QED BY <4>6, <4>7
      <3> QED BY <3>5, BalancedNext
    <2> QED BY <1>5, <2>2, <2>5, <2>6, <2>8, <2>9
  <1>15. ASSUME NEW t \in tasks, ApplyEntry(t) PROVE BooksBalance'
    <2>1. /\ t \in Task /\ TaskShape(t) /\ t.kind = "Entry" /\ t.phase = "done" /\ t.slug \in Slugs
          /\ real' = real /\ t.slug \in pending
      BY <1>0, <1>1, <1>15, EntryApplied, TheEntry DEF venueVars
    <2>2. flattening[t.slug] # "Recovery"
      BY <1>1, <2>1 DEF RecoverySlotExclusive
    <2>3. /\ t.lots \in Nat /\ positions[t.slug] \in Seq(Leg) /\ t.leg \in Leg
          /\ HeldLots(positions[t.slug]) \in Nat /\ t.lots = Lot * t.leg.size
          /\ \A v \in Venues : t.ack[v].qty \in Nat /\ t.ack[v].qty <= t.lots
      <3>1. positions[t.slug] \in Seq(Leg)
        BY <1>1, <2>1
      <3>2. HeldLots(positions[t.slug]) \in Nat
        BY <3>1, HeldLotsOf
      <3> QED BY <2>1, <3>1, <3>2 DEF Task, TaskShape, Ack
    <2>4. CASE ApplyLock(t)
      <3>1. /\ positions' = [positions EXCEPT ![t.slug] = Append(@, t.leg)]
            /\ tasks' = tasks \ {t} /\ alarmed' = alarmed
            /\ \A v \in Venues : Filled(t.ack[v], t.lots)
        BY <2>4 DEF ApplyLock, BothFilled
      <3>2. positions'[t.slug] = Append(positions[t.slug], t.leg)
            /\ \A r \in Slugs \ {t.slug} : positions'[r] = positions[r]
        BY <1>1, <2>1, <3>1
      <3>3. HeldLots(positions'[t.slug]) = HeldLots(positions[t.slug]) + t.lots
        BY <2>3, <3>2, HeldLotsOf
      <3>4. ~ Unsure(t) /\ \A v \in Venues : Net(t, v) = t.lots
        BY <2>1, <2>3, <3>1 DEF Unsure, Net, Filled
      <3>5. \A v \in Venues : HeldLots(positions'[t.slug]) = HeldLots(positions[t.slug]) + Net(t, v)
        BY <3>3, <3>4
      <3> QED BY <1>8, <2>1, <3>1, <3>2, <3>4, <3>5
    <2>5. CASE ApplyCleanAbort(t) \/ ApplyAmbiguousAbort(t) \/ ApplyNakedHalt(t)
      <3>1. /\ ~ BothFilled(t.ack, t.lots) /\ tasks' = tasks \ {t} /\ positions' = positions
            /\ alarmed \subseteq alarmed'
        BY <2>5 DEF ApplyCleanAbort, ApplyAmbiguousAbort, ApplyNakedHalt, EntryMissed, FailClose,
                    Halt, NoHalt
      <3>2. ASSUME t.slug \notin alarmed' PROVE ~ Unsure(t) /\ \A v \in Venues : t.ack[v].qty = 0
        <4>1. \A v \in Venues : t.ack[v].res # "panic"
          BY <1>1
        <4> QED BY <2>1, <2>2, <2>5, <3>1, <3>2, <4>1, MissSure
      <3>3. t.slug \notin alarmed' => ~ Unsure(t) /\ \A v \in Venues :
              HeldLots(positions'[t.slug]) = HeldLots(positions[t.slug]) + Net(t, v)
        BY <2>1, <2>3, <3>1, <3>2 DEF Net
      <3> QED BY <1>8, <2>1, <3>1, <3>3
    <2>6. CASE ApplyRecover(t)
      <3>1. /\ ~ BothFilled(t.ack, t.lots) /\ Recoverable(t) /\ positions' = positions
            /\ tasks' = (tasks \ {t}) \cup RecoverySells(t) /\ alarmed' = alarmed
        BY <2>2, <2>6 DEF ApplyRecover, EntryMissed, NoHalt
      <3>2. ~ Unsure(t) /\ \A v \in Venues \ NakedVenues(t.ack) : t.ack[v].qty = 0
        <4>1. \A v \in Venues : t.ack[v].res # "panic"
          BY <1>1
        <4> QED BY <2>1, <3>1, <4>1, RecoverSure
      <3>3. PICK s \in Slugs, R \in SUBSET On(t.slug) : s = t.slug /\ R = On(s) \ {t}
        BY <2>1
      <3>4. /\ R \in SUBSET Task /\ IsFiniteSet(R) /\ t \in On(s)
        <4>1. t \in On(s) /\ R \subseteq On(s)
          BY <2>1, <3>3 DEF On
        <4> QED BY <1>2, <4>1, FS_Subset
      <3>5. \A u \in RecoverySells(t) :
              /\ u \in Task /\ u.kind = "Recovery" /\ u.slug = s /\ u.id = t.id
              /\ u.first \in NakedVenues(t.ack) /\ u.lots = t.ack[u.first].qty
              /\ \A v \in Venues : u.ack[v].qty = 0
        <4>1. \A u : TaskShape(u) /\ u.phase = "first" => \A v \in Venues : u.ack[v].qty = 0
          BY DEF TaskShape
        <4> QED BY <2>1, <3>3, <4>1, RecoveriesShaped
      <3>6. \A u \in RecoverySells(t) : u \notin tasks
        BY <2>1, <3>3, <3>5 DEF MatchInv, TasksApart
      <3>7. On(s)' = R \cup RecoverySells(t) /\ \A r : r # s => On(r)' = On(r)
        BY <3>1, <3>3, <3>5 DEF On
      <3>8. ASSUME NEW v \in Venues
            PROVE  InFlightNet(R \cup RecoverySells(t), v) = InFlightNet(R, v) + t.ack[v].qty
        <4>1. \A u \in RecoverySells(t) : u \notin R
          BY <3>3, <3>6 DEF On
        <4> QED BY <2>1, <3>2, <3>4, <4>1, RecoveriesNet
      <3>9. ASSUME s \notin alarmed', \A w \in On(s)' : ~ Unsure(w) PROVE Balanced(s)'
        <4>1. \A w \in On(s) : ~ Unsure(w)
          BY <3>2, <3>3, <3>7, <3>9
        <4>2. \A w \in Venues : real[s][w] = HeldLots(positions[s]) + InFlightNet(On(s), w)
          BY <1>3, <3>1, <3>3, <3>9, <4>1
        <4>3. \A w \in Venues : InFlightNet(On(s), w) = Net(t, w) + InFlightNet(R, w)
          BY <1>2, <3>3, <3>4, NetLeaves
        <4>4. \A w \in Venues : Net(t, w) = t.ack[w].qty /\ t.ack[w].qty \in Int
                                /\ InFlightNet(R, w) \in Int
          <5>1. ASSUME NEW w \in Venues PROVE InFlightNet(R, w) \in Int
            BY <3>4, NetLeaves
          <5> QED BY <2>1, <2>3, <5>1 DEF Net
        <4>5. ASSUME NEW w \in Venues PROVE InFlightNet(On(s)', w) = InFlightNet(On(s), w)
          <5>1. InFlightNet(On(s)', w) = InFlightNet(R, w) + t.ack[w].qty
            BY <3>7, <3>8
          <5>2. InFlightNet(On(s), w) = t.ack[w].qty + InFlightNet(R, w)
            BY <4>3, <4>4
          <5> QED BY <4>4, <5>1, <5>2
        <4> QED BY <2>1, <3>1, <4>2, <4>5, BalancedNext
      <3> QED BY <1>5, <2>1, <3>1, <3>3, <3>7, <3>9
    <2> QED BY <1>15, <2>4, <2>5, <2>6 DEF ApplyEntry
  <1> QED BY <1>9, <1>10, <1>11, <1>12, <1>13, <1>14, <1>15, Steps

\* Once nothing is in flight on a slug the owner was not called to, the venues hold exactly the legs on
\* the books, for any number of slugs, entries and unwinds, and whatever the venues answer: as long as
\* no SELL rests, no answer hides a fill, and no submission panics (bookkeeping.rs, exec.rs).
THEOREM BooksAlwaysMatch ==
  Quirks \subseteq {"death"} => (Spec => []BooksMatchVenues)
  <1> SUFFICES ASSUME Quirks \subseteq {"death"}
               PROVE  Spec => []BooksMatchVenues
    OBVIOUS
  <1> DEFINE Inv == Quiet /\ TasksApart /\ UnwindsClose /\ BooksBalance
  <1>1. Init => Inv
    <2> SUFFICES ASSUME Init PROVE Inv
      OBVIOUS
    <2>1. Quiet /\ TasksApart /\ UnwindsClose
      BY DEF Init, Quiet, TasksApart, UnwindsClose
    <2>2. ASSUME NEW s \in Slugs PROVE Balanced(s)
      <3>1. On(s) = {} /\ positions[s] = <<>> /\ \A v \in Venues : real[s][v] = 0
        BY DEF Init, On
      <3>2. HeldLots(<<>>) = 0
        <4>1. DOMAIN [i \in DOMAIN <<>> |-> Lot * <<>>[i].size] = {}
          OBVIOUS
        <4> QED BY <4>1, SumOfNothing DEF HeldLots, SumFunction
      <3>3. \A v \in Venues : InFlightNet({}, v) = 0
        BY NetOfNone
      <3> QED BY <3>1, <3>2, <3>3 DEF Balanced
    <2> QED BY <2>1, <2>2 DEF BooksBalance
  <1>2. MatchInv /\ [Next]_vars /\ TypeOK' => Inv'
    BY QuietStep, TasksApartStep, UnwindsCloseStep, BalanceStep DEF MatchInv
  <1>3. MatchInv => BooksMatchVenues
    <2> SUFFICES ASSUME MatchInv, NEW s \in Slugs \ alarmed, Settled(s), NEW v \in Venues
                 PROVE  real[s][v] = HeldLots(positions[s])
      BY DEF BooksMatchVenues
    <2>1. On(s) = {}
      BY DEF On, Settled
    <2>2. Balanced(s)
      BY <2>1 DEF MatchInv, BooksBalance
    <2>3. real[s][v] = HeldLots(positions[s]) + InFlightNet({}, v)
      BY <2>1, <2>2 DEF Balanced
    <2>4. HeldLots(positions[s]) \in Nat
      <3>1. positions[s] \in Seq(Leg)
        BY DEF MatchInv, TypeOK, LoopTyped
      <3> QED BY <3>1, HeldLotsOf
    <2> QED BY <2>3, <2>4, NetOfNone
  <1> QED BY <1>1, <1>2, <1>3, TasksAlwaysShaped, OneEntryInFlight, RecoveryHoldsAlone, PTL
      DEF Spec, MatchInv
=============================================================================
