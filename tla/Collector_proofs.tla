--------------------------- MODULE Collector_proofs ---------------------------
(***************************************************************************)
(* Theorems about the two streams and the heartbeat of the monitor, for    *)
(* any markets, any legs, any number of faults and any order of steps.     *)
(***************************************************************************)
EXTENDS Collector, TLAPS

(***************************************************************************)
(* Types                                                                   *)
(***************************************************************************)

\* Appending a command and taking the first one both leave a queue of commands.
LEMMA SequenceTypes ==
  ASSUME NEW T
  PROVE  /\ <<>> \in Seq(T)
         /\ \A q \in Seq(T), c \in T : Append(q, c) \in Seq(T)
         /\ \A q \in Seq(T) : q # <<>> => Head(q) \in T /\ Tail(q) \in Seq(T)
  OBVIOUS

\* The queues hold commands.
LEMMA QueueTypes ==
  /\ <<>> \in Queues
  /\ \A q \in Queues, c \in Commands : Append(q, c) \in Queues
  /\ \A q \in Queues : q # <<>> => Head(q) \in Commands /\ Tail(q) \in Queues
  BY SequenceTypes DEF Queues

\* Legs are tickers, whatever slugs they are taken of.
LEMMA LegsAreTickers == \A S \in SUBSET Slugs : LegsOf(S) \in SUBSET Tickers
  BY CollectorAssumption DEF LegsOf

\* A miss count stays under the threshold unless the slug is pruned with it.
LEMMA MissesStayBelow ==
  ASSUME CollectorTypeOK
  PROVE  /\ Misses \in [Slugs -> Nat]
         /\ \A s \in Slugs \ tracked : Misses[s] = 0
         /\ \A s \in Slugs \ Stale : Misses[s] \in 0..Threshold
  <1>1. Threshold \in Nat /\ absent \in [Slugs -> 0..Threshold] /\ \A s \in Slugs \ tracked : absent[s] = 0
    BY CollectorAssumption DEF CollectorTypeOK
  <1>2. \A s \in Slugs : Misses[s] = IF s \in tracked \ hb.fresh THEN absent[s] + 1 ELSE 0
    BY DEF Misses
  <1>3. Misses \in [Slugs -> Nat]
    BY <1>1 DEF Misses
  <1>4. ASSUME NEW s \in Slugs \ Stale PROVE Misses[s] \in 0..Threshold
    <2>1. s \notin tracked \/ ~ (Misses[s] >= Threshold)
      BY DEF Stale
    <2> QED BY <1>1, <1>2, <1>3, <2>1
  <1> QED BY <1>2, <1>3, <1>4

\* Every variable keeps its type; a slug that is not tracked has no miss count, and nothing is fed that has no tracker.
THEOREM CollectorTypeCorrect == Spec => []CollectorTypeOK
  <1>1. Init => CollectorTypeOK
    <2> SUFFICES ASSUME Init PROVE CollectorTypeOK
      OBVIOUS
    <2>1. tracked \subseteq Slugs
      BY DEF Init, Accepted
    <2>2. bound \in [Tickers -> Slugs \cup {None}]
      <3>1. ASSUME NEW t \in Tickers
            PROVE (IF \E s \in tracked : t \in Legs[s] THEN CHOOSE s \in tracked : t \in Legs[s] ELSE None)
                     \in Slugs \cup {None}
        BY <2>1
      <3> QED BY <3>1 DEF Init
    <2>3. cmds \in Queues
      BY QueueTypes DEF Init
    <2>4. hb \in Cycles
      BY DEF Init, Idle, Cycles
    <2>5. /\ listed \subseteq Slugs /\ changes = 0 /\ faults = 0 /\ absent = [s \in Slugs |-> 0] /\ fed = {}
          /\ conn = [v \in Venues |-> "down"] /\ wireP = {} /\ wireK = {} /\ owed = {}
          /\ sid = FALSE /\ pending = {} /\ books = {} /\ cutOff = {} /\ lastTwo = <<Slugs, Slugs>>
      BY DEF Init
    <2>6. /\ absent \in [Slugs -> 0..Threshold] /\ \A s \in Slugs \ tracked : absent[s] = 0
          /\ conn \in [Venues -> {"down", "up", "broken"}]
          /\ changes \in 0..MaxChanges /\ faults \in 0..MaxFaults
          /\ lastTwo \in (SUBSET Slugs) \X (SUBSET Slugs)
      BY <2>5, CollectorAssumption
    <2> QED BY <2>1, <2>2, <2>3, <2>4, <2>5, <2>6 DEF CollectorTypeOK
  <1>2. CollectorTypeOK /\ [Next]_vars => CollectorTypeOK'
    <2> SUFFICES ASSUME CollectorTypeOK, [Next]_vars PROVE CollectorTypeOK'
      OBVIOUS
    <2> USE DEF worldVars, trackVars, kalshiVars, Cycles
    <2>1. ASSUME NEW s \in Slugs, Relist(s) PROVE CollectorTypeOK'
      BY <2>1, CollectorAssumption DEF Relist, CollectorTypeOK
    <2>2. ASSUME NEW v \in Venues, Drop(v) PROVE CollectorTypeOK'
      BY <2>2, CollectorAssumption DEF Drop, CollectorTypeOK
    <2>3. CASE VenueTakes
      <3>1. Head(cmds) \in Commands /\ Tail(cmds) \in Queues
        BY <2>3, QueueTypes DEF VenueTakes, CollectorTypeOK
      <3>2. wireK' \subseteq Tickers /\ owed' \subseteq Tickers /\ cmds' \in Queues
        BY <2>3, <3>1 DEF VenueTakes, CollectorTypeOK, Commands
      <3>3. UNCHANGED <<worldVars, trackVars, fed, conn, wireP, sid, pending, books, hb>>
        BY <2>3 DEF VenueTakes
      <3> QED BY <3>2, <3>3 DEF CollectorTypeOK
    <2>4. CASE SeqGap
      BY <2>4, CollectorAssumption DEF SeqGap, CollectorTypeOK, Venues
    <2>5. ASSUME NEW v \in Venues, Notice(v) PROVE CollectorTypeOK'
      BY <2>5 DEF Notice, CollectorTypeOK
    <2>6. CASE PmusConnect
      BY <2>6 DEF PmusConnect, CollectorTypeOK
    <2>7. CASE KalshiConnect
      <3>1. cmds' \in Queues
        BY <2>7, QueueTypes DEF KalshiConnect
      <3>2. /\ conn' = [conn EXCEPT !["k"] = "up"] /\ sid' = FALSE /\ pending' = {} /\ books' = {}
            /\ wireK' = {t \in Tickers : bound[t] # None} /\ owed' = wireK'
            /\ cutOff' = {} /\ UNCHANGED <<worldVars, tracked, bound, absent, lastTwo, fed, wireP, hb>>
        BY <2>7 DEF KalshiConnect
      <3> QED BY <3>1, <3>2 DEF CollectorTypeOK
    <2>8. CASE Subscribed
      BY <2>8 DEF Subscribed, CollectorTypeOK
    <2>9. ASSUME NEW s \in Slugs, PmusFrame(s) PROVE CollectorTypeOK'
      BY <2>9 DEF PmusFrame, CollectorTypeOK
    <2>10. ASSUME NEW t \in Tickers, Snapshot(t) PROVE CollectorTypeOK'
      BY <2>10 DEF Snapshot, Feed, CollectorTypeOK
    <2>11. ASSUME NEW t \in Tickers, Delta(t) PROVE CollectorTypeOK'
      BY <2>11 DEF Delta, Feed, CollectorTypeOK
    <2>12. CASE Discover
      BY <2>12, CollectorAssumption DEF Discover, Idle, CollectorTypeOK
    <2>13. CASE Register
      <3>1. PICK new \in Accepted(hb.fresh, tracked) :
              /\ tracked' = tracked \cup new
              /\ bound' \in Bindings(new)
              /\ wireP' = IF conn["p"] = "up" THEN wireP \cup new ELSE wireP
              /\ \/ hb' = Idle /\ cutOff' = cutOff \cup LegsOf(new)
                 \/ hb' = At("kalshi", LegsOf(new)) /\ UNCHANGED cutOff
        BY <2>13 DEF Register
      <3>2. new \subseteq Slugs /\ LegsOf(new) \subseteq Tickers
        BY LegsAreTickers DEF Accepted, CollectorTypeOK
      <3>3. bound' \in [Tickers -> Slugs \cup {None}] /\ \A t \in Tickers : bound[t] # None => bound'[t] # None
        BY <3>1, <3>2, CollectorAssumption DEF Bindings
      <3>4. At("kalshi", LegsOf(new)) \in Cycles /\ Idle \in Cycles
        <4>1. hb \in Cycles
          BY DEF CollectorTypeOK
        <4> QED BY <4>1, <3>2 DEF At, Idle, Cycles
      <3>5. hb' \in Cycles
        BY <3>1, <3>4
      <3>6. cutOff' \subseteq Tickers
        BY <3>1, <3>2 DEF CollectorTypeOK
      <3> QED BY <2>13, <3>1, <3>2, <3>3, <3>5, <3>6 DEF Register, CollectorTypeOK
    <2>14. CASE AddTickers
      <3> DEFINE c == [action |-> "add_markets", tickers |-> hb.newK]
      <3>1. c \in Commands
        BY DEF CollectorTypeOK, Commands
      <3>2. cmds' \in {cmds, Append(cmds, c)}
        BY <2>14 DEF AddTickers, Send
      <3> HIDE DEF c
      <3>3. cmds \in Queues
        BY DEF CollectorTypeOK
      <3>4. cmds' \in Queues
        BY <3>1, <3>2, <3>3, QueueTypes
      <3>5. hb' \in Cycles
        <4>1. hb' \in {At("prune", {}), Idle}
          BY <2>14 DEF AddTickers, ToPrune
        <4>2. hb \in Cycles
          BY DEF CollectorTypeOK
        <4>3. At("prune", {}) \in Cycles /\ Idle \in Cycles
          BY <4>2 DEF At, Idle
        <4> QED BY <4>1, <4>3
      <3>6. pending' \subseteq Tickers
        <4>1. hb.newK \subseteq Tickers /\ pending \subseteq Tickers
          BY DEF CollectorTypeOK
        <4> QED BY <2>14, <4>1 DEF AddTickers
      <3>7. UNCHANGED <<worldVars, trackVars, fed, conn, wireP, wireK, owed, sid, books>>
        BY <2>14 DEF AddTickers
      <3> QED BY <3>4, <3>5, <3>6, <3>7 DEF CollectorTypeOK
    <2>15. CASE CycleKalshi
      BY <2>15 DEF CycleKalshi, CloseKalshi, ToPrune, At, Overdue, CollectorTypeOK, Venues
    <2>16. CASE NothingToAdd
      BY <2>16 DEF NothingToAdd, ToPrune, At, CollectorTypeOK
    <2>17. CASE Prune
      <3> DEFINE dead == LegsOf(Stale)
      <3>1. Stale \subseteq Slugs /\ Stale \subseteq tracked /\ dead \subseteq Tickers
        BY LegsAreTickers DEF Stale, CollectorTypeOK
      <3>2. /\ tracked' = tracked \ Stale
            /\ bound' = [t \in Tickers |-> IF t \in dead THEN None ELSE bound[t]]
            /\ absent' = [s \in Slugs |-> IF s \in Stale THEN 0 ELSE Misses[s]]
            /\ fed' = fed \ (Stale \cup dead)
            /\ books' = books \ dead
            /\ pending' \in {pending, pending \ dead} /\ cutOff' = cutOff \ dead
            /\ cmds' \in {cmds, Append(cmds, [action |-> "delete_markets", tickers |-> dead])}
            /\ lastTwo' = <<lastTwo[2], hb.fresh>>
            /\ hb' = Idle
        BY <2>17 DEF Prune, Send
      <3> HIDE DEF dead
      <3>3. absent' \in [Slugs -> 0..Threshold] /\ \A s \in Slugs \ tracked' : absent'[s] = 0
        BY <3>1, <3>2, MissesStayBelow, CollectorAssumption
      <3>4. fed' \subseteq tracked' \cup {t \in Tickers : bound'[t] # None}
        BY <3>1, <3>2 DEF CollectorTypeOK
      <3>5. cmds' \in Queues
        <4> DEFINE c == [action |-> "delete_markets", tickers |-> dead]
        <4>1. c \in Commands
          BY <3>1 DEF Commands
        <4>2. cmds' \in {cmds, Append(cmds, c)}
          BY <3>2
        <4> HIDE DEF c
        <4>3. cmds \in Queues
          BY DEF CollectorTypeOK
        <4> QED BY <4>1, <4>2, <4>3, QueueTypes
      <3>6. lastTwo' \in (SUBSET Slugs) \X (SUBSET Slugs) /\ hb' = Idle
        BY <3>2 DEF CollectorTypeOK
      <3>7. UNCHANGED <<listed, changes, faults, conn, wireP, wireK, owed, sid>>
        BY <2>17 DEF Prune
      <3>8. bound' \in [Tickers -> Slugs \cup {None}]
        BY <3>2 DEF CollectorTypeOK
      <3> QED BY <3>1, <3>2, <3>3, <3>4, <3>5, <3>6, <3>7, <3>8 DEF CollectorTypeOK, Idle
    <2>18. CASE SkipPrune
      BY <2>18 DEF SkipPrune, Idle, CollectorTypeOK
    <2>19. CASE UNCHANGED vars
      BY <2>19 DEF vars, CollectorTypeOK
    <2> QED BY <2>1, <2>2, <2>3, <2>4, <2>5, <2>6, <2>7, <2>8, <2>9, <2>10, <2>11, <2>12, <2>13, <2>14,
               <2>15, <2>16, <2>17, <2>18, <2>19 DEF Next, Streams, Heartbeat
  <1> QED BY <1>1, <1>2, PTL DEF Spec

(***************************************************************************)
(* Routing                                                                 *)
(***************************************************************************)

\* What is accepted shares no ticker with anything tracked or accepted beside it.
LEMMA AcceptedIsDisjoint ==
  ASSUME NEW fresh, NEW have, NEW new \in Accepted(fresh, have),
         NEW s \in new, NEW r \in new \cup have, NEW t \in Legs[s], t \in Legs[r]
  PROVE  s = r
  <1> SUFFICES ASSUME s # r PROVE FALSE
    OBVIOUS
  <1>1. ~ Collide(s, new \cup have)
    BY DEF Accepted
  <1>2. r \in (new \cup have) \ {s}
    OBVIOUS
  <1>3. Legs[s] \cap Legs[r] = {}
    BY <1>1, <1>2 DEF Collide
  <1> QED BY <1>3

\* A registration binds the legs of what it accepts, and leaves every other ticker where it was.
LEMMA RegisterRoutes ==
  ASSUME CollectorTypeOK, RoutingExact, Register
  PROVE  RoutingExact'
  <1>1. PICK new \in Accepted(hb.fresh, tracked) : tracked' = tracked \cup new /\ bound' \in Bindings(new)
    BY DEF Register
  <1>2. new \subseteq Slugs /\ tracked \subseteq Slugs /\ None \notin Slugs
    BY CollectorAssumption DEF Accepted, CollectorTypeOK, Cycles
  <1> SUFFICES ASSUME NEW t \in Tickers, NEW s \in Slugs
               PROVE  bound'[t] = s <=> s \in tracked' /\ t \in Legs[s]
    BY DEF RoutingExact
  <1>3. CASE t \in LegsOf(new)
    <2>1. bound'[t] \in new /\ t \in Legs[bound'[t]]
      BY <1>1, <1>3 DEF Bindings
    <2>2. ASSUME s \in tracked', t \in Legs[s] PROVE s = bound'[t]
      BY <1>1, <2>1, <2>2, AcceptedIsDisjoint
    <2> QED BY <1>1, <2>1, <2>2
  <1>4. CASE t \notin LegsOf(new)
    <2>1. bound'[t] = bound[t] /\ ~ (s \in new /\ t \in Legs[s])
      BY <1>1, <1>4 DEF Bindings, LegsOf
    <2> QED BY <1>1, <2>1 DEF RoutingExact
  <1> QED BY <1>3, <1>4

\* A teardown unbinds the legs of what it drops; no slug that stays has one of them.
LEMMA PruneRoutes ==
  ASSUME CollectorTypeOK, RoutingExact, Prune
  PROVE  RoutingExact'
  <1>1. /\ tracked' = tracked \ Stale
        /\ bound' = [t \in Tickers |-> IF t \in LegsOf(Stale) THEN None ELSE bound[t]]
    BY DEF Prune
  <1>2. Stale \subseteq tracked /\ tracked \subseteq Slugs /\ None \notin Slugs
    BY CollectorAssumption DEF Stale, CollectorTypeOK
  <1> SUFFICES ASSUME NEW t \in Tickers, NEW s \in Slugs
               PROVE  bound'[t] = s <=> s \in tracked' /\ t \in Legs[s]
    BY DEF RoutingExact
  <1>3. CASE t \in LegsOf(Stale)
    <2>1. PICK r \in Stale : t \in Legs[r]
      BY <1>3 DEF LegsOf
    <2>2. bound[t] = r /\ (s \in tracked /\ t \in Legs[s] => bound[t] = s)
      BY <1>2, <2>1 DEF RoutingExact
    <2> QED BY <1>1, <1>2, <1>3, <2>1, <2>2
  <1>4. CASE t \notin LegsOf(Stale)
    BY <1>1, <1>4 DEF RoutingExact, LegsOf
  <1> QED BY <1>3, <1>4

\* A ticker is bound to a slug exactly while the slug is tracked and the ticker is one of its legs: no
\* registration, collision or teardown cross-wires two markets, for any legs that may overlap.
THEOREM RoutingIsExact == Spec => []RoutingExact
  <1>1. Init => RoutingExact
    <2> SUFFICES ASSUME Init, NEW t \in Tickers, NEW s \in Slugs
                 PROVE  bound[t] = s <=> s \in tracked /\ t \in Legs[s]
      BY DEF RoutingExact
    <2>1. tracked \in Accepted(listed, {}) /\ None \notin Slugs
      BY CollectorAssumption DEF Init
    <2>2. CASE \E r \in tracked : t \in Legs[r]
      <3>1. bound[t] \in tracked /\ t \in Legs[bound[t]]
        BY <2>2 DEF Init
      <3>2. s \in tracked /\ t \in Legs[s] => s = bound[t]
        BY <2>1, <3>1, AcceptedIsDisjoint
      <3> QED BY <3>1, <3>2
    <2>3. CASE ~ \E r \in tracked : t \in Legs[r]
      BY <2>1, <2>3 DEF Init
    <2> QED BY <2>2, <2>3
  <1>2. CollectorTypeOK /\ RoutingExact /\ [Next]_vars => RoutingExact'
    <2> SUFFICES ASSUME CollectorTypeOK, RoutingExact, [Next]_vars PROVE RoutingExact'
      OBVIOUS
    <2>1. CASE Register
      BY <2>1, RegisterRoutes
    <2>2. CASE Prune
      BY <2>2, PruneRoutes
    <2>3. CASE ~ Register /\ ~ Prune
      <3>1. UNCHANGED <<tracked, bound>>
        BY <2>3 DEF Next, Streams, Heartbeat, vars, worldVars, trackVars, kalshiVars, Relist, Drop, VenueTakes,
                    SeqGap, Notice, PmusConnect, KalshiConnect, Subscribed, PmusFrame, Snapshot, Delta, Discover,
                    AddTickers, CycleKalshi, NothingToAdd, SkipPrune
      <3> QED BY <3>1 DEF RoutingExact
    <2> QED BY <2>1, <2>2, <2>3
  <1> QED BY <1>1, <1>2, CollectorTypeCorrect, PTL DEF Spec

(***************************************************************************)
(* Subscriptions                                                           *)
(***************************************************************************)

\* A pmus socket is found dead by a send only where that can be.
LateOnly == conn["p"] = "broken" => "p" \in LateNotice

\* Whatever the faults, a bound ticker has a book, a snapshot on its way or the heartbeat's watch, unless the cycle that registered
\* it broke off at a dead pmus socket and Kalshi has not reconnected since; and nothing tracked is off the pmus wire.
\* (the heartbeat of run_live, its additions on both streams, and the reconnects)
THEOREM NoneForgotten == Spec => []ForgottenOnlyIfCutOff
  <1> DEFINE Kept == LateOnly /\ ForgottenOnlyIfCutOff
  <1> USE DEF LateOnly, Watched
  <1>1. Init => Kept
    BY DEF Init, ForgottenOnlyIfCutOff, Venues
  <1>2. CollectorTypeOK /\ Kept /\ [Next]_vars => Kept'
    <2> SUFFICES ASSUME CollectorTypeOK, Kept, [Next]_vars PROVE Kept'
      OBVIOUS
    <2> USE DEF worldVars, trackVars, kalshiVars
    <2>0. conn \in [{"p", "k"} -> {"down", "up", "broken"}]
      BY DEF CollectorTypeOK, Venues
    <2>1. ASSUME NEW s \in Slugs, Relist(s) PROVE Kept'
      BY <2>1 DEF Relist, ForgottenOnlyIfCutOff
    <2>2. ASSUME NEW v \in Venues, Drop(v) PROVE Kept'
      BY <2>0, <2>2 DEF Drop, ForgottenOnlyIfCutOff, Venues
    <2>3. CASE VenueTakes
      BY <2>3 DEF VenueTakes, ForgottenOnlyIfCutOff
    <2>4. CASE SeqGap
      BY <2>0, <2>4 DEF SeqGap, ForgottenOnlyIfCutOff
    <2>5. ASSUME NEW v \in Venues, Notice(v) PROVE Kept'
      BY <2>0, <2>5 DEF Notice, ForgottenOnlyIfCutOff, Venues
    <2>6. CASE PmusConnect
      BY <2>0, <2>6 DEF PmusConnect, ForgottenOnlyIfCutOff
    <2>7. CASE KalshiConnect
      BY <2>0, <2>7 DEF KalshiConnect, ForgottenOnlyIfCutOff
    <2>8. CASE Subscribed
      BY <2>8 DEF Subscribed, ForgottenOnlyIfCutOff
    <2>9. ASSUME NEW s \in Slugs, PmusFrame(s) PROVE Kept'
      BY <2>9 DEF PmusFrame, ForgottenOnlyIfCutOff
    <2>10. ASSUME NEW t \in Tickers, Snapshot(t) PROVE Kept'
      BY <2>10 DEF Snapshot, ForgottenOnlyIfCutOff
    <2>11. ASSUME NEW t \in Tickers, Delta(t) PROVE Kept'
      BY <2>11 DEF Delta, ForgottenOnlyIfCutOff
    <2>12. CASE Discover
      BY <2>12 DEF Discover, Idle, ForgottenOnlyIfCutOff
    <2>13. CASE Register
      <3>1. PICK new \in Accepted(hb.fresh, tracked) :
              /\ tracked' = tracked \cup new
              /\ bound' \in Bindings(new)
              /\ wireP' = IF conn["p"] = "up" THEN wireP \cup new ELSE wireP
              /\ IF new # {} /\ conn["p"] = "broken" THEN cutOff' = cutOff \cup LegsOf(new)
                 ELSE hb' = At("kalshi", LegsOf(new)) /\ cutOff' = cutOff
        BY <2>13 DEF Register
      <3>2. \/ hb'.stage = "kalshi" /\ hb'.newK = LegsOf(new) /\ cutOff' = cutOff
            \/ conn["p"] = "broken" /\ cutOff' = cutOff \cup LegsOf(new)
        BY <3>1 DEF At
      <3>3. \A t \in Tickers : t \in LegsOf(new) \/ bound'[t] = bound[t]
        BY <3>1 DEF Bindings
      <3>4. hb.stage = "found" /\ UNCHANGED <<conn, books, owed, pending>>
        BY <2>13 DEF Register
      <3> QED BY <3>1, <3>2, <3>3, <3>4 DEF ForgottenOnlyIfCutOff
    <2>14. CASE AddTickers
      BY <2>14 DEF AddTickers, ToPrune, At, CollectorTypeOK, ForgottenOnlyIfCutOff
    <2>15. CASE CycleKalshi
      BY <2>0, <2>15 DEF CycleKalshi, CloseKalshi, ForgottenOnlyIfCutOff
    <2>16. CASE NothingToAdd
      BY <2>16 DEF NothingToAdd, ToPrune, At, CollectorTypeOK, Overdue, ForgottenOnlyIfCutOff
    <2>17. CASE Prune
      <3> DEFINE dead == LegsOf(Stale)
      <3>1. /\ tracked' = tracked \ Stale
            /\ bound' = [t \in Tickers |-> IF t \in dead THEN None ELSE bound[t]]
            /\ books' = books \ dead
            /\ pending' \in {pending, pending \ dead} /\ cutOff' = cutOff \ dead
            /\ hb.stage = "prune" /\ UNCHANGED <<conn, wireP, owed>>
        BY <2>17 DEF Prune
      <3> HIDE DEF dead
      <3> QED BY <3>1 DEF ForgottenOnlyIfCutOff
    <2>18. CASE SkipPrune
      BY <2>18 DEF SkipPrune, Idle, ForgottenOnlyIfCutOff
    <2>19. CASE UNCHANGED vars
      BY <2>19 DEF vars, ForgottenOnlyIfCutOff
    <2> QED BY <2>1, <2>2, <2>3, <2>4, <2>5, <2>6, <2>7, <2>8, <2>9, <2>10, <2>11, <2>12, <2>13, <2>14,
               <2>15, <2>16, <2>17, <2>18, <2>19 DEF Next, Streams, Heartbeat
  <1> QED BY <1>1, <1>2, CollectorTypeCorrect, PTL DEF Spec

\* What the run checks of the two streams in every state holds for any markets, any legs and any faults, late notices of a dead
\* socket on either venue included.  (run_live)
THEOREM CollectorAlways == Spec => []CollectorInv
  <1>1. CollectorTypeOK /\ RoutingExact /\ ForgottenOnlyIfCutOff => CollectorInv
    BY DEF CollectorInv
  <1> QED BY <1>1, NoneForgotten, CollectorTypeCorrect, RoutingIsExact, PTL

(***************************************************************************)
(* Pruning                                                                 *)
(***************************************************************************)

\* A slug with a miss to its name was missing from the last complete discovery.
MissesAreRecent == \A s \in Slugs : absent[s] >= 1 => s \notin lastTwo[2]

\* The bound on the missed heartbeats is an invariant of the specification.
LEMMA MissesAreAlwaysRecent == Spec => []MissesAreRecent
  <1>1. Init => MissesAreRecent
    BY DEF Init, MissesAreRecent
  <1>2. CollectorTypeOK /\ MissesAreRecent /\ [Next]_vars => MissesAreRecent'
    <2> SUFFICES ASSUME CollectorTypeOK, MissesAreRecent, [Next]_vars PROVE MissesAreRecent'
      OBVIOUS
    <2>1. CASE Prune
      <3>1. /\ absent' = [s \in Slugs |-> IF s \in Stale THEN 0 ELSE Misses[s]]
            /\ lastTwo' = <<lastTwo[2], hb.fresh>>
        BY <2>1 DEF Prune
      <3>2. \A s \in Slugs : Misses[s] = IF s \in tracked \ hb.fresh THEN absent[s] + 1 ELSE 0
        BY DEF Misses
      <3> QED BY <3>1, <3>2 DEF MissesAreRecent
    <2>2. CASE ~ Prune
      <3>1. UNCHANGED <<absent, lastTwo>>
        BY <2>2 DEF Next, Streams, Heartbeat, vars, worldVars, trackVars, kalshiVars, Relist, Drop, VenueTakes,
                    SeqGap, Notice, PmusConnect, KalshiConnect, Subscribed, PmusFrame, Snapshot, Delta, Discover,
                    Register, AddTickers, CycleKalshi, NothingToAdd, SkipPrune
      <3> QED BY <3>1 DEF MissesAreRecent
    <2> QED BY <2>1, <2>2
  <1> QED BY <1>1, <1>2, CollectorTypeCorrect, PTL DEF Spec

\* With a threshold of two or more, a slug is dropped only after two complete discoveries in a row missed it.
THEOREM PrunedWereMissedTwice == Threshold >= 2 => (Spec => PruneNeedsTwoMisses)
  <1> SUFFICES ASSUME Threshold >= 2 PROVE Spec => PruneNeedsTwoMisses
    OBVIOUS
  <1> DEFINE Missed == \A s \in tracked \ tracked' : s \notin lastTwo'[1] /\ s \notin lastTwo'[2]
  <1>1. CollectorTypeOK /\ MissesAreRecent /\ [Next]_vars => [Missed]_vars
    <2> SUFFICES ASSUME CollectorTypeOK, MissesAreRecent, Next PROVE Missed
      OBVIOUS
    <2>1. CASE Prune
      <3> SUFFICES ASSUME NEW s \in tracked \ tracked' PROVE s \notin lastTwo'[1] /\ s \notin lastTwo'[2]
        OBVIOUS
      <3>1. tracked' = tracked \ Stale /\ lastTwo' = <<lastTwo[2], hb.fresh>>
        BY <2>1 DEF Prune
      <3>2. s \in Slugs /\ s \in Stale /\ Misses[s] >= Threshold
        BY <3>1 DEF Stale, CollectorTypeOK
      <3>3. Misses[s] = (IF s \in tracked \ hb.fresh THEN absent[s] + 1 ELSE 0) /\ absent[s] \in Nat
        BY <3>2, CollectorAssumption DEF Misses, CollectorTypeOK
      <3>4. s \notin hb.fresh /\ absent[s] >= 1
        BY <3>2, <3>3, CollectorAssumption
      <3> QED BY <3>1, <3>2, <3>4 DEF MissesAreRecent
    <2>2. CASE ~ Prune
      <3>1. tracked \subseteq tracked'
        BY <2>2 DEF Next, Streams, Heartbeat, worldVars, trackVars, kalshiVars, Relist, Drop, VenueTakes,
                    SeqGap, Notice, PmusConnect, KalshiConnect, Subscribed, PmusFrame, Snapshot, Delta, Discover,
                    Register, AddTickers, CycleKalshi, NothingToAdd, SkipPrune
      <3> QED BY <3>1
    <2> QED BY <2>1, <2>2
  <1> QED BY <1>1, CollectorTypeCorrect, MissesAreAlwaysRecent, PTL DEF Spec, PruneNeedsTwoMisses
=============================================================================
