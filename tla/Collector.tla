------------------------------ MODULE Collector ------------------------------
(***************************************************************************)
(* The live layer of the Python monitor (src/bot/monitor.py, run_live):    *)
(* the two venue streams, and the heartbeat that discovers, subscribes and *)
(* prunes markets while they run.  All are coroutines of one thread: an    *)
(* action runs from one await to the next.                                 *)
(***************************************************************************)
EXTENDS Naturals, Sequences

CONSTANTS
  Slugs,        \* the pmus markets that may ever be co-listed
  Tickers,      \* the Kalshi markets
  Legs,         \* the Kalshi tickers of each slug: two for a game, else one
  None,         \* no tracker
  Threshold,    \* PRUNE_THRESHOLD
  LateNotice,   \* the venues whose dead socket a send may find before the stream does
  MaxChanges,   \* bound on listings, delistings and omissions
  MaxFaults     \* bound on dropped connections and sequence gaps

Venues == {"p", "k"}

ASSUME CollectorAssumption ==
  /\ Legs \in [Slugs -> SUBSET Tickers] /\ \A s \in Slugs : Legs[s] # {}
  /\ None \notin Slugs
  /\ Threshold \in Nat \ {0} /\ LateNotice \subseteq Venues
  /\ MaxChanges \in Nat /\ MaxFaults \in Nat

VARIABLES
  listed,    \* the slugs co-listed now
  changes,
  faults,
  tracked,   \* pm_targets, with slug_k
  bound,     \* k_targets: the slug whose tracker a ticker feeds, or None
  absent,
  fed,       \* the slugs and tickers whose data their tracker has
  conn,      \* conns; a "broken" socket is dead but still there
  wireP,     \* the slugs this pmus connection sends
  wireK,     \* the tickers this Kalshi connection sends
  owed,      \* the tickers whose snapshot is on its way
  cmds,      \* update_subscription commands Kalshi has not taken
  sid,       \* ksub["sid"] is known
  pending,   \* ksub["pending"]
  books,
  hb,        \* where the heartbeat is, and what it has in hand
  cutOff,    \* the tickers of the cycles that broke off at the pmus send, since this Kalshi connection was made
  lastTwo    \* the last two complete discoveries, the latest last

worldVars == <<listed, changes, faults>>
trackVars == <<tracked, bound, absent, lastTwo, cutOff>>
kalshiVars == <<wireK, owed, cmds, sid, pending, books>>
vars == <<worldVars, trackVars, fed, conn, wireP, kalshiVars, hb>>

Idle == [stage |-> "idle", fresh |-> {}, degraded |-> FALSE, newK |-> {}]

Commands == [action : {"add_markets", "delete_markets"}, tickers : SUBSET Tickers]
Queues == Seq(Commands)
Cycles == [stage : {"idle", "found", "kalshi", "prune"}, fresh : SUBSET Slugs, degraded : BOOLEAN,
           newK : SUBSET Tickers]

\* Every variable has its type, and what is not tracked has no miss count and no data.
CollectorTypeOK ==
  /\ listed \subseteq Slugs /\ changes \in 0..MaxChanges /\ faults \in 0..MaxFaults
  /\ tracked \subseteq Slugs /\ bound \in [Tickers -> Slugs \cup {None}]
  /\ absent \in [Slugs -> 0..Threshold] /\ \A s \in Slugs \ tracked : absent[s] = 0
  /\ fed \subseteq tracked \cup {t \in Tickers : bound[t] # None}
  /\ conn \in [Venues -> {"down", "up", "broken"}]
  /\ wireP \subseteq Slugs /\ wireK \subseteq Tickers /\ owed \subseteq Tickers /\ cutOff \subseteq Tickers
  /\ cmds \in Queues
  /\ sid \in BOOLEAN /\ pending \subseteq Tickers /\ books \subseteq Tickers
  /\ hb \in Cycles
  /\ lastTwo \in (SUBSET Slugs) \X (SUBSET Slugs)

LegsOf(S) == UNION {Legs[s] : s \in S}

(***************************************************************************)
(* register: a new slug gets a tracker unless another tracker has one of   *)
(* its tickers.  The order of the discovered pairs is arbitrary, so the    *)
(* slugs accepted are any that exclude exactly those which collide.        *)
(***************************************************************************)
Collide(s, S) == \E r \in S \ {s} : Legs[s] \cap Legs[r] # {}

\* Mutant of Accepted: a ticker may be bound twice.
BugAccepted(fresh, have) == {fresh \ have}

Accepted(fresh, have) ==
  {A \in SUBSET (fresh \ have) :
     /\ \A s \in A : ~ Collide(s, A \cup have)
     /\ \A s \in (fresh \ have) \ A : Collide(s, A \cup have)}

\* What k_targets is after the new slugs: a later binding overwrites an earlier one.
Bindings(new) ==
  {b \in [Tickers -> Slugs \cup {None}] :
     \A t \in Tickers : IF t \in LegsOf(new) THEN b[t] \in new /\ t \in Legs[b[t]]
                                             ELSE b[t] = bound[t]}

Init ==
  /\ listed \in SUBSET Slugs /\ changes = 0 /\ faults = 0
  /\ tracked \in Accepted(listed, {})
  /\ bound = [t \in Tickers |-> IF \E s \in tracked : t \in Legs[s]
                                THEN CHOOSE s \in tracked : t \in Legs[s] ELSE None]
  /\ absent = [s \in Slugs |-> 0] /\ fed = {}
  /\ conn = [v \in Venues |-> "down"]
  /\ wireP = {} /\ wireK = {} /\ owed = {} /\ cmds = <<>>
  /\ sid = FALSE /\ pending = {} /\ books = {}
  /\ hb = Idle /\ cutOff = {} /\ lastTwo = <<Slugs, Slugs>>

(***************************************************************************)
(* The world                                                               *)
(***************************************************************************)

\* A market is listed on both venues, or settles.
Relist(s) ==
  /\ changes < MaxChanges
  /\ changes' = changes + 1
  /\ listed' = (listed \ {s}) \cup ({s} \ listed)
  /\ UNCHANGED <<faults, trackVars, fed, conn, wireP, kalshiVars, hb>>

\* A socket dies.  Its stream may notice only after others have tried to use it.
Drop(v) ==
  /\ faults < MaxFaults /\ conn[v] = "up"
  /\ faults' = faults + 1
  /\ conn' = [conn EXCEPT ![v] = IF v \in LateNotice THEN "broken" ELSE "down"]
  /\ UNCHANGED <<listed, changes, trackVars, fed, wireP, kalshiVars, hb>>

\* Kalshi applies a command.  A ticker subscribed already gets no second snapshot.
VenueTakes ==
  /\ conn["k"] = "up" /\ cmds # <<>>
  /\ cmds' = Tail(cmds)
  /\ LET c == Head(cmds) IN
       IF c.action = "add_markets"
       THEN wireK' = wireK \cup c.tickers /\ owed' = owed \cup (c.tickers \ wireK)
       ELSE wireK' = wireK \ c.tickers /\ UNCHANGED owed
  /\ UNCHANGED <<worldVars, trackVars, fed, conn, wireP, sid, pending, books, hb>>

(***************************************************************************)
(* The streams                                                             *)
(***************************************************************************)

\* The stream's coroutine sees its connection end, and takes it out of conns.
Notice(v) ==
  /\ conn[v] = "broken"
  /\ conn' = [conn EXCEPT ![v] = "down"]
  /\ UNCHANGED <<worldVars, trackVars, fed, wireP, kalshiVars, hb>>

\* Mutant of PmusConnect: a reconnect subscribes what the last connection carried.
BugPmusConnect ==
  /\ conn["p"] = "down"
  /\ conn' = [conn EXCEPT !["p"] = "up"]
  /\ UNCHANGED <<worldVars, trackVars, fed, wireP, kalshiVars, hb>>

PmusConnect ==
  /\ conn["p"] = "down"
  /\ conn' = [conn EXCEPT !["p"] = "up"]
  /\ wireP' = tracked
  /\ UNCHANGED <<worldVars, trackVars, fed, kalshiVars, hb>>

PmusFrame(s) ==
  /\ conn["p"] = "up" /\ s \in wireP
  /\ s \in tracked
  /\ fed' = fed \cup {s}
  /\ UNCHANGED <<worldVars, trackVars, conn, wireP, kalshiVars, hb>>

\* A fresh connection forgets every book and pending add, and subscribes all tickers bound now.
KalshiConnect ==
  /\ conn["k"] = "down"
  /\ conn' = [conn EXCEPT !["k"] = "up"]
  /\ sid' = FALSE /\ pending' = {} /\ books' = {} /\ cmds' = <<>>
  /\ wireK' = {t \in Tickers : bound[t] # None} /\ owed' = wireK'
  /\ cutOff' = {}
  /\ UNCHANGED <<worldVars, tracked, bound, absent, lastTwo, fed, wireP, hb>>

Subscribed ==
  /\ conn["k"] = "up" /\ ~ sid
  /\ sid' = TRUE
  /\ UNCHANGED <<worldVars, trackVars, fed, conn, wireP, wireK, owed, cmds, pending, books, hb>>

\* A tracker is fed if there is one; the book of a ticker that has just been pruned is made all the same.
Feed(t) == fed' = IF bound[t] # None THEN fed \cup {t} ELSE fed

Snapshot(t) ==
  /\ conn["k"] = "up" /\ t \in owed
  /\ owed' = owed \ {t}
  /\ pending' = pending \ {t} /\ books' = books \cup {t}
  /\ Feed(t)
  /\ UNCHANGED <<worldVars, trackVars, conn, wireP, wireK, cmds, sid, hb>>

\* A delta of a ticker without a book is ignored.
Delta(t) ==
  /\ conn["k"] = "up" /\ t \in wireK \ owed
  /\ t \in books
  /\ Feed(t)
  /\ UNCHANGED <<worldVars, trackVars, conn, wireP, kalshiVars, hb>>

\* A frame was lost and the next number shows it: the stream closes its connection.
SeqGap ==
  /\ faults < MaxFaults /\ conn["k"] = "up"
  /\ faults' = faults + 1
  /\ conn' = [conn EXCEPT !["k"] = "broken"]
  /\ UNCHANGED <<listed, changes, trackVars, fed, wireP, kalshiVars, hb>>

(***************************************************************************)
(* The heartbeat                                                           *)
(***************************************************************************)

\* build_colisted_map: all that is listed, or less.  What failed to load is reported as an error; what a
\* venue's page left out is not.
Discover ==
  /\ hb.stage = "idle"
  /\ \E fresh \in SUBSET listed, degraded \in BOOLEAN :
       /\ IF fresh = listed THEN changes' = changes /\ ~ degraded
                            ELSE changes < MaxChanges /\ changes' = changes + 1
       /\ hb' = [stage |-> "found", fresh |-> fresh, degraded |-> degraded, newK |-> {}]
  /\ UNCHANGED <<listed, faults, trackVars, fed, conn, wireP, kalshiVars>>

\* The same cycle, further on.
At(stage, newK) == [stage |-> stage, fresh |-> hb.fresh, degraded |-> hb.degraded, newK |-> newK]

\* New pairs are registered and their slugs sent to pmus.  If that send fails the cycle ends here, before Kalshi is told.
Register ==
  /\ hb.stage = "found"
  /\ \E new \in Accepted(hb.fresh, tracked) :
       /\ tracked' = tracked \cup new
       /\ bound' \in Bindings(new)
       /\ wireP' = IF conn["p"] = "up" THEN wireP \cup new ELSE wireP
       /\ IF new # {} /\ conn["p"] = "broken"
          THEN hb' = Idle /\ cutOff' = cutOff \cup LegsOf(new)
          ELSE hb' = At("kalshi", LegsOf(new)) /\ UNCHANGED cutOff
  /\ UNCHANGED <<worldVars, absent, lastTwo, fed, conn, kalshiVars>>

Send(action, tickers) == cmds' = Append(cmds, [action |-> action, tickers |-> tickers])

ToPrune == hb' = At("prune", {})

\* ws.close(): the stream will notice and reconnect.
CloseKalshi == conn' = [conn EXCEPT !["k"] = "broken"]

\* The adds of an earlier cycle whose snapshot has not come: a cycle is longer than ADD_CONFIRM_SECS.
Overdue == pending

\* The new tickers are added to the live subscription, each to be confirmed by a snapshot.
AddTickers ==
  /\ hb.stage = "kalshi" /\ Overdue = {} /\ hb.newK # {}
  /\ conn["k"] # "down" /\ sid
  /\ pending' = pending \cup hb.newK
  /\ IF conn["k"] = "up" THEN Send("add_markets", hb.newK) /\ ToPrune
                         ELSE UNCHANGED cmds /\ hb' = Idle
  /\ UNCHANGED <<worldVars, trackVars, fed, conn, wireP, wireK, owed, sid, books>>

\* An add was never confirmed, or the subscription is not acknowledged yet: the connection is cycled.
CycleKalshi ==
  /\ hb.stage = "kalshi" /\ conn["k"] # "down"
  /\ Overdue # {} \/ (hb.newK # {} /\ ~ sid)
  /\ pending' = pending \ Overdue
  /\ CloseKalshi /\ ToPrune
  /\ UNCHANGED <<worldVars, trackVars, fed, wireP, wireK, owed, cmds, sid, books>>

\* Nothing to add, or nobody to tell: the next connection subscribes all there is.
NothingToAdd ==
  /\ hb.stage = "kalshi"
  /\ conn["k"] = "down" \/ (Overdue = {} /\ hb.newK = {})
  /\ ToPrune
  /\ UNCHANGED <<worldVars, trackVars, fed, conn, wireP, kalshiVars>>

\* prune_decision: a slug missing from Threshold complete discoveries in a row.
Misses == [s \in Slugs |-> IF s \in tracked \ hb.fresh THEN absent[s] + 1 ELSE 0]

\* Mutant of Stale: one miss is enough.
BugStale == {s \in tracked : Misses[s] + 1 >= Threshold}

Stale == {s \in tracked : Misses[s] >= Threshold}

\* teardown of every stale slug, and the tickers taken off the live subscription.
Prune ==
  /\ hb.stage = "prune" /\ ~ hb.degraded
  /\ LET dead == LegsOf(Stale)
         tell == dead # {} /\ conn["k"] # "down" /\ sid IN
       /\ tracked' = tracked \ Stale
       /\ bound' = [t \in Tickers |-> IF t \in dead THEN None ELSE bound[t]]
       /\ absent' = [s \in Slugs |-> IF s \in Stale THEN 0 ELSE Misses[s]]
       /\ fed' = fed \ (Stale \cup dead)
       /\ books' = books \ dead
       /\ pending' = IF tell THEN pending \ dead ELSE pending
       /\ cutOff' = cutOff \ dead
       /\ IF tell /\ conn["k"] = "up" THEN Send("delete_markets", dead) ELSE UNCHANGED cmds
  /\ lastTwo' = <<lastTwo[2], hb.fresh>>
  /\ hb' = Idle
  /\ UNCHANGED <<worldVars, conn, wireP, wireK, owed, sid>>

\* A discovery with errors prunes nothing and counts no miss.
SkipPrune ==
  /\ hb.stage = "prune" /\ hb.degraded
  /\ hb' = Idle
  /\ UNCHANGED <<worldVars, trackVars, fed, conn, wireP, kalshiVars>>

(***************************************************************************)
(* The specification                                                       *)
(***************************************************************************)

Streams ==
  \/ \E v \in Venues : Notice(v)
  \/ PmusConnect \/ KalshiConnect \/ Subscribed
  \/ \E s \in Slugs : PmusFrame(s)
  \/ \E t \in Tickers : Snapshot(t) \/ Delta(t)

Heartbeat ==
  \/ Discover \/ Register
  \/ AddTickers \/ CycleKalshi \/ NothingToAdd
  \/ Prune \/ SkipPrune

Next ==
  \/ \E s \in Slugs : Relist(s)
  \/ \E v \in Venues : Drop(v)
  \/ VenueTakes \/ SeqGap
  \/ Streams \/ Heartbeat

Spec == Init /\ [][Next]_vars

\* The coroutines keep running, connections are accepted in the end, and the venues answer.
Fairness ==
  /\ WF_vars(VenueTakes) /\ WF_vars(Heartbeat)
  /\ \A v \in Venues : WF_vars(Notice(v))
  /\ WF_vars(PmusConnect) /\ WF_vars(KalshiConnect) /\ WF_vars(Subscribed)
  /\ \A s \in Slugs : WF_vars(PmusFrame(s))
  /\ \A t \in Tickers : WF_vars(Snapshot(t))

FairSpec == Spec /\ Fairness

(***************************************************************************)
(* Properties                                                              *)
(***************************************************************************)

\* A frame of a ticker feeds the tracker of its own pair and no other, through registrations, collisions,
\* teardowns and relistings: no two markets' books are ever cross-wired (_collide, teardown).
RoutingExact ==
  \A t \in Tickers, s \in Slugs : bound[t] = s <=> s \in tracked /\ t \in Legs[s]

\* The tickers Kalshi has answered for, is about to, or is watched to.
Watched == books \cup owed \cup pending \cup (IF hb.stage = "kalshi" THEN hb.newK ELSE {})

\* On a live connection every tracked ticker has its book, or its snapshot is on the way, or the heartbeat
\* watches for it: "Failure self-heals: a ticker that never snapshots within ADD_CONFIRM_SECS is caught HERE
\* next heartbeat" (monitor.py 1105-1107).
NeverForgotten == conn["k"] = "up" => \A t \in Tickers : bound[t] # None => t \in Watched

\* Whatever the faults, a ticker is forgotten only if it was registered in a cycle whose send to pmus failed (monitor.py
\* 1097-1098), and until Kalshi reconnects; which takes a dead pmus socket that a send finds first.  On pmus every tracked
\* slug is subscribed.
ForgottenOnlyIfCutOff ==
  /\ conn["k"] = "up" => \A t \in Tickers : bound[t] # None => t \in Watched \cup cutOff
  /\ conn["p"] = "up" => tracked \subseteq wireP
  /\ cutOff # {} => "p" \in LateNotice

\* What holds of the two streams in every state: the types, a ticker routed to its own pair, none forgotten but by a cycle that
\* broke off.
CollectorInv == CollectorTypeOK /\ RoutingExact /\ ForgottenOnlyIfCutOff

\* A market is dropped only if two complete discoveries in a row have missed it: neither one bad page nor
\* any number of failed pulls closes a live market (prune_decision, and the skip on fetch_errors).
PruneNeedsTwoMisses ==
  [][\A s \in tracked \ tracked' : s \notin lastTwo'[1] /\ s \notin lastTwo'[2]]_vars

\* Whatever is tracked is priced in the end on both venues, or dropped, whatever connections cycle; unless the cycle that
\* registered it broke off.
AllFed ==
  \A s \in Slugs : s \in tracked ~> s \notin tracked \/ {s} \cup Legs[s] \subseteq fed \/ Legs[s] \cap cutOff # {}
=============================================================================
