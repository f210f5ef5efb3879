------------------------------ MODULE Episodes ------------------------------
(***************************************************************************)
(* From edges to the log: the transition core of the monitor               *)
(* (src/bot/monitor.py: the trackers' evaluate, FlipDebouncer,             *)
(* TransitionLogger), its flusher and its restarts.  Time is in ticks; the *)
(* log of a market is the file of its event date.                          *)
(***************************************************************************)
EXTENDS Quotes, Sequences

CONSTANTS
  Markets,
  Books,          \* what two books may show: the four touches, and the depth in the better direction
  Window,         \* FlipDebouncer.window, in ticks
  TicksPerSecond, \* markers carry whole seconds
  BootTicks,      \* a restart discovers all markets before it marks its session
  FlushLag,       \* the flusher sleeps between its rounds: a close is overdue for this long, in ticks, before it is flushed
  EpisodeBounds   \* the bounds: of the clock, of the reconnects, resyncs and restarts, and of the changes of an edge of each market

Labels == {"OPEN", "CLOSE", "FLIP", "WIDEN", "NARROW"}

EdgeStates == {EdgeState(b) : b \in Books}

ASSUME EpisodesAssumption ==
  /\ \A b \in Books : Evaluated(b) /\ b.c2 \in Nat /\ {b.p_yb, b.p_ya, b.k_yb, b.k_ya} \subseteq Int \cup {None}
  /\ None \notin Dirs /\ None \notin Labels /\ None \notin EdgeStates /\ None \notin [t : Nat, px : Books]
  /\ Window \in Nat /\ TicksPerSecond \in Nat \ {0} /\ BootTicks \in Nat
  /\ FlushLag \in Nat
  /\ EpisodeBounds \subseteq [time : Nat, marks : Nat, frames : [Markets -> Nat]]

VARIABLES
  now,
  up,         \* the process runs
  state,      \* tracker.state
  lastDir,    \* last_arb_dir
  pending,    \* FlipDebouncer.pending: when the edge died, or None
  log,        \* the transitions file of each market
  markers,    \* sessions.jsonl, the times only
  settled,    \* the markets torn down
  downSince,  \* when the process died
  seen,       \* every change of an edge, as the trackers saw it
  marks       \* the exact times of the markers

coreVars == <<up, state, lastDir, pending, log, settled>>
history == <<downSince, seen>>
vars == <<now, coreVars, markers, history, marks>>

\* A logged transition carries the touches and the depth it was seen with.
Record == [t : Nat, label : Labels, dir : Dirs, net : Int, px : Books]

\* Every variable has its type; a close is held only for a market whose edge is gone, and was logged.
EpisodesTypeOK ==
  /\ now \in Nat /\ up \in BOOLEAN /\ downSince \in Nat
  /\ state \in [Markets -> EdgeStates \cup {None}] /\ lastDir \in [Markets -> Dirs \cup {None}]
  /\ pending \in [Markets -> {None} \cup [t : Nat, px : Books]]
  /\ log \in [Markets -> Seq(Record)] /\ seen \in [Markets -> Seq(Record)]
  /\ markers \in Seq(Nat) /\ settled \subseteq Markets
  /\ \A m \in Markets : pending[m] # None =>
       lastDir[m] # None /\ pending[m].t <= now /\ state[m] # None /\ ~ state[m].arb

Init ==
  /\ now = 0 /\ up = TRUE
  /\ state = [m \in Markets |-> None] /\ lastDir = [m \in Markets |-> None]
  /\ pending = [m \in Markets |-> None] /\ log = [m \in Markets |-> <<>>]
  /\ markers = <<0>> /\ marks = {0} /\ settled = {}
  /\ downSince = 0 /\ seen = [m \in Markets |-> <<>>]

(***************************************************************************)
(* The core                                                                *)
(***************************************************************************)

Expired(m) == pending[m] # None /\ now - pending[m].t > Window

\* flusher: sleep(0.5), then every close that has expired; none is left that expired a whole sleep ago.
Overdue(m) == pending[m] # None /\ now - pending[m].t > Window + FlushLag

\* The edge came back as it was, within the window.
Suppressed(m, label, new) ==
  label = "OPEN" /\ pending[m] # None /\ ~ Expired(m) /\ lastDir[m] = new.dir

\* Mutant of LogLabel: the held close is not looked at.
BugLogLabel(m, label) == label

\* Within the window an opening in the other direction is a flip.
LogLabel(m, label) == IF label = "OPEN" /\ pending[m] # None /\ ~ Expired(m) THEN "FLIP" ELSE label

Entry(t, label, new, px) == [t |-> t, label |-> label, dir |-> new.dir, net |-> new.net, px |-> px]

\* FlipDebouncer.feed: a close is held, an opening takes the held close with it, the rest is logged.
Feed(m, label, new, px) ==
  IF label = "CLOSE"
  THEN /\ pending' = [pending EXCEPT ![m] = [t |-> now, px |-> px]]
       /\ UNCHANGED <<lastDir, log>>
  ELSE /\ pending' = IF label = "OPEN" THEN [pending EXCEPT ![m] = None] ELSE pending
       /\ lastDir' = [lastDir EXCEPT ![m] = new.dir]
       /\ log' = IF Suppressed(m, label, new) THEN log
                 ELSE [log EXCEPT ![m] = Append(@, Entry(now, LogLabel(m, label), new, px))]

\* A scenario allows for so many marks and changes by some time; a market without a change is not of it.
Within(t, n, frames, gone) ==
  \E s \in EpisodeBounds :
    /\ t <= s.time /\ n <= s.marks
    /\ \A m \in Markets : frames[m] <= s.frames[m] /\ (m \in gone \/ state[m] # None => s.frames[m] > 0)

\* The marks behind that of the first session.
Marked == Len(markers) - 1

Frames == [m \in Markets |-> Len(seen[m])]

\* time.time() tells apart any two frames of a market.
OwnTime(m) == \A i \in DOMAIN seen[m] : seen[m][i].t < now

\* A frame of either venue: set_book, evaluate, emit.  One that leaves the books unpriceable, or the edge
\* as it was, logs nothing.
Frame(m) ==
  /\ up /\ m \notin settled /\ OwnTime(m) /\ Within(now, Marked, [Frames EXCEPT ![m] = @ + 1], settled)
  /\ ~ Overdue(m)
  /\ \E px \in Books :
       LET new == EdgeState(px)
           label == Classify(state[m], new)
       IN  /\ state' = [state EXCEPT ![m] = new]
           /\ IF label = None THEN UNCHANGED <<pending, lastDir, log, seen>>
              ELSE /\ Feed(m, label, new, px)
                   /\ seen' = [seen EXCEPT ![m] = Append(@, Entry(now, label, new, px))]
  /\ UNCHANGED <<now, up, settled, markers, downSince, marks>>

\* A flushed close carries the time the edge died.
CloseTime(m) == pending[m].t

\* flusher: every close held longer than the window is logged.
Flush ==
  /\ up /\ \E m \in Markets : Expired(m)
  /\ log' = [m \in Markets |->
       IF Expired(m)
       THEN Append(log[m], Entry(CloseTime(m), "CLOSE", EdgeState(pending[m].px), pending[m].px))
       ELSE log[m]]
  /\ pending' = [m \in Markets |-> IF Expired(m) THEN None ELSE pending[m]]
  /\ lastDir' = [m \in Markets |-> IF Expired(m) THEN None ELSE lastDir[m]]
  /\ UNCHANGED <<now, up, state, settled, markers, history, marks>>

(***************************************************************************)
(* Time, markers, restarts, settlement                                     *)
(***************************************************************************)

Tick ==
  /\ Within(now + 1, Marked, Frames, settled)
  /\ \A m \in Markets : ~ (up /\ Overdue(m))
  /\ now' = now + 1
  /\ UNCHANGED <<coreVars, markers, history, marks>>

\* int(time.time())
Stamp == (now \div TicksPerSecond) * TicksPerSecond

Mark == /\ markers' = Append(markers, Stamp)
        /\ marks' = marks \cup {now}

\* A connection drops, or a sequence gap cycles it: marked at once.  The trackers keep their state.
Reconnect ==
  /\ up /\ Within(now, Marked + 1, Frames, settled)
  /\ Mark
  /\ UNCHANGED <<now, coreVars, history>>

\* The process dies.  What is logged stays.
Crash ==
  /\ up /\ Within(now, Marked + 1, Frames, settled)
  /\ up' = FALSE /\ downSince' = now
  /\ UNCHANGED <<now, state, lastDir, pending, log, settled, markers, seen, marks>>

\* A new process tracks the markets listed, knows nothing of them, and marks its session.
Boot ==
  /\ ~ up /\ now >= downSince + BootTicks
  /\ up' = TRUE
  /\ state' = [m \in Markets |-> None] /\ lastDir' = [m \in Markets |-> None]
  /\ pending' = [m \in Markets |-> None]
  /\ Mark
  /\ UNCHANGED <<now, log, settled, history>>

\* teardown of a settled market: its tracker goes, and with it a close that was held.
Teardown(m) ==
  /\ up /\ m \notin settled /\ Within(now, Marked, Frames, settled \cup {m})
  /\ settled' = settled \cup {m}
  /\ state' = [state EXCEPT ![m] = None] /\ lastDir' = [lastDir EXCEPT ![m] = None]
  /\ pending' = [pending EXCEPT ![m] = None]
  /\ UNCHANGED <<now, up, log, markers, history, marks>>

Next ==
  \/ \E m \in Markets : Frame(m) \/ Teardown(m)
  \/ Flush \/ Tick \/ Reconnect \/ Crash \/ Boot

Spec == Init /\ [][Next]_vars

(***************************************************************************)
(* Properties of the log                                                   *)
(***************************************************************************)

\* A market's file is in order of time although closes are written after they happened: load sorts by time,
\* and a close written behind a later record would end an episode that had not begun.
LogInOrder ==
  \A m \in Markets : \A i \in 1..(Len(log[m]) - 1) : log[m][i].t <= log[m][i + 1].t

\* Between two markers no edge opens twice: "otherwise the CLOSE is flushed once the window elapses"
\* (FlipDebouncer, monitor.py 242-243).  It takes a flusher that does not sleep.
ClosedBeforeReopened ==
  \A m \in Markets : \A i \in 1..(Len(log[m]) - 1) :
    log[m][i + 1].label = "OPEN" /\ log[m][i].label # "CLOSE" =>
      \E t \in marks : log[m][i].t <= t /\ t <= log[m][i + 1].t

\* The times at which an edge was seen to die.
Closes(q) == {q[i].t : i \in {j \in 1..Len(q) : q[j].label = "CLOSE"}}

\* Where an edge does open twice between two markers, a close was lost that is more than a window older than the second opening:
\* feed pops it with that opening (monitor.py 261-270) because the flusher, which sleeps half a second, had not come to it.
OpenedTwiceOnlyLate ==
  \A m \in Markets : \A i \in 1..(Len(log[m]) - 1) :
    log[m][i + 1].label = "OPEN" /\ log[m][i].label # "CLOSE" =>
      \/ \E t \in marks : log[m][i].t <= t /\ t <= log[m][i + 1].t
      \/ \E t \in Closes(seen[m]) : log[m][i].t <= t /\ log[m][i + 1].t - t > Window

\* What the readers of a log rely on: its types, its order in time, and a close before the next opening, unless one came too
\* late to be logged, which takes a flusher that sleeps.
LogSound == EpisodesTypeOK /\ LogInOrder /\ OpenedTwiceOnlyLate /\ (FlushLag = 0 => ClosedBeforeReopened)
=============================================================================
