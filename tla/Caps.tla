-------------------------------- MODULE Caps --------------------------------
(***************************************************************************)
(* The replay of the bot's caps over the candidates of the log             *)
(* (src/scripts/backtest_current_strategy.py cap_constrained_entries).     *)
(* Candidates come in the order they opened.  Everything due is settled    *)
(* first, one position after the other, and then the candidate is sized    *)
(* under four ceilings of money and one of positions.  Money is in         *)
(* hundredths of a cent.                                                   *)
(***************************************************************************)
EXTENDS Integers, FiniteSets, FiniteSetsExt

CONSTANTS
  None,
  Markets, Clusters,
  ClusterOf,   \* the city and date of a weather market, the game of a sports market
  EventEnd,    \* midnight of the date in the market's slug and settle-offset-h; 0 without a date
  Hour,
  Candidates,  \* episodes: market, net edge and depth at the open among their fields
  MaxContracts, MaxPerPair, MaxPerCluster, MaxTotal, MaxConcurrent,  \* BotConfig
  FatKnee, FatDivisor,                                               \* the fat-edge haircut
  Capital0

ASSUME CapsAssumption ==
  /\ ClusterOf \in [Markets -> Clusters] /\ EventEnd \in [Markets -> Nat] /\ Hour \in Nat \ {0}
  /\ \A e \in Candidates : e.market \in Markets /\ e.net \in Nat /\ e.c2 \in Nat
  /\ MaxContracts \in Nat /\ MaxPerPair \in Nat /\ MaxPerCluster \in Nat /\ MaxTotal \in Nat
  /\ MaxConcurrent \in Nat /\ FatKnee \in Nat /\ FatDivisor \in Nat \ {0} /\ Capital0 \in Nat
  /\ None \notin [e : Candidates, t : Nat]

VARIABLES
  next,       \* the candidate in hand and when it opened, or None
  now,        \* when the last one opened
  cash, held, perPair, perCluster, total, openPositions

capsVars == <<next, now, cash, held, perPair, perCluster, total, openPositions>>

\* A contract pays 10000 and costs that less its edge, and never less than 1000.
CostPer(e) == IF 10000 - e.net > 1000 THEN 10000 - e.net ELSE 1000

SettleT(m, t) == IF EventEnd[m] > t THEN EventEnd[m] ELSE t + Hour

\* Mutant of Fits: the cap of the cluster is forgotten.
BugFits(e) ==
  {n \in 1..MaxContracts : /\ n <= e.c2 /\ n * CostPer(e) <= cash
                           /\ perPair[e.market] + n * CostPer(e) <= MaxPerPair
                           /\ total + n * CostPer(e) <= MaxTotal}

\* The sizes that fit under every ceiling, of which the largest is meant.
Fits(e) ==
  LET m == e.market
      c == ClusterOf[m]
  IN  {n \in 1..MaxContracts : /\ n <= e.c2
                               /\ n * CostPer(e) <= cash
                               /\ perPair[m] + n * CostPer(e) <= MaxPerPair
                               /\ perCluster[c] + n * CostPer(e) <= MaxPerCluster
                               /\ total + n * CostPer(e) <= MaxTotal}

\* Mutant of Halved: without the floor of one.
BugHalved(e, n) == IF e.net >= FatKnee THEN n \div FatDivisor ELSE n

\* A fat edge is halved, and never to nothing.
Halved(e, n) == IF e.net >= FatKnee /\ n \div FatDivisor >= 1 THEN n \div FatDivisor
                ELSE IF e.net >= FatKnee THEN 1 ELSE n

CapsInit ==
  /\ next = None /\ now = 0
  /\ cash = (IF Capital0 < MaxTotal THEN Capital0 ELSE MaxTotal)
  /\ held = {} /\ total = 0 /\ openPositions = 0
  /\ perPair = [m \in Markets |-> 0] /\ perCluster = [c \in Clusters |-> 0]

Consider(e, t) ==
  /\ next = None /\ t > now
  /\ next' = [e |-> e, t |-> t] /\ now' = t
  /\ UNCHANGED <<cash, held, perPair, perCluster, total, openPositions>>

Due == {p \in held : next # None /\ p.settle_t <= now}

\* Mutant of SettleOne: the cluster keeps what settled.
BugSettleOne(p) ==
  /\ p \in Due
  /\ held' = held \ {p} /\ cash' = cash + p.capital
  /\ perPair' = [perPair EXCEPT ![p.market] = @ - p.capital]
  /\ total' = total - p.capital /\ openPositions' = openPositions - 1
  /\ UNCHANGED <<next, now, perCluster>>

\* settle_due, one turn of its loop.
SettleOne(p) ==
  /\ p \in Due
  /\ held' = held \ {p}
  /\ cash' = cash + p.capital
  /\ perPair' = [perPair EXCEPT ![p.market] = @ - p.capital]
  /\ perCluster' = [perCluster EXCEPT ![ClusterOf[p.market]] = @ - p.capital]
  /\ total' = total - p.capital
  /\ openPositions' = openPositions - 1
  /\ UNCHANGED <<next, now>>

Enter(e, size) ==
  LET capital == size * CostPer(e)
  IN  /\ held' = held \cup {[market |-> e.market, open_t |-> now, settle_t |-> SettleT(e.market, now),
                             size |-> size, capital |-> capital]}
      /\ cash' = cash - capital
      /\ perPair' = [perPair EXCEPT ![e.market] = @ + capital]
      /\ perCluster' = [perCluster EXCEPT ![ClusterOf[e.market]] = @ + capital]
      /\ total' = total + capital
      /\ openPositions' = openPositions + 1

Decided == next # None /\ Due = {} /\ next' = None /\ now' = now

Fund ==
  /\ Decided
  /\ openPositions < MaxConcurrent
  /\ \E n \in Fits(next.e) : /\ \A k \in Fits(next.e) : k <= n
                             /\ Enter(next.e, Halved(next.e, n))

PassOver ==
  /\ Decided
  /\ openPositions >= MaxConcurrent \/ Fits(next.e) = {}
  /\ UNCHANGED <<cash, held, perPair, perCluster, total, openPositions>>

\* Between the decisions: a candidate that the funnel keeps from this walk, and time that passes.
Skip == Decided /\ UNCHANGED <<cash, held, perPair, perCluster, total, openPositions>>

Elapse(t) ==
  /\ next = None /\ t > now
  /\ now' = t
  /\ UNCHANGED <<next, cash, held, perPair, perCluster, total, openPositions>>

CapsNext == \/ \E e \in Candidates, t \in Nat : Consider(e, t)
            \/ \E p \in held : SettleOne(p)
            \/ Fund
            \/ PassOver
            \/ Skip
            \/ \E t \in Nat : Elapse(t)

CapsSpec == CapsInit /\ [][CapsNext]_capsVars

-----------------------------------------------------------------------------
Positions == [market : Markets, open_t : Nat, settle_t : Nat, size : Nat, capital : Nat]

CapsTypeOK ==
  /\ next \in [e : Candidates, t : Nat] \cup {None} /\ now \in Nat
  /\ held \subseteq Positions
  /\ cash \in Int /\ total \in Int /\ openPositions \in Int
  /\ perPair \in [Markets -> Int] /\ perCluster \in [Clusters -> Int]

\* The replay stays under every ceiling the bot has: it never borrows, never has more in a pair, in a cluster or
\* in all than allowed, nor more positions than allowed, in whatever order candidates open and positions settle
\* (cap_constrained_entries, and the haircut of a fat edge after the sizing).
CapsHold ==
  /\ cash >= 0
  /\ total <= MaxTotal
  /\ \A c \in Clusters : perCluster[c] <= MaxPerCluster
  /\ \A m \in Markets : perPair[m] <= MaxPerPair
  /\ openPositions <= MaxConcurrent

InPair(ps, m)    == {p \in ps : p.market = m}
InCluster(ps, c) == {p \in ps : ClusterOf[p.market] = c}
CapitalOf(ps)    == SumFunction([p \in ps |-> p.capital])

\* What the counters say is locked is what the positions held say, and no money is made or lost while it is
\* locked: the exposures of the pairs, of the clusters and of the book, and the number of positions.
ExposureIsHeld ==
  /\ \A m \in Markets : perPair[m] = CapitalOf(InPair(held, m))
  /\ \A c \in Clusters : perCluster[c] = CapitalOf(InCluster(held, c))
  /\ total = CapitalOf(held)
  /\ openPositions = Cardinality(held)
  /\ cash + total = (IF Capital0 < MaxTotal THEN Capital0 ELSE MaxTotal)

\* The walk of the caps is a bank: its cash is free, its total is locked, and it books no profit.
CapsBank == INSTANCE Bank WITH Total <- (IF Capital0 < MaxTotal THEN Capital0 ELSE MaxTotal),
                               free <- cash, locked <- total, earned <- 0

CapsIsBank == CapsBank!Spec
=============================================================================
