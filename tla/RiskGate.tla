------------------------------ MODULE RiskGate ------------------------------
(***************************************************************************)
(* The sizing half of risk::evaluate (src/bot-rs/src/risk.rs): what the    *)
(* exposure buckets leave room for, and the size an entry is approved at.  *)
(* Money is in whole parts of a dollar, where the program has f64 dollars; *)
(* its edges are rounded to 4 decimals, so 10000 parts lose none of them.  *)
(***************************************************************************)
EXTENDS Integers

CONSTANTS
  Dollar,         \* the parts of a dollar: 100 are cents
  EdgeFloor,      \* edge_floor_cents
  MaxContracts,   \* max_contracts_per_pair
  MaxPerPair,     \* max_notional_per_pair
  MaxPerCluster,  \* max_notional_per_cluster
  MaxTotal,       \* max_total_notional
  MaxConcurrent,  \* max_concurrent_positions
  FatKnee,        \* fat_edge_knee_cents
  FatNum, FatDen  \* fat_edge_size_factor = FatNum / FatDen

ASSUME RiskAssumption ==
  /\ Dollar \in Nat /\ Dollar >= 10 /\ Dollar % 10 = 0
  /\ EdgeFloor \in Nat /\ MaxContracts \in Nat /\ FatKnee \in Nat
  /\ MaxPerPair \in Nat /\ MaxPerCluster \in Nat /\ MaxTotal \in Nat
  /\ MaxConcurrent \in Nat
  /\ FatNum \in Nat /\ FatDen \in Nat \ {0} /\ FatNum <= FatDen

\* The cash one contract pair locks: (1 - net).max(0.1).
CostPer(net) == IF Dollar - net >= Dollar \div 10 THEN Dollar - net ELSE Dollar \div 10

\* How many contracts of that cost a cap still has room for, (room.max(0) / cost).floor().
RoomFor(cap, used, cost) == IF cap > used THEN (cap - used) \div cost ELSE 0

\* Contracts the bankroll can fund: the room left under the total cap.
Affordable(net, total) == RoomFor(MaxTotal, total, CostPer(net))

Least(a, b) == IF a <= b THEN a ELSE b

\* Mutant of Clipped: the cluster cap gates an entry but does not clip it.
BugClipped(net, depth, pair, cluster, total) ==
  Least(Least(Least(depth, MaxContracts), Affordable(net, total)),
        Least(RoomFor(MaxPerPair, pair, CostPer(net)), RoomFor(MaxTotal, total, CostPer(net))))

\* The contracts left by depth, clip, bankroll and the three notional caps.
Clipped(net, depth, pair, cluster, total) ==
  Least(Least(Least(depth, MaxContracts), Affordable(net, total)),
        Least(RoomFor(MaxPerPair, pair, CostPer(net)),
              Least(RoomFor(MaxPerCluster, cluster, CostPer(net)),
                    RoomFor(MaxTotal, total, CostPer(net)))))

\* The fat-edge haircut: at or past the knee the size is scaled down, floored, and at least 1.
Haircut(net, size) ==
  IF net >= FatKnee /\ FatNum < FatDen
  THEN LET cut == (size * FatNum) \div FatDen IN IF cut >= 1 THEN cut ELSE 1
  ELSE size

\* The gates that read the edge and the exposure, in the order evaluate applies them.
Admissible(net, pair, cluster, total, open) ==
  /\ net > 0
  /\ net >= EdgeFloor
  /\ open < MaxConcurrent
  /\ RoomFor(MaxPerPair, pair, CostPer(net)) > 0
  /\ RoomFor(MaxPerCluster, cluster, CostPer(net)) > 0
  /\ RoomFor(MaxTotal, total, CostPer(net)) > 0

\* The size evaluate approves.  A rejection is size 0.
ApprovedSize(net, depth, pair, cluster, total, open) ==
  IF Admissible(net, pair, cluster, total, open)
  THEN Haircut(net, Clipped(net, depth, pair, cluster, total))
  ELSE 0
=============================================================================
