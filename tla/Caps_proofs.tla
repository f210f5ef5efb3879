---------------------------- MODULE Caps_proofs ----------------------------
(***************************************************************************)
(* The replay of the caps stays under them, for every bankroll, every set  *)
(* of caps, and every sequence of candidates; and the bankroll and the two *)
(* pools of money that run beside it lend nothing they do not have.        *)
(***************************************************************************)
EXTENDS Capital, SumTheorems, TLAPS

\* A contract has a price, and a haircut size is still a size, and no larger.
LEMMA CostIsPositive == \A e \in Candidates : CostPer(e) \in Nat /\ CostPer(e) >= 1
  BY CapsAssumption DEF CostPer

\* A quotient is a natural number no larger than what is divided.
LEMMA Quotient == ASSUME NEW n \in Nat, NEW d \in Nat \ {0} PROVE n \div d \in Nat /\ n \div d <= n
  OBVIOUS

\* A halved size is at least one contract and no larger than it was.
LEMMA HalvedIsSmaller ==
  ASSUME NEW e \in Candidates, NEW n \in Nat, n >= 1
  PROVE  Halved(e, n) \in Nat /\ 1 <= Halved(e, n) /\ Halved(e, n) <= n
  BY Quotient, CapsAssumption DEF Halved

\* A product grows with its factor.
LEMMA Monotone ==
  ASSUME NEW a \in Nat, NEW b \in Nat, NEW c \in Nat, a <= b
  PROVE  a * c <= b * c /\ a * c \in Nat /\ b * c \in Nat
  OBVIOUS

\* A funded candidate becomes a position of the right type.
LEMMA FundTypes == ASSUME CapsTypeOK, Fund PROVE CapsTypeOK'
  <1>1. next.e \in Candidates /\ next' = None /\ now' = now /\ now \in Nat
    BY DEF Fund, Decided, CapsTypeOK
  <1>2. PICK n \in Fits(next.e) : Enter(next.e, Halved(next.e, n))
    BY DEF Fund
  <1> DEFINE e == next.e
             s == Halved(next.e, n)
             capital == s * CostPer(next.e)
  <1>3. n \in Nat /\ n >= 1 /\ s \in Nat /\ e.market \in Markets /\ ClusterOf[e.market] \in Clusters
    <2>1. n \in Nat /\ n >= 1
      BY CapsAssumption DEF Fits
    <2> QED
      BY <1>1, <2>1, HalvedIsSmaller, CapsAssumption
  <1>4. capital \in Nat
    <2>1. CostPer(next.e) \in Nat
      BY <1>1, CostIsPositive
    <2> QED
      BY <1>3, <2>1, Monotone
  <1>5. SettleT(e.market, now) \in Nat
    BY <1>1, <1>3, CapsAssumption DEF SettleT
  <1> HIDE DEF s, capital
  <1>6. /\ held' = held \cup {[market |-> e.market, open_t |-> now, settle_t |-> SettleT(e.market, now),
                               size |-> s, capital |-> capital]}
        /\ cash' = cash - capital
        /\ perPair' = [perPair EXCEPT ![e.market] = @ + capital]
        /\ perCluster' = [perCluster EXCEPT ![ClusterOf[e.market]] = @ + capital]
        /\ total' = total + capital
        /\ openPositions' = openPositions + 1
    BY <1>2 DEF Enter, s, capital
  <1> HIDE DEF e
  <1> QED
    BY <1>1, <1>3, <1>4, <1>5, <1>6 DEF CapsTypeOK, Positions

\* The counters and positions keep their types.
THEOREM CapsTypeCorrect == CapsSpec => []CapsTypeOK
<1>1. CapsInit => CapsTypeOK
  BY CapsAssumption DEF CapsInit, CapsTypeOK
<1>2. CapsTypeOK /\ [CapsNext]_capsVars => CapsTypeOK'
  <2> SUFFICES ASSUME CapsTypeOK, [CapsNext]_capsVars PROVE CapsTypeOK'
    OBVIOUS
  <2>1. ASSUME NEW e \in Candidates, NEW t \in Nat, Consider(e, t) PROVE CapsTypeOK'
    BY <2>1 DEF Consider, CapsTypeOK
  <2>2. ASSUME NEW p \in held, SettleOne(p) PROVE CapsTypeOK'
    <3>1. p \in Positions
      BY DEF CapsTypeOK
    <3>2. p.capital \in Nat /\ p.market \in Markets /\ ClusterOf[p.market] \in Clusters
      BY <3>1, CapsAssumption DEF Positions
    <3> QED
      BY <2>2, <3>2 DEF SettleOne, CapsTypeOK
  <2>3. CASE Fund
    BY <2>3, FundTypes
  <2>4. CASE PassOver
    BY <2>4 DEF PassOver, Decided, CapsTypeOK
  <2>5. CASE Skip
    BY <2>5 DEF Skip, Decided, CapsTypeOK
  <2>6. ASSUME NEW t \in Nat, Elapse(t) PROVE CapsTypeOK'
    BY <2>6 DEF Elapse, CapsTypeOK
  <2>7. CASE UNCHANGED capsVars
    BY <2>7 DEF capsVars, CapsTypeOK
  <2> QED BY <2>1, <2>2, <2>3, <2>4, <2>5, <2>6, <2>7 DEF CapsNext
<1> QED
  BY <1>1, <1>2, PTL DEF CapsSpec

\* The replay never borrows and stays under every ceiling: for every bankroll, caps and sequence of candidates.
THEOREM CapsAlwaysHold == CapsSpec => []CapsHold
<1>1. CapsInit => CapsHold
  BY CapsAssumption DEF CapsInit, CapsHold
<1>2. CapsTypeOK /\ CapsHold /\ [CapsNext]_capsVars => CapsHold'
  <2> SUFFICES ASSUME CapsTypeOK, CapsHold, [CapsNext]_capsVars PROVE CapsHold'
    OBVIOUS
  <2>1. ASSUME NEW e \in Candidates, NEW t \in Nat, Consider(e, t) PROVE CapsHold'
    BY <2>1 DEF Consider, CapsHold
  <2>2. ASSUME NEW p \in held, SettleOne(p) PROVE CapsHold'
    <3>1. p \in Positions
      BY DEF CapsTypeOK
    <3>2. p.capital \in Nat /\ p.market \in Markets /\ ClusterOf[p.market] \in Clusters
      BY <3>1, CapsAssumption DEF Positions
    <3> QED
      BY <2>2, <3>2, CapsAssumption DEF SettleOne, CapsTypeOK, CapsHold
  <2>3. CASE Fund
    <3>1. next.e \in Candidates /\ openPositions < MaxConcurrent
      BY <2>3 DEF Fund, Decided, CapsTypeOK
    <3>2. PICK n \in Fits(next.e) : Enter(next.e, Halved(next.e, n))
      BY <2>3 DEF Fund
    <3> DEFINE e == next.e
               s == Halved(next.e, n)
               capital == s * CostPer(next.e)
               c == ClusterOf[e.market]
    <3>3. n \in Nat /\ n >= 1 /\ n * CostPer(e) <= cash /\ perPair[e.market] + n * CostPer(e) <= MaxPerPair
          /\ perCluster[c] + n * CostPer(e) <= MaxPerCluster /\ total + n * CostPer(e) <= MaxTotal
      BY CapsAssumption DEF Fits
    <3>4. e.market \in Markets /\ c \in Clusters /\ s \in Nat /\ s <= n /\ CostPer(e) \in Nat
      BY <3>1, <3>3, HalvedIsSmaller, CostIsPositive, CapsAssumption
    <3>5. capital \in Nat /\ n * CostPer(e) \in Nat /\ capital <= n * CostPer(e)
      BY <3>3, <3>4, Monotone
    <3>6. /\ cash' = cash - capital
          /\ perPair' = [perPair EXCEPT ![e.market] = @ + capital]
          /\ perCluster' = [perCluster EXCEPT ![c] = @ + capital]
          /\ total' = total + capital
          /\ openPositions' = openPositions + 1
      BY <3>2 DEF Enter
    <3> DEFINE most == n * CostPer(e)
    <3>7. most \in Nat /\ capital <= most /\ most <= cash /\ perPair[e.market] + most <= MaxPerPair
          /\ perCluster[c] + most <= MaxPerCluster /\ total + most <= MaxTotal
      BY <3>3, <3>5
    <3> HIDE DEF s, capital, most, c, e
    <3> QED
      BY <3>1, <3>4, <3>5, <3>6, <3>7, CapsAssumption DEF CapsTypeOK, CapsHold
  <2>4. CASE PassOver
    BY <2>4 DEF PassOver, CapsHold
  <2>5. CASE Skip
    BY <2>5 DEF Skip, Decided, CapsHold
  <2>6. ASSUME NEW t \in Nat, Elapse(t) PROVE CapsHold'
    BY <2>6 DEF Elapse, CapsHold
  <2>7. CASE UNCHANGED capsVars
    BY <2>7 DEF capsVars, CapsHold
  <2> QED BY <2>1, <2>2, <2>3, <2>4, <2>5, <2>6, <2>7 DEF CapsNext
<1> QED
  BY <1>1, <1>2, CapsTypeCorrect, PTL DEF CapsSpec

(***************************************************************************)
(* The exposures                                                           *)
(***************************************************************************)

\* The capital of a finite set of positions is a number, and one more position adds its own.
LEMMA CapitalOfMore ==
  ASSUME NEW ps \in SUBSET Positions, IsFiniteSet(ps), NEW p \in Positions
  PROVE  /\ CapitalOf(ps) \in Int
         /\ p \notin ps => CapitalOf(ps \cup {p}) = CapitalOf(ps) + p.capital
         /\ p \in ps => CapitalOf(ps \ {p}) = CapitalOf(ps) - p.capital
  <1> DEFINE w == [q \in Positions |-> q.capital]
  <1>1. \A q \in Positions : w[q] = q.capital /\ q.capital \in Int
    BY DEF Positions
  <1>2. ASSUME NEW qs \in SUBSET Positions, IsFiniteSet(qs)
        PROVE  CapitalOf(qs) = SumFunctionOnSet(w, qs) /\ CapitalOf(qs) \in Int
    <2> DEFINE v == [q \in qs |-> q.capital]
    <2>1. \A q \in qs : v[q] = w[q] /\ w[q] \in Int
      BY <1>1
    <2>2. CapitalOf(qs) = SumFunctionOnSet(v, qs)
      BY DEF CapitalOf, SumFunction
    <2> HIDE DEF v, w
    <2> QED BY <1>2, <2>1, <2>2, SumExtensional, SumType
  <1>3. ASSUME NEW qs \in SUBSET Positions, IsFiniteSet(qs), NEW q \in qs
        PROVE  CapitalOf(qs \ {q}) = CapitalOf(qs) - q.capital
    <2>1. \A x \in qs : w[x] \in Int
      BY <1>1
    <2>2. IsFiniteSet(qs \ {q}) /\ qs \ {q} \in SUBSET Positions
      BY <1>3, FS_RemoveElement
    <2>3. CapitalOf(qs) = SumFunctionOnSet(w, qs) /\ CapitalOf(qs \ {q}) = SumFunctionOnSet(w, qs \ {q})
          /\ CapitalOf(qs \ {q}) \in Int
      BY <1>2, <1>3, <2>2
    <2>4. w[q] = q.capital /\ q.capital \in Int
      BY <1>1
    <2> HIDE DEF w
    <2>5. SumFunctionOnSet(w, qs) = w[q] + SumFunctionOnSet(w, qs \ {q})
      BY <1>3, <2>1, SumTakesAny
    <2> QED BY <2>3, <2>4, <2>5
  <1>4. ASSUME p \notin ps PROVE CapitalOf(ps \cup {p}) = CapitalOf(ps) + p.capital
    <2>1. IsFiniteSet(ps \cup {p}) /\ ps \cup {p} \in SUBSET Positions /\ (ps \cup {p}) \ {p} = ps
      BY <1>4, FS_AddElement
    <2>2. CapitalOf(ps) = CapitalOf(ps \cup {p}) - p.capital
      BY <1>3, <2>1
    <2>3. CapitalOf(ps \cup {p}) \in Int /\ p.capital \in Int
      BY <1>1, <1>2, <2>1
    <2> QED BY <2>2, <2>3
  <1> QED BY <1>2, <1>3, <1>4

\* The positions are finitely many, and one opened now is not among those held already.
HeldAreOlder ==
  /\ IsFiniteSet(held)
  /\ \A p \in held : p.open_t <= now /\ (next # None => p.open_t < now)

\* What a funded candidate adds to the books.
LEMMA FundOpens ==
  ASSUME Fund
  PROVE  \E p \in held' :
           /\ held' = held \cup {p} /\ p.open_t = now
           /\ cash' = cash - p.capital
           /\ perPair' = [perPair EXCEPT ![p.market] = @ + p.capital]
           /\ perCluster' = [perCluster EXCEPT ![ClusterOf[p.market]] = @ + p.capital]
           /\ total' = total + p.capital
           /\ openPositions' = openPositions + 1
  <1>1. PICK n \in Fits(next.e) : Enter(next.e, Halved(next.e, n))
    BY DEF Fund
  <1> DEFINE size == Halved(next.e, n)
             p == [market |-> next.e.market, open_t |-> now, settle_t |-> SettleT(next.e.market, now),
                   size |-> size, capital |-> size * CostPer(next.e)]
  <1>2. held' = held \cup {p}
    BY <1>1 DEF Enter
  <1>3. p \in held' /\ p.open_t = now /\ p.market = next.e.market /\ p.capital = size * CostPer(next.e)
    BY <1>2
  <1>4. /\ cash' = cash - p.capital
        /\ perPair' = [perPair EXCEPT ![p.market] = @ + p.capital]
        /\ perCluster' = [perCluster EXCEPT ![ClusterOf[p.market]] = @ + p.capital]
        /\ total' = total + p.capital
        /\ openPositions' = openPositions + 1
    BY <1>1 DEF Enter
  <1> HIDE DEF p
  <1> QED BY <1>2, <1>3, <1>4

\* What is held was opened earlier, in every state of the walk.
LEMMA HeldAreAlwaysOlder == CapsSpec => []HeldAreOlder
<1>1. CapsInit => HeldAreOlder
  BY FS_EmptySet DEF CapsInit, HeldAreOlder
<1>2. CapsTypeOK /\ HeldAreOlder /\ [CapsNext]_capsVars => HeldAreOlder'
  <2> SUFFICES ASSUME CapsTypeOK, HeldAreOlder, [CapsNext]_capsVars PROVE HeldAreOlder'
    OBVIOUS
  <2>0. \A p \in held : p.open_t \in Nat /\ now \in Nat
    BY DEF CapsTypeOK, Positions
  <2>1. ASSUME NEW e \in Candidates, NEW t \in Nat, Consider(e, t) PROVE HeldAreOlder'
    BY <2>0, <2>1 DEF Consider, HeldAreOlder
  <2>2. ASSUME NEW p \in held, SettleOne(p) PROVE HeldAreOlder'
    BY <2>0, <2>2, FS_RemoveElement DEF SettleOne, HeldAreOlder
  <2>3. CASE Fund
    <3>1. PICK p : held' = held \cup {p} /\ p.open_t = now
      BY <2>3, FundOpens
    <3>3. now' = now /\ next' = None
      BY <2>3 DEF Fund, Decided
    <3>2. now \in Nat
      BY DEF CapsTypeOK
    <3> QED BY <2>0, <3>1, <3>2, <3>3, FS_AddElement DEF HeldAreOlder
  <2>4. CASE PassOver
    BY <2>0, <2>4 DEF PassOver, Decided, HeldAreOlder
  <2>5. CASE Skip
    BY <2>0, <2>5 DEF Skip, Decided, HeldAreOlder
  <2>6. ASSUME NEW t \in Nat, Elapse(t) PROVE HeldAreOlder'
    BY <2>0, <2>6 DEF Elapse, HeldAreOlder
  <2>7. CASE UNCHANGED capsVars
    BY <2>7 DEF capsVars, HeldAreOlder
  <2> QED BY <2>1, <2>2, <2>3, <2>4, <2>5, <2>6, <2>7 DEF CapsNext
<1> QED BY <1>1, <1>2, CapsTypeCorrect, PTL DEF CapsSpec

\* A position that comes or goes moves the count of positions, and the capital of the sets it is in and no other.
LEMMA ExposureFollows ==
  ASSUME NEW hs \in SUBSET Positions, IsFiniteSet(hs), NEW p \in Positions, p \notin hs
  PROVE  /\ CapitalOf(hs \cup {p}) = CapitalOf(hs) + p.capital
         /\ Cardinality(hs \cup {p}) = Cardinality(hs) + 1 /\ Cardinality(hs) \in Nat
         /\ CapitalOf(hs) \in Int /\ p.capital \in Nat
         /\ \A m \in Markets : CapitalOf(InPair(hs \cup {p}, m))
                = CapitalOf(InPair(hs, m)) + (IF p.market = m THEN p.capital ELSE 0)
         /\ \A c \in Clusters : CapitalOf(InCluster(hs \cup {p}, c))
                = CapitalOf(InCluster(hs, c)) + (IF ClusterOf[p.market] = c THEN p.capital ELSE 0)
         /\ \A m \in Markets : CapitalOf(InPair(hs, m)) \in Int
         /\ \A c \in Clusters : CapitalOf(InCluster(hs, c)) \in Int
  <1>1. ASSUME NEW qs \in SUBSET hs
        PROVE  IsFiniteSet(qs) /\ qs \in SUBSET Positions /\ p \notin qs
               /\ CapitalOf(qs) \in Int /\ CapitalOf(qs \cup {p}) = CapitalOf(qs) + p.capital
    <2>1. IsFiniteSet(qs) /\ qs \in SUBSET Positions /\ p \notin qs
      BY FS_Subset
    <2> QED BY <2>1, CapitalOfMore
  <1>2. p.capital \in Nat /\ Cardinality(hs) \in Nat /\ Cardinality(hs \cup {p}) = Cardinality(hs) + 1
    BY FS_AddElement, FS_CardinalityType DEF Positions
  <1>3. ASSUME NEW m \in Markets
        PROVE  /\ CapitalOf(InPair(hs, m)) \in Int
               /\ CapitalOf(InPair(hs \cup {p}, m))
                    = CapitalOf(InPair(hs, m)) + (IF p.market = m THEN p.capital ELSE 0)
    <2> DEFINE qs == InPair(hs, m)
    <2>1. p.market = m => InPair(hs \cup {p}, m) = qs \cup {p}
      BY DEF InPair
    <2>2. ~ (p.market = m) => InPair(hs \cup {p}, m) = qs
      BY DEF InPair
    <2>3. qs \in SUBSET hs
      BY DEF InPair
    <2>4. CapitalOf(qs) \in Int /\ CapitalOf(qs \cup {p}) = CapitalOf(qs) + p.capital
      BY <1>1, <2>3
    <2>5. CASE p.market = m
      BY <2>1, <2>4, <2>5
    <2>6. CASE ~ (p.market = m)
      BY <2>2, <2>4, <2>6
    <2> QED BY <2>5, <2>6
  <1>4. ASSUME NEW c \in Clusters
        PROVE  /\ CapitalOf(InCluster(hs, c)) \in Int
               /\ CapitalOf(InCluster(hs \cup {p}, c))
                    = CapitalOf(InCluster(hs, c))
                        + (IF ClusterOf[p.market] = c THEN p.capital ELSE 0)
    <2> DEFINE qs == InCluster(hs, c)
    <2>1. ClusterOf[p.market] = c => InCluster(hs \cup {p}, c) = qs \cup {p}
      BY DEF InCluster
    <2>2. ~ (ClusterOf[p.market] = c) => InCluster(hs \cup {p}, c) = qs
      BY DEF InCluster
    <2>3. qs \in SUBSET hs
      BY DEF InCluster
    <2>4. CapitalOf(qs) \in Int /\ CapitalOf(qs \cup {p}) = CapitalOf(qs) + p.capital
      BY <1>1, <2>3
    <2>5. CASE ClusterOf[p.market] = c
      BY <2>1, <2>4, <2>5
    <2>6. CASE ~ (ClusterOf[p.market] = c)
      BY <2>2, <2>4, <2>6
    <2> QED BY <2>5, <2>6
  <1> QED BY <1>1, <1>2, <1>3, <1>4

\* What the counters say is locked is what the positions held say, in every reachable state, for any bankroll, caps
\* and candidates: no exposure drifts, and no money is made or lost while it is locked.
THEOREM ExposureIsAlwaysHeld == CapsSpec => []ExposureIsHeld
<1>1. CapsInit => ExposureIsHeld
  <2> SUFFICES ASSUME CapsInit PROVE ExposureIsHeld
    OBVIOUS
  <2>1. CapitalOf({}) = 0
    BY SumOfNothing DEF CapitalOf, SumFunction
  <2>2. /\ \A m \in Markets : InPair(held, m) = {}
        /\ \A c \in Clusters : InCluster(held, c) = {}
        /\ held = {} /\ Cardinality({}) = 0
    BY FS_EmptySet DEF CapsInit, InPair, InCluster
  <2>3. cash \in Int /\ cash = IF Capital0 < MaxTotal THEN Capital0 ELSE MaxTotal
    BY CapsAssumption DEF CapsInit
  <2>4. /\ \A m \in Markets : perPair[m] = 0
        /\ \A c \in Clusters : perCluster[c] = 0
        /\ total = 0 /\ openPositions = 0
    BY DEF CapsInit
  <2>5. cash + total = (IF Capital0 < MaxTotal THEN Capital0 ELSE MaxTotal)
    BY <2>3, <2>4
  <2> QED BY <2>1, <2>2, <2>4, <2>5 DEF ExposureIsHeld
<1>2. CapsTypeOK /\ HeldAreOlder /\ ExposureIsHeld /\ [CapsNext]_capsVars => ExposureIsHeld'
  <2> SUFFICES ASSUME CapsTypeOK, HeldAreOlder, ExposureIsHeld, [CapsNext]_capsVars PROVE ExposureIsHeld'
    OBVIOUS
  <2>0. held \in SUBSET Positions /\ IsFiniteSet(held)
        /\ perPair \in [Markets -> Int] /\ perCluster \in [Clusters -> Int]
        /\ cash \in Int /\ total \in Int /\ openPositions \in Int
    BY DEF CapsTypeOK, HeldAreOlder
  <2>1. ASSUME NEW e \in Candidates, NEW t \in Nat, Consider(e, t) PROVE ExposureIsHeld'
    BY <2>1 DEF Consider, ExposureIsHeld
  <2>2. ASSUME NEW p \in held, SettleOne(p) PROVE ExposureIsHeld'
    <3>1. p \in Positions /\ p.market \in Markets /\ ClusterOf[p.market] \in Clusters
      BY <2>0, CapsAssumption DEF Positions
    <3>2. held' \in SUBSET Positions /\ IsFiniteSet(held') /\ p \notin held' /\ held = held' \cup {p}
      BY <2>0, <2>2, FS_RemoveElement DEF SettleOne
    <3>3. /\ cash' = cash + p.capital
          /\ perPair' = [perPair EXCEPT ![p.market] = @ - p.capital]
          /\ perCluster' = [perCluster EXCEPT ![ClusterOf[p.market]] = @ - p.capital]
          /\ total' = total - p.capital
          /\ openPositions' = openPositions - 1
      BY <2>2 DEF SettleOne
    <3>4. /\ CapitalOf(held) = CapitalOf(held') + p.capital
          /\ Cardinality(held) = Cardinality(held') + 1 /\ Cardinality(held') \in Nat
          /\ CapitalOf(held') \in Int /\ p.capital \in Nat
          /\ \A m \in Markets : CapitalOf(InPair(held, m))
                 = CapitalOf(InPair(held', m)) + (IF p.market = m THEN p.capital ELSE 0)
          /\ \A c \in Clusters : CapitalOf(InCluster(held, c))
                 = CapitalOf(InCluster(held', c))
                     + (IF ClusterOf[p.market] = c THEN p.capital ELSE 0)
          /\ \A m \in Markets : CapitalOf(InPair(held', m)) \in Int
          /\ \A c \in Clusters : CapitalOf(InCluster(held', c)) \in Int
      BY <3>1, <3>2, ExposureFollows
    <3>5. /\ \A m \in Markets : perPair'[m] = perPair[m] - (IF p.market = m THEN p.capital ELSE 0)
          /\ \A c \in Clusters : perCluster'[c] = perCluster[c] - (IF ClusterOf[p.market] = c THEN p.capital ELSE 0)
      BY <2>0, <3>1, <3>3, <3>4
    <3>6. ASSUME NEW m \in Markets PROVE perPair'[m] = CapitalOf(InPair(held', m))
      BY <3>4, <3>5 DEF ExposureIsHeld
    <3>7. ASSUME NEW c \in Clusters PROVE perCluster'[c] = CapitalOf(InCluster(held', c))
      BY <3>4, <3>5 DEF ExposureIsHeld
    <3>8. total' = CapitalOf(held') /\ openPositions' = Cardinality(held')
          /\ cash' + total' = (IF Capital0 < MaxTotal THEN Capital0 ELSE MaxTotal)
      BY <2>0, <3>3, <3>4 DEF ExposureIsHeld
    <3> QED BY <3>6, <3>7, <3>8 DEF ExposureIsHeld
  <2>3. CASE Fund
    <3>1. PICK p \in held' :
            /\ held' = held \cup {p} /\ p.open_t = now
            /\ cash' = cash - p.capital
            /\ perPair' = [perPair EXCEPT ![p.market] = @ + p.capital]
            /\ perCluster' = [perCluster EXCEPT ![ClusterOf[p.market]] = @ + p.capital]
            /\ total' = total + p.capital
            /\ openPositions' = openPositions + 1
      BY <2>3, FundOpens
    <3>2. next # None /\ now \in Nat
      BY <2>3 DEF Fund, Decided, CapsTypeOK
    <3>3. p \notin held
      BY <3>1, <3>2 DEF HeldAreOlder
    <3>4. p \in Positions /\ p.market \in Markets /\ ClusterOf[p.market] \in Clusters
      <4>1. CapsTypeOK'
        BY FundTypes, <2>3
      <4> QED BY <4>1, CapsAssumption DEF CapsTypeOK, Positions
    <3>5. /\ CapitalOf(held') = CapitalOf(held) + p.capital
          /\ Cardinality(held') = Cardinality(held) + 1 /\ Cardinality(held) \in Nat
          /\ CapitalOf(held) \in Int /\ p.capital \in Nat
          /\ \A m \in Markets : CapitalOf(InPair(held', m))
                 = CapitalOf(InPair(held, m)) + (IF p.market = m THEN p.capital ELSE 0)
          /\ \A c \in Clusters : CapitalOf(InCluster(held', c))
                 = CapitalOf(InCluster(held, c))
                     + (IF ClusterOf[p.market] = c THEN p.capital ELSE 0)
      BY <2>0, <3>1, <3>3, <3>4, ExposureFollows
    <3>6. /\ \A m \in Markets : perPair'[m] = perPair[m] + (IF p.market = m THEN p.capital ELSE 0)
          /\ \A c \in Clusters : perCluster'[c] = perCluster[c] + (IF ClusterOf[p.market] = c THEN p.capital ELSE 0)
      BY <2>0, <3>1, <3>4, <3>5
    <3>7. ASSUME NEW m \in Markets PROVE perPair'[m] = CapitalOf(InPair(held', m))
      BY <3>5, <3>6 DEF ExposureIsHeld
    <3>8. ASSUME NEW c \in Clusters PROVE perCluster'[c] = CapitalOf(InCluster(held', c))
      BY <3>5, <3>6 DEF ExposureIsHeld
    <3>9. total' = CapitalOf(held') /\ openPositions' = Cardinality(held')
          /\ cash' + total' = (IF Capital0 < MaxTotal THEN Capital0 ELSE MaxTotal)
      BY <2>0, <3>1, <3>5 DEF ExposureIsHeld
    <3> QED BY <3>7, <3>8, <3>9 DEF ExposureIsHeld
  <2>4. CASE PassOver
    BY <2>4 DEF PassOver, ExposureIsHeld
  <2>5. CASE Skip
    BY <2>5 DEF Skip, Decided, ExposureIsHeld
  <2>6. ASSUME NEW t \in Nat, Elapse(t) PROVE ExposureIsHeld'
    BY <2>6 DEF Elapse, ExposureIsHeld
  <2>7. CASE UNCHANGED capsVars
    BY <2>7 DEF capsVars, ExposureIsHeld
  <2> QED BY <2>1, <2>2, <2>3, <2>4, <2>5, <2>6, <2>7 DEF CapsNext
<1> QED BY <1>1, <1>2, CapsTypeCorrect, HeldAreAlwaysOlder, PTL DEF CapsSpec

(***************************************************************************)
(* Refinement                                                              *)
(***************************************************************************)

\* What is locked is never negative.
LEMMA TotalIsNat == CapsSpec => [](total \in Nat)
  <1>1. CapsTypeOK /\ HeldAreOlder /\ ExposureIsHeld => total \in Nat
    <2> SUFFICES ASSUME CapsTypeOK, HeldAreOlder, ExposureIsHeld PROVE total \in Nat
      OBVIOUS
    <2>1. \A p \in held : [q \in held |-> q.capital][p] \in Nat
      BY DEF CapsTypeOK, Positions
    <2>2. SumFunctionOnSet([q \in held |-> q.capital], held) \in Nat
      BY <2>1, SumNat DEF HeldAreOlder
    <2> QED BY <2>2 DEF ExposureIsHeld, CapitalOf, SumFunction
  <1> QED BY <1>1, CapsTypeCorrect, HeldAreAlwaysOlder, ExposureIsAlwaysHeld, PTL

\* The walk of the caps implements a bank: whatever is entered, settled or passed over, money only moves between
\* what is free and what is locked, and nothing is lent that is not there.
THEOREM CapsImplementBank == CapsSpec => CapsIsBank
<1> DEFINE Inv == CapsTypeOK /\ CapsHold /\ ExposureIsHeld /\ total \in Nat
           start == IF Capital0 < MaxTotal THEN Capital0 ELSE MaxTotal
<1>1. CapsInit => CapsBank!Init
  BY DEF CapsInit, CapsBank!Init
<1>2. Inv /\ Inv' /\ [CapsNext]_capsVars => [CapsBank!Move]_<<cash, total, 0>>
  <2> SUFFICES ASSUME CapsTypeOK, ExposureIsHeld, total \in Nat,
                      CapsTypeOK', CapsHold', ExposureIsHeld', total' \in Nat
               PROVE  CapsBank!Move
    OBVIOUS
  <2>1. cash \in Int /\ cash' \in Int /\ cash' >= 0 /\ total \in Nat /\ total' \in Nat
    BY DEF CapsTypeOK, CapsHold
  <2>2. cash + total = start
    BY DEF ExposureIsHeld
  <2>3. cash' + total' = start
    BY DEF ExposureIsHeld
  <2> HIDE DEF start
  <2>4. cash' + total' = cash + total
    BY <2>2, <2>3
  <2>5. PICK g, m : g = cash' /\ m = total'
    OBVIOUS
  <2>6. g \in Int /\ g >= 0 /\ m \in Nat /\ g + m = cash + total
    BY <2>1, <2>4, <2>5
  <2>7. g = cash + (total - m) + (0 - 0) /\ m >= 0
    BY <2>1, <2>6
  <2>8. cash' = cash + (total - total') + (0 - 0) /\ total' >= 0 /\ cash' >= 0
    BY <2>5, <2>6, <2>7
  <2> QED BY <2>8 DEF CapsBank!Move
<1> QED BY <1>1, <1>2, CapsTypeCorrect, CapsAlwaysHold, TotalIsNat, ExposureIsAlwaysHeld, PTL
        DEF CapsSpec, CapsIsBank, CapsBank!Spec

\* The lock-step of the replays runs the walk of the caps and nothing but it: every step of the eight walks is a
\* step of the caps, or leaves them alone.
THEOREM LockStepRunsTheCaps == Spec => CapsSpec
<1>1. Init => CapsInit
  BY DEF Init
<1>2. [Next]_vars => [CapsNext]_capsVars
  <2> SUFFICES ASSUME [Next]_vars PROVE [CapsNext]_capsVars
    OBVIOUS
  <2>1. ASSUME NEW e \in Candidates, NEW t \in 1..LastArrival, Come(e, t) PROVE CapsNext
    <3>1. t \in Nat /\ Consider(e, t)
      BY <2>1 DEF Come
    <3> QED BY <3>1 DEF CapsNext
  <2>2. ASSUME NEW p \in held, SettleCap(p) PROVE CapsNext
    BY <2>2 DEF SettleCap, CapsNext
  <2>3. CASE ArmSettles
    BY <2>3 DEF ArmSettles
  <2>4. CASE Decide
    BY <2>4 DEF Decide, CapsNext
  <2>5. ASSUME NEW i \in DOMAIN seen, NEW a \in Adds, NEW t \in 1..LastArrival, Widen(i, a, t) PROVE CapsNext
    <3>1. t \in Nat /\ Elapse(t)
      BY <2>5 DEF Widen
    <3> QED BY <3>1 DEF CapsNext
  <2>6. CASE End
    BY <2>6 DEF End
  <2>7. CASE UNCHANGED vars
    BY <2>7 DEF vars
  <2> QED BY <2>1, <2>2, <2>3, <2>4, <2>5, <2>6, <2>7 DEF Next
<1> QED BY <1>1, <1>2, PTL DEF Spec, CapsSpec

\* So what is proved of the caps holds in the lock-step, beside the other walks.
THEOREM CapsHoldInLockStep == Spec => [](CapsHold /\ ExposureIsHeld) /\ CapsIsBank
  BY LockStepRunsTheCaps, CapsAlwaysHold, ExposureIsAlwaysHeld, CapsImplementBank, PTL

(***************************************************************************)
(* The bankroll                                                            *)
(***************************************************************************)

\* A sum of money over positions: the capital or the profit.
LEMMA MoneySplits ==
  ASSUME NEW S, IsFiniteSet(S), NEW f, DOMAIN f = S, \A x \in S : f[x] \in Nat, NEW T \in SUBSET S
  PROVE  /\ SumFunction(f) = SumFunction([x \in T |-> f[x]]) + SumFunction([x \in S \ T |-> f[x]])
         /\ SumFunction(f) \in Nat /\ SumFunction([x \in T |-> f[x]]) \in Nat
         /\ SumFunction([x \in S \ T |-> f[x]]) \in Nat
  <1>1. ASSUME NEW U \in SUBSET S
        PROVE  SumFunction([x \in U |-> f[x]]) = SumFunctionOnSet(f, U) /\ SumFunctionOnSet(f, U) \in Nat
    <2> DEFINE g == [x \in U |-> f[x]]
    <2>1. IsFiniteSet(U) /\ (\A x \in U : f[x] \in Nat) /\ (\A x \in U : g[x] = f[x]) /\ DOMAIN g = U
      BY FS_Subset
    <2> HIDE DEF g
    <2>2. SumFunctionOnSet(g, U) = SumFunctionOnSet(f, U)
      BY <2>1, SumExtensional
    <2>3. SumFunctionOnSet(f, U) \in Nat
      BY <2>1, SumNat
    <2> QED BY <2>1, <2>2, <2>3 DEF g, SumFunction
  <1>2. SumFunctionOnSet(f, S) = SumFunctionOnSet(f, T) + SumFunctionOnSet(f, S \ T)
    BY SumSplit
  <1>3. SumFunction(f) = SumFunctionOnSet(f, S)
    BY DEF SumFunction
  <1>4. T \in SUBSET S /\ S \ T \in SUBSET S /\ S \in SUBSET S
    OBVIOUS
  <1>5. SumFunctionOnSet(f, S) \in Nat
    BY <1>1, <1>4
  <1> QED BY <1>1, <1>2, <1>3, <1>4, <1>5

\* One more index adds its value.
LEMMA MoneyGrows ==
  ASSUME NEW S, IsFiniteSet(S), NEW p, p \notin S, NEW f, DOMAIN f = S \cup {p}, \A x \in S \cup {p} : f[x] \in Nat
  PROVE  SumFunction(f) = SumFunction([x \in S |-> f[x]]) + f[p] /\ SumFunction([x \in S |-> f[x]]) \in Nat
  <1> DEFINE R == S \cup {p}
             g == [x \in S |-> f[x]]
  <1>1. /\ IsFiniteSet(R) /\ S \in SUBSET R /\ p \in R /\ R \ {p} = S /\ DOMAIN f = R /\ DOMAIN g = S
        /\ (\A x \in R : f[x] \in Int) /\ (\A x \in S : g[x] = f[x] /\ g[x] \in Nat)
    BY FS_AddElement
  <1> HIDE DEF R, g
  <1>2. SumFunctionOnSet(f, R) = f[p] + SumFunctionOnSet(f, R \ {p})
    BY <1>1, SumTakesAny
  <1>0. SumFunctionOnSet(f, R \ {p}) = SumFunctionOnSet(f, S)
    <2>1. R \ {p} = S
      BY <1>1
    <2> QED BY <2>1, Zenon
  <1>3. SumFunctionOnSet(g, S) = SumFunctionOnSet(f, S)
    BY <1>1, SumExtensional
  <1>4. SumFunctionOnSet(g, S) \in Nat
    BY <1>1, SumNat
  <1>5. SumFunction(f) = SumFunctionOnSet(f, R) /\ SumFunction(g) = SumFunctionOnSet(g, S)
    BY <1>1 DEF SumFunction
  <1>6. f[p] \in Nat
    OBVIOUS
  <1>7. SumFunction(f) = SumFunction(g) + f[p] /\ SumFunction(g) \in Nat
    BY <1>0, <1>2, <1>3, <1>4, <1>5, <1>6
  <1> QED BY <1>7 DEF g

\* A position of the bankroll is money locked and money to be earned.
Locks(p) == p.capital \in Nat /\ p.profit \in Nat /\ p.open_t \in Nat

\* What part of the positions locks and earns is at most what all do, and the rest is the difference.
LEMMA CapitalSplits ==
  ASSUME NEW S, IsFiniteSet(S), \A p \in S : Locks(p), NEW T \in SUBSET S
  PROVE  /\ CapitalOf(S) = CapitalOf(T) + CapitalOf(S \ T)
         /\ CapitalOf(S) \in Nat /\ CapitalOf(T) \in Nat /\ CapitalOf(S \ T) \in Nat /\ Earned(T) \in Nat
  <1> DEFINE c == [p \in S |-> p.capital]
             e == [p \in S |-> p.profit]
  <1>1. /\ DOMAIN c = S /\ DOMAIN e = S /\ \A p \in S : c[p] \in Nat /\ e[p] \in Nat
        /\ CapitalOf(S) = SumFunction(c)
    BY DEF Locks, CapitalOf
  <1>2. ASSUME NEW U \in SUBSET S
        PROVE  [p \in U |-> c[p]] = [p \in U |-> p.capital] /\ [p \in U |-> e[p]] = [p \in U |-> p.profit]
    OBVIOUS
  <1>3. /\ CapitalOf(T) = SumFunction([p \in T |-> c[p]]) /\ Earned(T) = SumFunction([p \in T |-> e[p]])
        /\ CapitalOf(S \ T) = SumFunction([p \in S \ T |-> c[p]])
    BY <1>2 DEF CapitalOf, Earned
  <1> HIDE DEF c, e
  <1>4. /\ SumFunction(c) = SumFunction([p \in T |-> c[p]]) + SumFunction([p \in S \ T |-> c[p]])
        /\ SumFunction(c) \in Nat /\ SumFunction([p \in T |-> c[p]]) \in Nat
        /\ SumFunction([p \in S \ T |-> c[p]]) \in Nat
    BY <1>1, MoneySplits
  <1>5. SumFunction([p \in T |-> e[p]]) \in Nat
    BY <1>1, MoneySplits
  <1> QED BY <1>1, <1>3, <1>4, <1>5

\* A position more locks its capital more.
LEMMA CapitalGrows ==
  ASSUME NEW S, IsFiniteSet(S), \A p \in S : Locks(p), NEW p, Locks(p), p \notin S
  PROVE  CapitalOf(S \cup {p}) = CapitalOf(S) + p.capital /\ CapitalOf(S) \in Nat
  <1> DEFINE f == [q \in S \cup {p} |-> q.capital]
  <1>1. /\ DOMAIN f = S \cup {p} /\ (\A q \in S \cup {p} : f[q] \in Nat) /\ f[p] = p.capital
        /\ CapitalOf(S \cup {p}) = SumFunction(f)
    BY DEF Locks, CapitalOf
  <1>2. [q \in S |-> f[q]] = [q \in S |-> q.capital]
    OBVIOUS
  <1>3. CapitalOf(S) = SumFunction([q \in S |-> f[q]])
    BY <1>2 DEF CapitalOf
  <1> HIDE DEF f
  <1> QED BY <1>1, <1>3, MoneyGrows

\* What was paid for is held, and was opened before the candidate in hand.
AcctInv ==
  /\ IsFiniteSet(acct.held)
  /\ \A p \in acct.held : Locks(p) /\ p.open_t <= now /\ (next # None => p.open_t < now)
  /\ next # None => next.t = now
  /\ acct.cash \in Nat /\ acct.realized \in Nat
  /\ acct.cash + CapitalOf(acct.held) = Capital0 + acct.realized

\* What a contract earns is a number.
LEMMA ProfitTyped == \A e \in Candidates : ProfitPer(e) \in Nat
  <1>1. ASSUME NEW e \in Candidates PROVE ProfitPer(e) \in Nat
    <2>1. e.net \in Nat /\ Boundary \in Int /\ Void[e.cat] \in Int
      BY CapsAssumption, CapitalAssumption
    <2>2. (e.net + Boundary) \div 2 \in Int
      BY <2>1
    <2> DEFINE half == (e.net + Boundary) \div 2
    <2> HIDE DEF half
    <2> QED BY <2>1, <2>2 DEF ProfitPer, Larger, half
  <1> QED BY <1>1

\* A settlement gives back what was locked, and the profit.
LEMMA AcctSettles ==
  ASSUME AcctInv, NEW t, acct' = Settled(acct, t), (UNCHANGED now) \/ (now' \in Nat /\ now' > now), now \in Nat,
         next' # None => next'.t = now' /\ now' > now
  PROVE  AcctInv' /\ acct'.realized >= acct.realized
  <1> DEFINE ps == Matured(acct, t)
  <1>1. /\ acct'.cash = acct.cash + CapitalOf(ps) + Earned(ps) /\ acct'.held = acct.held \ ps
        /\ acct'.realized = acct.realized + Earned(ps) /\ ps \in SUBSET acct.held
    BY DEF Settled, Matured
  <1> HIDE DEF ps
  <1>2. /\ CapitalOf(acct.held) = CapitalOf(ps) + CapitalOf(acct.held \ ps)
        /\ CapitalOf(acct.held) \in Nat /\ CapitalOf(ps) \in Nat /\ CapitalOf(acct.held \ ps) \in Nat
        /\ Earned(ps) \in Nat
    BY <1>1, CapitalSplits DEF AcctInv
  <1>3. IsFiniteSet(acct'.held)
    <2>1. IsFiniteSet(acct.held)
      BY DEF AcctInv
    <2>2. IsFiniteSet(acct.held \ ps)
      BY <2>1, FS_Difference
    <2> QED BY <1>1, <2>2
  <1>4. \A p \in acct'.held : Locks(p) /\ p.open_t <= now' /\ (next' # None => p.open_t < now')
    BY <1>1 DEF AcctInv, Locks
  <1>5. /\ acct'.cash \in Nat /\ acct'.realized \in Nat /\ acct'.realized >= acct.realized
        /\ acct'.cash + CapitalOf(acct'.held) = Capital0 + acct'.realized
    BY <1>1, <1>2, CapsAssumption DEF AcctInv
  <1> QED BY <1>3, <1>4, <1>5 DEF AcctInv

\* A candidate is bought with the cash there is.
LEMMA AcctBuys ==
  ASSUME AcctInv, next # None, next.e \in Candidates, now \in Nat, acct' = Bought(acct, next.e, next.t),
         UNCHANGED now, next' = None
  PROVE  AcctInv' /\ acct'.realized = acct.realized
  <1> DEFINE e == next.e
             c == CostPer(e)
             want == Smaller(e.c2, Clip)
             size == Smaller(want, acct.cash \div c)
             p == Position(e, next.t, size)
  <1>1. c \in Nat /\ c >= 1 /\ ProfitPer(e) \in Nat /\ acct.cash \in Nat /\ next.t = now
    BY CostIsPositive, ProfitTyped DEF AcctInv
  <1>2. acct.cash \div c \in Nat /\ (acct.cash \div c) * c <= acct.cash
    <2> HIDE DEF c
    <2> QED BY <1>1
  <1>3. size \in Nat /\ size <= acct.cash \div c
    <2>1. want \in Nat
      BY CapsAssumption, CapitalAssumption DEF Smaller
    <2> HIDE DEF want, c
    <2> QED BY <1>2, <2>1 DEF Smaller
  <1>4. size * c <= acct.cash /\ size * c \in Nat
    <2> HIDE DEF size, c
    <2>1. size * c <= (acct.cash \div c) * c /\ size * c \in Nat /\ (acct.cash \div c) * c \in Nat
      BY <1>1, <1>2, <1>3, Monotone
    <2> QED BY <1>1, <1>2, <2>1
  <1>5. Locks(p) /\ p.capital = size * c /\ p.open_t = now
    <2>1. size * ProfitPer(e) \in Nat
      <3> HIDE DEF size
      <3> QED BY <1>1, <1>3
    <2> QED BY <1>1, <1>4, <2>1 DEF Position, Locks
  <1>6. CASE size < 1
    <2>1. acct'.cash = acct.cash /\ acct'.held = acct.held /\ acct'.realized = acct.realized
      BY <1>6 DEF Bought
    <2> QED BY <2>1 DEF AcctInv
  <1>7. CASE ~ (size < 1)
    <2>1. acct'.cash = acct.cash - size * c /\ acct'.held = acct.held \cup {p} /\ acct'.realized = acct.realized
      BY <1>7 DEF Bought
    <2> DEFINE spent == size * c
    <2>2. p \notin acct.held
      BY <1>5 DEF AcctInv, Locks
    <2> HIDE DEF p, spent
    <2>3. CapitalOf(acct.held \cup {p}) = CapitalOf(acct.held) + p.capital /\ CapitalOf(acct.held) \in Nat
      BY <1>5, <2>2, CapitalGrows DEF AcctInv
    <2>4. spent \in Nat /\ spent <= acct.cash /\ acct'.cash = acct.cash - spent /\ p.capital = spent
      BY <1>4, <1>5, <2>1 DEF spent
    <2>5. IsFiniteSet(acct'.held) /\ \A q \in acct'.held : Locks(q) /\ q.open_t <= now
      BY <1>5, <2>1, FS_AddElement DEF AcctInv, Locks
    <2>6. acct'.cash + CapitalOf(acct'.held) = Capital0 + acct'.realized /\ acct'.cash \in Nat
      BY <2>1, <2>3, <2>4, CapsAssumption DEF AcctInv
    <2> QED BY <2>1, <2>5, <2>6 DEF AcctInv
  <1> QED BY <1>6, <1>7

\* Each step of the lock-step keeps the bankroll, and never takes back what is realized.
LEMMA AcctStep ==
  ASSUME CapsTypeOK, CapsTypeOK', AcctInv, [Next]_vars
  PROVE  AcctInv' /\ acct'.realized >= acct.realized
  <1>0. now \in Nat /\ now' \in Nat /\ next \in [e : Candidates, t : Nat] \cup {None} /\ acct.realized \in Nat
    BY DEF CapsTypeOK, AcctInv
  <1>1. ASSUME NEW e \in Candidates, NEW t \in 1..LastArrival, Come(e, t) PROVE AcctInv' /\ acct'.realized >= acct.realized
    <2>1. acct' = Settled(acct, t) /\ now' = t /\ t > now /\ next' = [e |-> e, t |-> t]
      BY <1>1 DEF Come, Consider
    <2> QED BY <1>0, <2>1, AcctSettles
  <1>2. ASSUME NEW p \in held, SettleCap(p) PROVE AcctInv' /\ acct'.realized >= acct.realized
    BY <1>0, <1>2 DEF SettleCap, SettleOne, walks, AcctInv
  <1>3. CASE ArmSettles
    BY <1>0, <1>3 DEF ArmSettles, capsVars, AcctInv
  <1>4. CASE Decide
    <2>1. next # None /\ next' = None /\ UNCHANGED now /\ acct' = Bought(acct, next.e, next.t)
      BY <1>4 DEF Decide, Fund, PassOver, Skip, Decided
    <2>2. next.e \in Candidates
      BY <1>0, <2>1
    <2>3. AcctInv' /\ acct'.realized = acct.realized
      BY <1>0, <2>1, <2>2, AcctBuys
    <2> QED BY <1>0, <2>3
  <1>5. ASSUME NEW i \in DOMAIN seen, NEW a \in Adds, NEW t \in 1..LastArrival, Widen(i, a, t)
        PROVE  AcctInv' /\ acct'.realized >= acct.realized
    <2>1. next' = next /\ next = None /\ now' > now /\ UNCHANGED acct
      BY <1>0, <1>5 DEF Widen, Elapse
    <2> QED BY <1>0, <2>1 DEF AcctInv, Locks
  <1>6. CASE End
    <2> DEFINE t == WindowEnd
    <2>1. acct' = Settled(acct, t) /\ next' = next /\ next = None /\ UNCHANGED now
      BY <1>6 DEF End, capsVars
    <2> HIDE DEF t
    <2> QED BY <1>0, <2>1, AcctSettles
  <1>7. CASE UNCHANGED vars
    BY <1>0, <1>7 DEF vars, capsVars, walks, AcctInv
  <1> QED BY <1>1, <1>2, <1>3, <1>4, <1>5, <1>6, <1>7 DEF Next

\* The bankroll's invariant holds in every reachable state.
LEMMA AcctAlways == Spec => []AcctInv
<1>1. Init => AcctInv
  <2> SUFFICES ASSUME Init PROVE AcctInv
    OBVIOUS
  <2>1. acct.cash = Capital0 /\ acct.held = {} /\ acct.realized = 0 /\ next = None
    BY DEF Init, CapsInit, FreshWalk
  <2>2. CapitalOf({}) = 0
    BY SumOfNothing DEF CapitalOf, SumFunction
  <2> QED BY <2>1, <2>2, FS_EmptySet, CapsAssumption DEF AcctInv
<1>2. CapsTypeOK /\ CapsTypeOK' /\ AcctInv /\ [Next]_vars => AcctInv'
  BY AcctStep
<1> QED BY <1>1, <1>2, LockStepRunsTheCaps, CapsTypeCorrect, PTL DEF Spec

\* The bankroll of the research scripts implements a bank: it pays only with money it has, what it pays is locked until
\* the settlement, and it earns no more than the booked edge of what settled.  (run_account, settle_due)
THEOREM BankrollImplementsBank == Spec => AcctIsBank
<1>1. Init => AcctBank!Init
  <2>1. CapitalOf({}) = 0
    BY SumOfNothing DEF CapitalOf, SumFunction
  <2> QED BY <2>1 DEF Init, FreshWalk, AcctBank!Init
<1>2. CapsTypeOK /\ CapsTypeOK' /\ AcctInv /\ AcctInv' /\ [Next]_vars
        => [AcctBank!Move]_<<acct.cash, CapitalOf(acct.held), acct.realized>>
  <2> SUFFICES ASSUME CapsTypeOK, CapsTypeOK', AcctInv, AcctInv', [Next]_vars PROVE AcctBank!Move
    OBVIOUS
  <2>1. acct'.realized >= acct.realized
    BY AcctStep
  <2>2. CapitalOf(acct.held) \in Nat
    BY CapitalSplits DEF AcctInv
  <2>3. CapitalOf(acct'.held) \in Nat
    BY CapitalSplits DEF AcctInv
  <2>4. /\ acct.cash + CapitalOf(acct.held) = Capital0 + acct.realized
        /\ acct'.cash + CapitalOf(acct'.held) = Capital0 + acct'.realized
        /\ acct.cash \in Nat /\ acct'.cash \in Nat /\ acct.realized \in Nat /\ acct'.realized \in Nat /\ Capital0 \in Nat
    BY CapsAssumption DEF AcctInv
  <2>5. PICK f, g, l, m, r, s : f = acct.cash /\ g = acct'.cash /\ l = CapitalOf(acct.held) /\ m = CapitalOf(acct'.held)
                             /\ r = acct.realized /\ s = acct'.realized
    OBVIOUS
  <2>6. g = f + (l - m) + (s - r) /\ m >= 0 /\ s >= r /\ g >= 0
    BY <2>1, <2>2, <2>3, <2>4, <2>5
  <2> QED BY <2>5, <2>6 DEF AcctBank!Move
<1> QED BY <1>1, <1>2, AcctAlways, LockStepRunsTheCaps, CapsTypeCorrect, PTL DEF Spec, AcctIsBank, AcctBank!Spec

(***************************************************************************)
(* The two pools                                                           *)
(***************************************************************************)

\* A position of the pools has taken its legs from both.
Costs(p) == p.kcost \in Nat /\ p.pcost \in Nat /\ p.open_t \in Nat

\* Each pool has what it started with, less what its legs have locked.
PoolOK(w) ==
  /\ IsFiniteSet(w.held) /\ \A p \in w.held : Costs(p)
  /\ w.k \in Nat /\ w.p \in Nat
  /\ w.k + KLocked(w) = K0 /\ w.p + PLocked(w) = P0

\* What part of the positions has taken from each pool, and the rest.
LEMMA CostSplits ==
  ASSUME NEW S, IsFiniteSet(S), \A p \in S : Costs(p), NEW T \in SUBSET S
  PROVE  /\ KCost(S) = KCost(T) + KCost(S \ T) /\ PCost(S) = PCost(T) + PCost(S \ T)
         /\ KCost(S) \in Nat /\ KCost(T) \in Nat /\ KCost(S \ T) \in Nat
         /\ PCost(S) \in Nat /\ PCost(T) \in Nat /\ PCost(S \ T) \in Nat
  <1> DEFINE k == [p \in S |-> p.kcost]
             c == [p \in S |-> p.pcost]
  <1>1. /\ DOMAIN k = S /\ DOMAIN c = S /\ (\A p \in S : k[p] \in Nat /\ c[p] \in Nat)
        /\ KCost(S) = SumFunction(k) /\ PCost(S) = SumFunction(c)
    BY DEF Costs, KCost, PCost
  <1>2. ASSUME NEW U \in SUBSET S
        PROVE  [p \in U |-> k[p]] = [p \in U |-> p.kcost] /\ [p \in U |-> c[p]] = [p \in U |-> p.pcost]
    OBVIOUS
  <1>3. /\ KCost(T) = SumFunction([p \in T |-> k[p]]) /\ KCost(S \ T) = SumFunction([p \in S \ T |-> k[p]])
        /\ PCost(T) = SumFunction([p \in T |-> c[p]]) /\ PCost(S \ T) = SumFunction([p \in S \ T |-> c[p]])
    BY <1>2 DEF KCost, PCost
  <1> HIDE DEF k, c
  <1>4. /\ SumFunction(k) = SumFunction([p \in T |-> k[p]]) + SumFunction([p \in S \ T |-> k[p]])
        /\ SumFunction(k) \in Nat /\ SumFunction([p \in T |-> k[p]]) \in Nat
        /\ SumFunction([p \in S \ T |-> k[p]]) \in Nat
    BY <1>1, MoneySplits
  <1>5. /\ SumFunction(c) = SumFunction([p \in T |-> c[p]]) + SumFunction([p \in S \ T |-> c[p]])
        /\ SumFunction(c) \in Nat /\ SumFunction([p \in T |-> c[p]]) \in Nat
        /\ SumFunction([p \in S \ T |-> c[p]]) \in Nat
    BY <1>1, MoneySplits
  <1> QED BY <1>1, <1>3, <1>4, <1>5

\* A position more has taken its legs more.
LEMMA CostGrows ==
  ASSUME NEW S, IsFiniteSet(S), \A p \in S : Costs(p), NEW p, Costs(p), p \notin S
  PROVE  /\ KCost(S \cup {p}) = KCost(S) + p.kcost /\ KCost(S) \in Nat
         /\ PCost(S \cup {p}) = PCost(S) + p.pcost /\ PCost(S) \in Nat
  <1> DEFINE R == S \cup {p}
             k == [q \in R |-> q.kcost]
             c == [q \in R |-> q.pcost]
  <1>1. /\ DOMAIN k = R /\ DOMAIN c = R /\ (\A q \in R : k[q] \in Nat /\ c[q] \in Nat)
        /\ k[p] = p.kcost /\ c[p] = p.pcost /\ KCost(R) = SumFunction(k) /\ PCost(R) = SumFunction(c)
    BY DEF Costs, KCost, PCost
  <1>2. [q \in S |-> k[q]] = [q \in S |-> q.kcost] /\ [q \in S |-> c[q]] = [q \in S |-> q.pcost]
    OBVIOUS
  <1>3. KCost(S) = SumFunction([q \in S |-> k[q]]) /\ PCost(S) = SumFunction([q \in S |-> c[q]])
    BY <1>2 DEF KCost, PCost
  <1> HIDE DEF k, c
  <1>4. SumFunction(k) = SumFunction([q \in S |-> k[q]]) + k[p] /\ SumFunction([q \in S |-> k[q]]) \in Nat
    BY <1>1, MoneyGrows
  <1>5. SumFunction(c) = SumFunction([q \in S |-> c[q]]) + c[p] /\ SumFunction([q \in S |-> c[q]]) \in Nat
    BY <1>1, MoneyGrows
  <1> QED BY <1>1, <1>3, <1>4, <1>5

\* A settlement gives each pool its own legs back.
LEMMA PoolReturns ==
  ASSUME NEW w, PoolOK(w), NEW t
  PROVE  PoolOK(Returned(w, t)) /\ Returned(w, t).held \subseteq w.held
  <1> DEFINE ps == Matured(w, t)
             r == Returned(w, t)
  <1>1. /\ r.k = w.k + KCost(ps) /\ r.p = w.p + PCost(ps) /\ r.held = w.held \ ps /\ ps \in SUBSET w.held
    BY DEF Returned, Matured
  <1> HIDE DEF ps, r
  <1>2. /\ KCost(w.held) = KCost(ps) + KCost(w.held \ ps) /\ PCost(w.held) = PCost(ps) + PCost(w.held \ ps)
        /\ KCost(ps) \in Nat /\ PCost(ps) \in Nat /\ KCost(w.held \ ps) \in Nat /\ PCost(w.held \ ps) \in Nat
    BY <1>1, CostSplits DEF PoolOK
  <1>3. IsFiniteSet(w.held \ ps)
    <2>1. IsFiniteSet(w.held)
      BY DEF PoolOK
    <2> QED BY <2>1, FS_Difference
  <1>4. r.k \in Nat /\ r.p \in Nat /\ r.k + KLocked(r) = K0 /\ r.p + PLocked(r) = P0
    BY <1>1, <1>2 DEF PoolOK, KLocked, PLocked
  <1>5. PoolOK(r)
    BY <1>1, <1>3, <1>4 DEF PoolOK
  <1> QED BY <1>1, <1>5 DEF r

\* What both pools can pay is paid from them.
LEMMA PoolPays ==
  ASSUME NEW w, PoolOK(w), NEW p, Costs(p), p \notin w.held, p.kcost <= w.k, p.pcost <= w.p
  PROVE  PoolOK(Held(w, p)) /\ Held(w, p).held = w.held \cup {p}
  <1> DEFINE r == Held(w, p)
  <1>1. r.k = w.k - p.kcost /\ r.p = w.p - p.pcost /\ r.held = w.held \cup {p}
    BY DEF Held
  <1> HIDE DEF r
  <1>2. /\ KCost(w.held \cup {p}) = KCost(w.held) + p.kcost /\ KCost(w.held) \in Nat
        /\ PCost(w.held \cup {p}) = PCost(w.held) + p.pcost /\ PCost(w.held) \in Nat
    BY CostGrows DEF PoolOK
  <1>3. IsFiniteSet(w.held \cup {p}) /\ \A q \in w.held \cup {p} : Costs(q)
    BY FS_AddElement DEF PoolOK
  <1>4. r.k \in Nat /\ r.p \in Nat /\ r.k + KLocked(r) = K0 /\ r.p + PLocked(r) = P0
    BY <1>1, <1>2 DEF PoolOK, KLocked, PLocked, Costs
  <1>5. PoolOK(r)
    BY <1>1, <1>3, <1>4 DEF PoolOK
  <1> QED BY <1>1, <1>5 DEF r

\* A share of a whole is no more than the whole.
LEMMA Share ==
  ASSUME NEW c \in Nat, NEW a \in Nat, NEW b \in Nat, a + b > 0
  PROVE  (c * a) \div (a + b) \in Nat /\ (c * a) \div (a + b) <= c
  <1> DEFINE n == c * a
             d == a + b
             q == n \div d
  <1>1. n \in Nat /\ d \in Nat \ {0} /\ n <= c * d
    <2>1. c * a <= c * (a + b)
      <3>1. c * (a + b) = c * a + c * b /\ c * a \in Nat /\ c * b \in Nat
        OBVIOUS
      <3> QED BY <3>1
    <2> QED BY <2>1
  <1>2. q \in Nat /\ q * d <= n
    <2> HIDE DEF n, d
    <2> QED BY <1>1
  <1>3. q <= c
    <2> SUFFICES ASSUME q >= c + 1 PROVE FALSE
      <3> HIDE DEF q
      <3> QED BY <1>2
    <2> HIDE DEF n, d, q
    <2>1. (c + 1) * d <= q * d
      BY <1>1, <1>2, Monotone
    <2>2. (c + 1) * d = c * d + d /\ c * d \in Nat /\ q * d \in Nat
      BY <1>1, <1>2
    <2> QED BY <1>1, <1>2, <2>1, <2>2
  <1> QED BY <1>2, <1>3

\* The touches of a candidate price both legs, and not both at nothing.
LEMMA LegsTyped ==
  ASSUME NEW d, NEW px, Priced(px)
  PROVE  Legs(d, px).k \in Nat /\ Legs(d, px).p \in Nat /\ Legs(d, px).k + Legs(d, px).p > 0
  <1>1. CASE px = None
    BY <1>1 DEF Legs, Known
  <1>2. CASE px # None /\ SportsPx(px)
    BY <1>2 DEF Legs, Known, Priced, CheapPmus
  <1>3. CASE px # None /\ ~ SportsPx(px)
    BY <1>3 DEF Legs, Known, Priced, CheapPmus
  <1> QED BY <1>1, <1>2, <1>3

\* What a contract costs is split between the pools.
LEMMA UnitsTyped ==
  ASSUME NEW d, NEW net \in Nat, NEW px, Priced(px)
  PROVE  Units(d, net, px).k \in Nat /\ Units(d, net, px).p \in Nat
  <1> DEFINE lk == Legs(d, px).k
             lp == Legs(d, px).p
             c == CostPer([net |-> net])
  <1>1. lk \in Nat /\ lp \in Nat /\ lk + lp > 0
    BY LegsTyped
  <1>2. c \in Nat
    BY DEF CostPer
  <1>3. Units(d, net, px).k = (c * lk) \div (lk + lp) /\ Units(d, net, px).p = c - (c * lk) \div (lk + lp)
    BY DEF Units
  <1> HIDE DEF lk, lp, c
  <1>4. (c * lk) \div (lk + lp) \in Nat /\ (c * lk) \div (lk + lp) <= c
    BY <1>1, <1>2, Share
  <1> QED BY <1>2, <1>3, <1>4

\* A size that the pool can pay, and so can any smaller one.
LEMMA Pays ==
  ASSUME NEW n \in Nat, NEW u \in Nat, NEW x \in Nat, u > 0 => n <= x \div u, NEW m \in Nat, m <= n
  PROVE  m * u \in Nat /\ m * u <= x
  <1>1. CASE u = 0
    BY <1>1
  <1>2. CASE u > 0
    <2>1. x \div u \in Nat /\ (x \div u) * u <= x
      BY <1>2
    <2>2. m * u <= (x \div u) * u /\ m * u \in Nat /\ (x \div u) * u \in Nat
      <3> DEFINE y == x \div u
      <3>1. y \in Nat /\ m <= y
        BY <1>2, <2>1
      <3> HIDE DEF y
      <3>2. m * u <= y * u /\ m * u \in Nat /\ y * u \in Nat
        BY <3>1, Monotone
      <3> QED BY <3>2 DEF y
    <2> QED BY <2>1, <2>2
  <1> QED BY <1>1, <1>2

\* What both pools can pay of a size is a size.
LEMMA PayableTyped ==
  ASSUME NEW w, w.k \in Nat, w.p \in Nat, NEW u, u.k \in Nat, u.p \in Nat, NEW size \in Nat
  PROVE  Payable(w, u, size) \in Nat
  BY Quotient DEF Payable, Smaller

\* What both pools can pay of a size, or less, they can pay.
LEMMA PayableIsPaid ==
  ASSUME NEW w, w.k \in Nat, w.p \in Nat, NEW u, u.k \in Nat, u.p \in Nat, NEW size \in Nat,
         NEW m \in Nat, m <= Payable(w, u, size)
  PROVE  m * u.k \in Nat /\ m * u.k <= w.k /\ m * u.p \in Nat /\ m * u.p <= w.p
  <1> DEFINE n == Payable(w, u, size)
             qk == w.k \div u.k
             qp == w.p \div u.p
  <1>1. (u.k > 0 => qk \in Nat) /\ (u.p > 0 => qp \in Nat)
    BY Quotient
  <1>2. n = LET atK == IF u.k > 0 THEN Smaller(size, qk) ELSE size
            IN  IF u.p > 0 THEN Smaller(atK, qp) ELSE atK
    BY DEF Payable
  <1> HIDE DEF n, qk, qp
  <1>3. n \in Nat /\ (u.k > 0 => n <= qk) /\ (u.p > 0 => n <= qp)
    BY <1>1, <1>2 DEF Smaller
  <1> QED BY <1>3, Pays DEF n, qk, qp

\* A base entry takes from the pools what they have.
LEMMA BaseDraws ==
  ASSUME NEW w, PoolOK(w), NEW e \in Candidates, NEW t \in Nat, \A p \in w.held : p.open_t < t
  PROVE  PoolOK(DrawnBase(w, e, t)) /\ \A p \in DrawnBase(w, e, t).held : p.open_t <= t
  <1> DEFINE u    == Units(e.dir, e.net, e.px)
             size == Payable(w, u, e.c2)
             cut  == IF e.net >= FatKnee THEN Larger(1, size \div FatDivisor) ELSE size
             pos  == PoolPosition("base", e, t, u, cut)
  <1>1. CASE size < 1
    <2>1. DrawnBase(w, e, t) = w
      BY <1>1 DEF DrawnBase
    <2> QED BY <2>1 DEF PoolOK, Costs
  <1>2. CASE ~ (size < 1)
    <2>1. DrawnBase(w, e, t) = Held(w, pos)
      BY <1>2 DEF DrawnBase
    <2>2. e.c2 \in Nat /\ e.net \in Nat /\ FatDivisor \in Nat \ {0} /\ FatKnee \in Nat
      BY CapsAssumption
    <2>3. u.k \in Nat /\ u.p \in Nat /\ w.k \in Nat /\ w.p \in Nat
      BY <2>2, UnitsTyped, CapitalAssumption DEF PoolOK
    <2>4. size \in Nat
      <3> HIDE DEF u
      <3> QED BY <2>2, <2>3, PayableTyped
    <2>5. cut \in Nat /\ cut <= size
      <3> HIDE DEF size
      <3>1. size \div FatDivisor \in Nat /\ size \div FatDivisor <= size
        BY <2>2, <2>4, Quotient
      <3> QED BY <1>2, <2>2, <2>4, <3>1 DEF Larger
    <2>6. pos.kcost = cut * u.k /\ pos.pcost = cut * u.p /\ pos.open_t = t
      BY DEF PoolPosition
    <2>7. cut * u.k \in Nat /\ cut * u.k <= w.k /\ cut * u.p \in Nat /\ cut * u.p <= w.p
      <3>1. cut <= Payable(w, u, e.c2)
        BY <2>5
      <3> HIDE DEF cut, u
      <3> QED BY <2>2, <2>3, <2>5, <3>1, PayableIsPaid
    <2> HIDE DEF pos, cut, u, size
    <2>8. Costs(pos) /\ pos \notin w.held /\ pos.kcost <= w.k /\ pos.pcost <= w.p
      BY <2>6, <2>7 DEF Costs
    <2>9. PoolOK(Held(w, pos)) /\ Held(w, pos).held = w.held \cup {pos}
      BY <2>8, PoolPays
    <2>10. \A p \in w.held : p.open_t <= t
      BY DEF PoolOK, Costs
    <2> QED BY <2>1, <2>6, <2>9, <2>10
  <1> QED BY <1>1, <1>2

\* An add takes from the pools what they have.
LEMMA AddDraws ==
  ASSUME NEW w, PoolOK(w), NEW a \in Adds, NEW size0 \in Nat, NEW t \in Nat, \A p \in w.held : p.open_t < t
  PROVE  PoolOK(DrawnAdd(w, a, size0, t)) /\ \A p \in DrawnAdd(w, a, size0, t).held : p.open_t <= t
  <1> DEFINE u    == Units(a.dir, a.net, a.px)
             most == Smaller(Smaller(a.c2, Clip), AddCap(size0))
             size == Payable(w, u, most)
             pos  == PoolPosition("add", a, t, u, size)
             done == [k |-> w.k, p |-> w.p, held |-> w.held, entered |-> w.entered, added |-> w.added,
                      tried |-> w.tried \cup {a.market}]
  <1>1. PoolOK(done) /\ done.held = w.held /\ done.k = w.k /\ done.p = w.p
    BY DEF PoolOK, KLocked, PLocked
  <1>2. CASE size < 1
    <2>1. DrawnAdd(w, a, size0, t) = done
      BY <1>2 DEF DrawnAdd
    <2>2. \A p \in w.held : p.open_t <= t
      BY DEF PoolOK, Costs
    <2> HIDE DEF done
    <2> QED BY <1>1, <2>1, <2>2
  <1>3. CASE ~ (size < 1)
    <2>1. DrawnAdd(w, a, size0, t) = Held(done, pos)
      BY <1>3 DEF DrawnAdd
    <2>2. most \in Nat
      <3>1. a.c2 \in Nat /\ Clip \in Nat /\ AddCap(size0) \in Nat
        BY CapitalAssumption DEF AddCap
      <3> QED BY <3>1 DEF Smaller
    <2>3. u.k \in Nat /\ u.p \in Nat /\ w.k \in Nat /\ w.p \in Nat
      BY UnitsTyped, CapitalAssumption DEF PoolOK
    <2>4. size \in Nat
      <3> HIDE DEF u, most
      <3> QED BY <2>2, <2>3, PayableTyped
    <2>5. pos.kcost = size * u.k /\ pos.pcost = size * u.p /\ pos.open_t = t
      BY DEF PoolPosition
    <2>6. size * u.k \in Nat /\ size * u.k <= w.k /\ size * u.p \in Nat /\ size * u.p <= w.p
      <3>1. size <= Payable(w, u, most)
        BY <2>4
      <3> HIDE DEF size, u, most
      <3> QED BY <2>2, <2>3, <2>4, <3>1, PayableIsPaid
    <2> HIDE DEF pos, u, size, most, done
    <2>7. Costs(pos) /\ pos \notin done.held /\ pos.kcost <= done.k /\ pos.pcost <= done.p
      BY <1>1, <2>5, <2>6 DEF Costs
    <2>8. PoolOK(Held(done, pos)) /\ Held(done, pos).held = w.held \cup {pos}
      BY <1>1, <2>7, PoolPays
    <2>9. \A p \in w.held : p.open_t <= t
      BY DEF PoolOK, Costs
    <2> QED BY <2>1, <2>5, <2>8, <2>9
  <1> QED BY <1>2, <1>3

\* Each pool has what is not locked, and what is held was opened before the candidate in hand.
PoolInv ==
  /\ PoolOK(padd) /\ seen \in Seq([e : Candidates, t : Nat])
  /\ \A p \in padd.held : p.open_t <= now /\ (next # None => p.open_t < now)

\* Each step of the lock-step keeps the pools.
LEMMA PoolStep ==
  ASSUME CapsTypeOK, CapsTypeOK', AcctInv, PoolInv, [Next]_vars
  PROVE  PoolInv'
  <1>0. now \in Nat /\ now' \in Nat /\ next \in [e : Candidates, t : Nat] \cup {None}
        /\ (next # None => next.t = now) /\ PoolOK(padd) /\ \A p \in padd.held : p.open_t \in Nat /\ p.open_t <= now
    BY DEF CapsTypeOK, AcctInv, PoolInv, PoolOK, Costs
  <1>1. ASSUME NEW e \in Candidates, NEW t \in 1..LastArrival, Come(e, t) PROVE PoolInv'
    <2>1. padd' = Returned(padd, t) /\ now' > now /\ seen' = Append(seen, [e |-> e, t |-> t]) /\ t = now'
      BY <1>1 DEF Come, Consider
    <2>2. PoolOK(padd') /\ padd'.held \subseteq padd.held
      BY <1>0, <2>1, PoolReturns
    <2>3. [e |-> e, t |-> t] \in [e : Candidates, t : Nat]
      BY <1>0, <2>1
    <2>4. seen' \in Seq([e : Candidates, t : Nat])
      BY <2>1, <2>3, AppendProperties DEF PoolInv
    <2> QED BY <1>0, <2>1, <2>2, <2>4 DEF PoolInv
  <1>2. ASSUME NEW p \in held, SettleCap(p) PROVE PoolInv'
    BY <1>2 DEF SettleCap, SettleOne, walks, PoolInv
  <1>3. CASE ArmSettles
    BY <1>3 DEF ArmSettles, capsVars, PoolInv
  <1>4. CASE Decide
    <2>1. /\ next # None /\ next' = None /\ UNCHANGED now /\ UNCHANGED seen
          /\ padd' = (IF Live(next.e, next.t) THEN DrawnBase(padd, next.e, next.t) ELSE padd)
      BY <1>4 DEF Decide, Fund, PassOver, Skip, Decided
    <2>2. next.e \in Candidates /\ next.t = now /\ \A p \in padd.held : p.open_t < now
      BY <1>0, <2>1 DEF PoolInv
    <2>3. CASE Live(next.e, next.t)
      <3>1. padd' = DrawnBase(padd, next.e, now)
        BY <2>1, <2>2, <2>3
      <3>2. PoolOK(padd') /\ \A p \in padd'.held : p.open_t <= now
        BY <1>0, <2>2, <3>1, BaseDraws
      <3> QED BY <2>1, <3>2 DEF PoolInv
    <2>4. CASE ~ Live(next.e, next.t)
      BY <1>0, <2>1, <2>4 DEF PoolInv
    <2> QED BY <2>3, <2>4
  <1>5. ASSUME NEW i \in DOMAIN seen, NEW a \in Adds, NEW t \in 1..LastArrival, Widen(i, a, t) PROVE PoolInv'
    <2> DEFINE size0 == Size0(seen[i].e)
               w == Returned(padd, t)
    <2>1. next' = next /\ next = None /\ now' = t /\ t > now /\ padd' = DrawnAdd(w, a, size0, t) /\ UNCHANGED seen
      BY <1>5 DEF Widen, Elapse
    <2>2. size0 \in Nat
      <3>1. seen[i] \in [e : Candidates, t : Nat]
        BY ElementOfSeq, LenProperties DEF PoolInv
      <3>2. seen[i].e \in Candidates
        BY <3>1
      <3> QED BY <3>2, CapsAssumption, CapitalAssumption DEF Size0, Smaller
    <2>3. PoolOK(w) /\ w.held \subseteq padd.held
      BY <1>0, PoolReturns
    <2> HIDE DEF size0, w
    <2>4. t \in Nat /\ \A p \in w.held : p.open_t < t
      BY <1>0, <2>1, <2>3
    <2>5. PoolOK(padd') /\ \A p \in padd'.held : p.open_t <= t
      BY <2>1, <2>2, <2>3, <2>4, AddDraws
    <2> QED BY <2>1, <2>5 DEF PoolInv
  <1>6. CASE End
    BY <1>6 DEF End, capsVars, PoolInv
  <1>7. CASE UNCHANGED vars
    BY <1>7 DEF vars, capsVars, walks, PoolInv
  <1> QED BY <1>1, <1>2, <1>3, <1>4, <1>5, <1>6, <1>7 DEF Next

\* The pools' invariant holds in every reachable state.
LEMMA PoolsAlways == Spec => []PoolInv
<1>1. Init => PoolInv
  <2> SUFFICES ASSUME Init PROVE PoolInv
    OBVIOUS
  <2>1. padd.k = K0 /\ padd.p = P0 /\ padd.held = {} /\ seen = <<>>
    BY DEF Init, FreshPools
  <2>2. KLocked(padd) = 0 /\ PLocked(padd) = 0
    BY <2>1, SumOfNothing DEF KLocked, PLocked, KCost, PCost, SumFunction
  <2>3. PoolOK(padd)
    BY <2>1, <2>2, FS_EmptySet, CapitalAssumption DEF PoolOK
  <2> QED BY <2>1, <2>3 DEF PoolInv
<1>2. CapsTypeOK /\ CapsTypeOK' /\ AcctInv /\ PoolInv /\ [Next]_vars => PoolInv'
  BY PoolStep
<1> QED BY <1>1, <1>2, AcctAlways, LockStepRunsTheCaps, CapsTypeCorrect, PTL DEF Spec

\* Each of the two venues' pools implements a bank that earns nothing: with base entries and adds, in whatever order they
\* come and settle, a pool pays its legs with what it has and gets back exactly those.  (two_pool_walk_with_adds)
THEOREM PoolsImplementBanks == Spec => PoolsAreBanks
<1>1. Init => KBank!Init /\ PBank!Init
  <2> SUFFICES ASSUME Init PROVE KBank!Init /\ PBank!Init
    OBVIOUS
  <2>1. padd.k = K0 /\ padd.p = P0 /\ padd.held = {}
    BY DEF Init, FreshPools
  <2>2. KLocked(padd) = 0 /\ PLocked(padd) = 0
    BY <2>1, SumOfNothing DEF KLocked, PLocked, KCost, PCost, SumFunction
  <2> QED BY <2>1, <2>2 DEF KBank!Init, PBank!Init
<1>2. PoolInv /\ PoolInv'
        => [KBank!Move]_<<padd.k, KLocked(padd), 0>> /\ [PBank!Move]_<<padd.p, PLocked(padd), 0>>
  <2> SUFFICES ASSUME PoolInv, PoolInv' PROVE KBank!Move /\ PBank!Move
    OBVIOUS
  <2>1. /\ padd.k + KLocked(padd) = K0 /\ padd.p + PLocked(padd) = P0 /\ padd.k \in Nat /\ padd.p \in Nat
        /\ KLocked(padd) \in Nat /\ PLocked(padd) \in Nat
    BY CostSplits DEF PoolInv, PoolOK, KLocked, PLocked
  <2>2. /\ padd'.k + KLocked(padd') = K0 /\ padd'.p + PLocked(padd') = P0 /\ padd'.k \in Nat /\ padd'.p \in Nat
        /\ KLocked(padd') \in Nat /\ PLocked(padd') \in Nat
    BY CostSplits DEF PoolInv, PoolOK, KLocked, PLocked
  <2>3. /\ padd'.k = padd.k + (KLocked(padd) - KLocked(padd')) /\ KLocked(padd') >= 0 /\ padd'.k >= 0
        /\ padd'.p = padd.p + (PLocked(padd) - PLocked(padd')) /\ PLocked(padd') >= 0 /\ padd'.p >= 0
    BY <2>1, <2>2
  <2>4. 0 >= 0 /\ \A x, y \in Int : x + y + (0 - 0) = x + y
    OBVIOUS
  <2> QED BY <2>1, <2>2, <2>3, <2>4 DEF KBank!Move, PBank!Move
<1> QED BY <1>1, <1>2, PoolsAlways, PTL DEF Spec, PoolsAreBanks, KBank!Spec, PBank!Spec

(***************************************************************************)
(* The recycling arm                                                       *)
(***************************************************************************)

RuleOK(rule) == rule.caps = None /\ (rule.room = None \/ rule.room \in Nat) /\ rule.recycle \in BOOLEAN

\* What an arm has and holds: one position per market, paid for, and counted in its cluster.
ArmOK(rule, a) ==
  /\ IsFiniteSet(a.held) /\ \A p \in a.held : Locks(p) /\ p.settle_t \in Nat /\ p.market \in Markets
  /\ \A p, q \in a.held : p.market = q.market => p = q
  /\ a.cash \in Nat /\ a.realized \in Nat /\ a.cash + CapitalOf(a.held) = Capital0 + a.realized
  /\ a.locked \in [Clusters -> Nat]
  /\ \A c \in Clusters : /\ a.locked[c] = CapitalOf(InCluster(a.held, c))
                         /\ rule.room # None => a.locked[c] <= rule.room

\* What waits: one candidate per market, of none that is held.
Waits(a) ==
  /\ IsFiniteSet(a.pending) /\ a.pending \subseteq [e : Candidates, t : Nat]
  /\ \A x, y \in a.pending : x.e.market = y.e.market => x = y
  /\ \A p \in a.held, x \in a.pending : p.market # x.e.market

\* A candidate that the floor, the room of its cluster and the cash let in.
Can(rule, a, e) ==
  /\ ~ (ProfitPer(e) < rule.tau) /\ Smaller(e.c2, Clip) >= 1
  /\ rule.room = None \/ rule.room - a.locked[ClusterOf[e.market]] >= CostPer(e)
  /\ a.cash >= CostPer(e)

\* Less money and less room.
Poorer(b, a) == b.cash <= a.cash /\ \A c \in Clusters : b.locked[c] >= a.locked[c]

\* What an arm may take at a time.
TakenAt(p, m, t) == p.market = m /\ p.open_t = t /\ p.settle_t > t

\* Whole contracts that money can pay.
LEMMA Contracts ==
  ASSUME NEW x \in Nat, NEW c \in Nat \ {0}
  PROVE  /\ x \div c \in Nat /\ (x \div c) * c <= x /\ (x \div c >= 1 <=> x >= c)
  <1>1. x \div c \in Nat /\ (x \div c) * c <= x /\ x < (x \div c + 1) * c
    OBVIOUS
  <1> DEFINE q == x \div c
  <1>2. q \in Nat /\ q * c <= x /\ x < (q + 1) * c
    BY <1>1
  <1> HIDE DEF q
  <1>3. q >= 1 => q * c >= c
    <2> SUFFICES ASSUME q >= 1 PROVE q * c >= c
      OBVIOUS
    <2>1. 1 * c <= q * c
      BY <1>2, Monotone
    <2> QED BY <2>1
  <1>4. ~ (q >= 1) => (q + 1) * c = c
    <2> SUFFICES ASSUME ~ (q >= 1) PROVE (q + 1) * c = c
      OBVIOUS
    <2>1. q = 0
      BY <1>2
    <2> QED BY <2>1
  <1>5. q * c \in Nat /\ (q + 1) * c \in Nat
    BY <1>2
  <1> QED BY <1>2, <1>3, <1>4, <1>5 DEF q

\* What is in a cluster of a set with a position more.
LEMMA ClusterGrows ==
  ASSUME NEW S, IsFiniteSet(S), \A p \in S : Locks(p), NEW p, Locks(p), p \notin S, NEW c
  PROVE  CapitalOf(InCluster(S \cup {p}, c)) = CapitalOf(InCluster(S, c))
                                               + (IF ClusterOf[p.market] = c THEN p.capital ELSE 0)
  <1> DEFINE T == InCluster(S, c)
  <1>1. IsFiniteSet(T) /\ (\A q \in T : Locks(q)) /\ p \notin T
    <2>1. T \subseteq S
      BY DEF InCluster
    <2> QED BY <2>1, FS_Subset
  <1>2. CASE ClusterOf[p.market] = c
    <2>1. InCluster(S \cup {p}, c) = T \cup {p}
      BY <1>2 DEF InCluster
    <2> HIDE DEF T
    <2>2. CapitalOf(T \cup {p}) = CapitalOf(T) + p.capital
      BY <1>1, CapitalGrows
    <2>3. CapitalOf(InCluster(S \cup {p}, c)) = CapitalOf(T \cup {p})
      BY <2>1
    <2> QED BY <1>2, <2>2, <2>3 DEF T
  <1>3. CASE ClusterOf[p.market] # c
    <2>1. InCluster(S \cup {p}, c) = T
      BY <1>3 DEF InCluster
    <2>2. CapitalOf(T) \in Nat
      <3> HIDE DEF T
      <3> QED BY <1>1, CapitalSplits
    <2>3. CapitalOf(InCluster(S \cup {p}, c)) = CapitalOf(T)
      BY <2>1
    <2> HIDE DEF T
    <2>4. CapitalOf(T) + 0 = CapitalOf(T)
      BY <2>2
    <2> QED BY <1>3, <2>3, <2>4 DEF T
  <1> QED BY <1>2, <1>3

\* The size that an arm takes of a candidate, and when there is one.
Wanted(e) == Smaller(e.c2, Clip)
Fitting(rule, a, e) ==
  LET room == rule.room - a.locked[ClusterOf[e.market]]
  IN  IF rule.room = None THEN Wanted(e) ELSE Smaller(Wanted(e), IF room > 0 THEN room \div CostPer(e) ELSE 0)
SizeOf(rule, a, e) == Smaller(Fitting(rule, a, e), a.cash \div CostPer(e))

LEMMA SizeTyped ==
  ASSUME NEW rule, RuleOK(rule), NEW a, ArmOK(rule, a), NEW e \in Candidates
  PROVE  /\ Wanted(e) \in Nat /\ Fitting(rule, a, e) \in Nat /\ SizeOf(rule, a, e) \in Nat
         /\ SizeOf(rule, a, e) <= Fitting(rule, a, e) /\ Fitting(rule, a, e) <= Wanted(e)
         /\ SizeOf(rule, a, e) * CostPer(e) \in Nat /\ SizeOf(rule, a, e) * CostPer(e) <= a.cash
         /\ rule.room # None => a.locked[ClusterOf[e.market]] + SizeOf(rule, a, e) * CostPer(e) <= rule.room
         /\ Can(rule, a, e) <=> ~ (ProfitPer(e) < rule.tau) /\ SizeOf(rule, a, e) >= 1
  <1> DEFINE c == CostPer(e)
             l == a.locked[ClusterOf[e.market]]
             room == rule.room - l
             w == Wanted(e)
             f == Fitting(rule, a, e)
             n == SizeOf(rule, a, e)
             q == a.cash \div c
             k == IF room > 0 THEN room \div c ELSE 0
  <1>1. c \in Nat \ {0} /\ a.cash \in Nat /\ w \in Nat /\ l \in Nat /\ e.market \in Markets
    <2>1. e.c2 \in Nat /\ Clip \in Nat /\ e.market \in Markets /\ ClusterOf[e.market] \in Clusters
      BY CapsAssumption, CapitalAssumption
    <2> QED BY <2>1, CostIsPositive DEF ArmOK, Wanted, Smaller
  <1>2. q \in Nat /\ q * c <= a.cash /\ (q >= 1 <=> a.cash >= c)
    <2> HIDE DEF c
    <2> QED BY <1>1, Contracts
  <1>3. n = Smaller(f, q) /\ f = (IF rule.room = None THEN w ELSE Smaller(w, k))
    BY DEF SizeOf, Fitting
  <1>4. rule.room # None => room \in Nat /\ k \in Nat /\ k * c <= room /\ (k >= 1 <=> room >= c)
    <2> SUFFICES ASSUME rule.room # None PROVE room \in Nat /\ k \in Nat /\ k * c <= room /\ (k >= 1 <=> room >= c)
      OBVIOUS
    <2>1. room \in Nat
      <3>1. l <= rule.room /\ rule.room \in Nat
        BY <1>1, CapsAssumption DEF ArmOK, RuleOK
      <3> QED BY <1>1, <3>1
    <2>2. room > 0 => k \in Nat /\ k * c <= room /\ (k >= 1 <=> room >= c)
      <3> SUFFICES ASSUME room > 0 PROVE k \in Nat /\ k * c <= room /\ (k >= 1 <=> room >= c)
        OBVIOUS
      <3>1. k = room \div c
        OBVIOUS
      <3> HIDE DEF room, c, k
      <3> QED BY <1>1, <2>1, <3>1, Contracts
    <2>3. ~ (room > 0) => k = 0 /\ k * c = 0
      BY <1>1
    <2> HIDE DEF room, c, k
    <2> QED BY <1>1, <2>1, <2>2, <2>3
  <1>5. Can(rule, a, e) <=> /\ ~ (ProfitPer(e) < rule.tau) /\ w >= 1 /\ (rule.room = None \/ room >= c)
                            /\ a.cash >= c
    BY DEF Can, Wanted
  <1>6. rule.room # None => room = rule.room - l /\ rule.room \in Nat
    BY DEF RuleOK
  <1> HIDE DEF c, l, room, w, f, n, q, k
  <1>7. n \in Nat /\ f \in Nat /\ n <= f /\ f <= w /\ n <= q /\ (rule.room # None => n <= k)
    <2>1. CASE rule.room = None
      <3>1. n = Smaller(w, q)
        BY <1>3, <2>1
      <3>2. n \in Nat /\ n <= w /\ n <= q
        BY <1>1, <1>2, <3>1 DEF Smaller
      <3> QED BY <1>1, <1>3, <2>1, <3>2
    <2>2. CASE rule.room # None
      <3>1. n = Smaller(Smaller(w, k), q) /\ k \in Nat
        BY <1>3, <1>4, <2>2
      <3>2. f = Smaller(w, k)
        BY <1>3, <2>2
      <3> QED BY <1>1, <1>2, <3>1, <3>2 DEF Smaller
    <2> QED BY <2>1, <2>2
  <1>8. n * c \in Nat /\ n * c <= q * c /\ q * c \in Nat /\ n * c <= a.cash
    <2>1. n * c \in Nat /\ n * c <= q * c /\ q * c \in Nat
      BY <1>1, <1>2, <1>7, Monotone
    <2> QED BY <1>1, <1>2, <2>1
  <1>9. rule.room # None => l + n * c <= rule.room
    <2> SUFFICES ASSUME rule.room # None PROVE l + n * c <= rule.room
      OBVIOUS
    <2>1. n * c <= k * c /\ k * c \in Nat
      BY <1>1, <1>4, <1>7, Monotone
    <2>2. n * c <= room
      BY <1>4, <1>8, <2>1
    <2> QED BY <1>1, <1>4, <1>6, <1>8, <2>2
  <1>10. n >= 1 <=> w >= 1 /\ (rule.room = None \/ room >= c) /\ a.cash >= c
    BY <1>1, <1>2, <1>3, <1>4 DEF Smaller
  <1>11. Can(rule, a, e) <=> ~ (ProfitPer(e) < rule.tau) /\ n >= 1
    BY <1>5, <1>10
  <1> QED BY <1>1, <1>7, <1>8, <1>9, <1>11 DEF c, l, w, f, n

\* A position settles after it was opened.
LEMMA SettlesLater ==
  ASSUME NEW m \in Markets, NEW t \in Nat
  PROVE  SettleT(m, t) \in Nat /\ SettleT(m, t) > t
  <1>1. EventEnd[m] \in Nat /\ Hour \in Nat \ {0}
    BY CapsAssumption
  <1> QED BY <1>1 DEF SettleT

\* An arm takes what it can of a candidate, and is left as it was if it can take nothing.
LEMMA Funding ==
  ASSUME NEW rule, RuleOK(rule), NEW a, ArmOK(rule, a), NEW e \in Candidates, NEW t \in Nat,
         \A p \in a.held : p.market # e.market
  PROVE  LET r == TryFund(rule, a, e, t)
         IN  /\ r.why = "funded" <=> Can(rule, a, e)
             /\ r.why # "funded" => r.arm = a
             /\ r.why = "funded" => /\ ArmOK(rule, r.arm) /\ Poorer(r.arm, a)
                                    /\ r.arm.pending = a.pending /\ r.arm.realized = a.realized
                                    /\ \E p : TakenAt(p, e.market, t) /\ r.arm.held = a.held \cup {p}
  <1> DEFINE r == TryFund(rule, a, e, t)
             n == SizeOf(rule, a, e)
             c == ClusterOf[e.market]
             cost == n * CostPer(e)
             p == Position(e, t, n)
             b == [cash |-> a.cash - cost, held |-> a.held \cup {p}, realized |-> a.realized,
                   locked |-> [a.locked EXCEPT ![c] = @ + cost], pending |-> a.pending]
  <1>1. /\ Wanted(e) \in Nat /\ Fitting(rule, a, e) \in Nat /\ n \in Nat
        /\ n <= Fitting(rule, a, e) /\ Fitting(rule, a, e) <= Wanted(e)
        /\ cost \in Nat /\ cost <= a.cash
        /\ rule.room # None => a.locked[c] + cost <= rule.room
        /\ Can(rule, a, e) <=> ~ (ProfitPer(e) < rule.tau) /\ n >= 1
    BY SizeTyped
  <1>2. r = IF ProfitPer(e) < rule.tau THEN [why |-> "tau", arm |-> a]
            ELSE IF Wanted(e) < 1 THEN [why |-> "cap0", arm |-> a]
            ELSE IF Fitting(rule, a, e) < 1 THEN [why |-> "cluster0", arm |-> a]
            ELSE IF n < 1 THEN [why |-> "capital", arm |-> a]
            ELSE [why |-> "funded", arm |-> b]
    BY DEF TryFund, Wanted, Fitting, SizeOf, RuleOK
  <1>3. e.market \in Markets /\ c \in Clusters /\ ProfitPer(e) \in Nat /\ CostPer(e) \in Nat
    BY CapsAssumption, ProfitTyped, CostIsPositive
  <1>4. /\ p.capital = cost /\ p.open_t = t /\ p.market = e.market /\ p.settle_t = SettleT(e.market, t)
        /\ p.profit = n * ProfitPer(e)
    BY DEF Position
  <1>5. n * ProfitPer(e) \in Nat
    BY <1>1, <1>3
  <1>6. SettleT(e.market, t) \in Nat /\ SettleT(e.market, t) > t
    BY <1>3, SettlesLater
  <1> HIDE DEF r, p, n, cost, c
  <1>7. Locks(p) /\ p.settle_t \in Nat /\ p.market \in Markets /\ TakenAt(p, e.market, t)
    BY <1>1, <1>3, <1>4, <1>5, <1>6 DEF Locks, TakenAt
  <1>8. p \notin a.held
    BY <1>4
  <1>9. /\ b.cash = a.cash - cost /\ b.held = a.held \cup {p} /\ b.realized = a.realized /\ b.pending = a.pending
        /\ b.locked = [a.locked EXCEPT ![c] = @ + cost]
    OBVIOUS
  <1> HIDE DEF b
  <1>10. /\ b.locked \in [Clusters -> Nat] /\ b.locked[c] = a.locked[c] + cost
         /\ \A d \in Clusters : d # c => b.locked[d] = a.locked[d]
         /\ \A d \in Clusters : a.locked[d] \in Nat
    BY <1>1, <1>3, <1>9 DEF ArmOK
  <1>11. Poorer(b, a)
    <2>1. \A d \in Clusters : b.locked[d] >= a.locked[d]
      <3> SUFFICES ASSUME NEW d \in Clusters PROVE b.locked[d] >= a.locked[d]
        OBVIOUS
      <3>1. CASE d = c
        BY <1>1, <1>3, <1>10, <3>1
      <3>2. CASE d # c
        BY <1>10, <3>2
      <3> QED BY <3>1, <3>2
    <2>2. b.cash <= a.cash
      BY <1>1, <1>9 DEF ArmOK
    <2> QED BY <2>1, <2>2 DEF Poorer
  <1>12. b.cash \in Nat /\ b.realized \in Nat /\ b.cash + CapitalOf(b.held) = Capital0 + b.realized
    <2>1. CapitalOf(a.held \cup {p}) = CapitalOf(a.held) + p.capital /\ CapitalOf(a.held) \in Nat
      BY <1>7, <1>8, CapitalGrows DEF ArmOK
    <2>2. CapitalOf(b.held) = CapitalOf(a.held) + cost
      BY <1>4, <1>9, <2>1
    <2> QED BY <1>1, <1>9, <2>1, <2>2, CapsAssumption DEF ArmOK
  <1>13. ASSUME NEW d \in Clusters
         PROVE  b.locked[d] = CapitalOf(InCluster(b.held, d)) /\ (rule.room # None => b.locked[d] <= rule.room)
    <2>1. CapitalOf(InCluster(a.held \cup {p}, d)) = CapitalOf(InCluster(a.held, d))
                                                     + (IF ClusterOf[p.market] = d THEN p.capital ELSE 0)
      <3>1. IsFiniteSet(a.held) /\ \A q \in a.held : Locks(q)
        BY DEF ArmOK
      <3>2. Locks(p)
        BY <1>7
      <3> QED BY <1>8, <3>1, <3>2, ClusterGrows
    <2>2. /\ a.locked[d] = CapitalOf(InCluster(a.held, d)) /\ (rule.room # None => a.locked[d] <= rule.room)
          /\ a.locked[d] \in Nat
      BY <1>10 DEF ArmOK
    <2>3. ClusterOf[p.market] = c
      BY <1>4 DEF c
    <2>4. CASE d = c
      BY <1>1, <1>4, <1>9, <1>10, <2>1, <2>2, <2>3, <2>4
    <2>5. CASE d # c
      BY <1>9, <1>10, <2>1, <2>2, <2>3, <2>5
    <2> QED BY <2>4, <2>5
  <1>14. IsFiniteSet(b.held) /\ \A q \in b.held : Locks(q) /\ q.settle_t \in Nat /\ q.market \in Markets
    <2>1. IsFiniteSet(a.held)
      BY DEF ArmOK
    <2>2. IsFiniteSet(a.held \cup {p})
      BY <2>1, FS_AddElement
    <2> QED BY <1>7, <1>9, <2>2 DEF ArmOK
  <1>15. \A q, s \in b.held : q.market = s.market => q = s
    BY <1>4, <1>9 DEF ArmOK
  <1>16. ArmOK(rule, b)
    BY <1>10, <1>12, <1>13, <1>14, <1>15 DEF ArmOK
  <1>17. r.why = "funded" <=> Can(rule, a, e)
    BY <1>1, <1>2
  <1>18. (r.why # "funded" => r.arm = a) /\ (r.why = "funded" => r.arm = b)
    BY <1>2
  <1>19. \E q : TakenAt(q, e.market, t) /\ b.held = a.held \cup {q}
    BY <1>7, <1>9
  <1> QED BY <1>9, <1>11, <1>16, <1>17, <1>18, <1>19 DEF r

\* Who cannot be funded cannot be with less money and less room.
LEMMA PoorerCannot ==
  ASSUME NEW rule, RuleOK(rule), NEW a, ArmOK(rule, a), NEW b, ArmOK(rule, b), Poorer(b, a),
         NEW e \in Candidates, ~ Can(rule, a, e)
  PROVE  ~ Can(rule, b, e)
  <1>1. ClusterOf[e.market] \in Clusters /\ CostPer(e) \in Nat
    BY CapsAssumption, CostIsPositive
  <1>2. a.cash \in Nat /\ b.cash \in Nat /\ b.cash <= a.cash
    BY DEF ArmOK, Poorer
  <1>3. /\ a.locked[ClusterOf[e.market]] \in Nat /\ b.locked[ClusterOf[e.market]] \in Nat
        /\ b.locked[ClusterOf[e.market]] >= a.locked[ClusterOf[e.market]]
    BY <1>1 DEF ArmOK, Poorer
  <1> DEFINE x == a.locked[ClusterOf[e.market]]
             y == b.locked[ClusterOf[e.market]]
             c == CostPer(e)
  <1>4. rule.room # None /\ rule.room - y >= c => rule.room - x >= c
    <2> SUFFICES ASSUME rule.room # None, rule.room - y >= c PROVE rule.room - x >= c
      OBVIOUS
    <2>1. rule.room \in Nat /\ x \in Nat /\ y \in Nat /\ y >= x /\ c \in Nat
      BY <1>1, <1>3 DEF RuleOK
    <2> HIDE DEF x, y, c
    <2> QED BY <2>1
  <1>5. b.cash >= c => a.cash >= c
    <2> HIDE DEF c
    <2>1. c \in Nat
      BY <1>1 DEF c
    <2> QED BY <1>2, <2>1
  <1> QED BY <1>4, <1>5 DEF Can

LEMMA PoorerStill ==
  ASSUME NEW rule, NEW a, ArmOK(rule, a), NEW b, ArmOK(rule, b), NEW d, ArmOK(rule, d), Poorer(d, b), Poorer(b, a)
  PROVE  Poorer(d, a)
  <1>1. a.cash \in Nat /\ b.cash \in Nat /\ d.cash \in Nat
    BY DEF ArmOK
  <1>2. \A c \in Clusters : a.locked[c] \in Nat /\ b.locked[c] \in Nat /\ d.locked[c] \in Nat
    BY DEF ArmOK
  <1> QED BY <1>1, <1>2 DEF Poorer

-----------------------------------------------------------------------------
(* The second look at what waits.                                          *)

LEMMA BetterOrders ==
  ASSUME NEW S, S \subseteq [e : Candidates, t : Nat], \A x, y \in S : x.e.market = y.e.market => x = y
  PROVE  /\ \A x, y \in S : x = y \/ Better(x, y) \/ Better(y, x)
         /\ \A x, y, z \in S : Better(x, y) /\ Better(y, z) => Better(x, z)
  <1>1. \A x \in S : ProfitPer(x.e) \in Nat /\ x.e.market \in Markets /\ Rank[x.e.market] \in Int
    <2> SUFFICES ASSUME NEW x \in S PROVE ProfitPer(x.e) \in Nat /\ x.e.market \in Markets /\ Rank[x.e.market] \in Int
      OBVIOUS
    <2>1. x.e \in Candidates
      OBVIOUS
    <2> QED BY <2>1, ProfitTyped, CapsAssumption, CapitalAssumption
  <1>2. \A x, y \in S : Rank[x.e.market] = Rank[y.e.market] => x = y
    BY <1>1, CapitalAssumption
  <1> QED BY <1>1, <1>2 DEF Better

\* Of some that wait one is the last to be tried.
LEMMA WorstIsOne ==
  ASSUME NEW S, IsFiniteSet(S), S # {}, S \subseteq [e : Candidates, t : Nat],
         \A x, y \in S : x.e.market = y.e.market => x = y
  PROVE  Worst(S) \in S
  <1> DEFINE Last1(T) == \E w \in T : \A q \in T \ {w} : Better(q, w)
             G == {T \in SUBSET S : T = {} \/ Last1(T)}
  <1>1. /\ \A x, y \in S : x = y \/ Better(x, y) \/ Better(y, x)
        /\ \A x, y, z \in S : Better(x, y) /\ Better(y, z) => Better(x, z)
    BY BetterOrders
  <1>2. ASSUME NEW T \in SUBSET S, NEW x \in S, T \in G PROVE T \cup {x} \in G
    <2>1. CASE x \in T
      <3>1. T \cup {x} = T
        BY <2>1
      <3> HIDE DEF G
      <3> QED BY <1>2, <3>1
    <2>2. CASE T = {}
      <3>1. x \in T \cup {x} /\ \A q \in (T \cup {x}) \ {x} : Better(q, x)
        BY <2>2
      <3> QED BY <3>1
    <2>3. CASE x \notin T /\ T # {}
      <3>1. PICK w \in T : \A q \in T \ {w} : Better(q, w)
        BY <1>2, <2>3
      <3>2. CASE Better(x, w)
        <4>1. w \in T \cup {x} /\ \A q \in (T \cup {x}) \ {w} : Better(q, w)
          BY <3>1, <3>2
        <4> QED BY <4>1
      <3>3. CASE Better(w, x)
        <4>1. x \in T \cup {x} /\ \A q \in (T \cup {x}) \ {x} : Better(q, x)
          <5> SUFFICES ASSUME NEW q \in T PROVE Better(q, x)
            OBVIOUS
          <5>1. CASE q = w
            BY <3>3, <5>1
          <5>2. CASE q # w
            <6>1. Better(q, w) /\ q \in S /\ w \in S
              BY <3>1, <5>2
            <6> QED BY <1>1, <3>3, <6>1
          <5> QED BY <5>1, <5>2
        <4> QED BY <4>1
      <3>4. x # w /\ x \in S /\ w \in S
        BY <2>3, <3>1
      <3> QED BY <1>1, <3>2, <3>3, <3>4
    <2> QED BY <2>1, <2>2, <2>3
  <1>3. {} \in G
    OBVIOUS
  <1>4. S \in G
    <2> HIDE DEF G
    <2> QED BY <1>2, <1>3, SubsetInduction
  <1>5. \E w \in S : \A q \in S \ {w} : Better(q, w)
    BY <1>4
  <1> QED BY <1>5 DEF Worst

\* What the arm is after some of those that waited were tried.
Tried(rule, a, b, ps, s) ==
  /\ ArmOK(rule, b) /\ Waits(b) /\ Poorer(b, a) /\ b.realized = a.realized
  /\ b.pending \subseteq a.pending /\ a.pending \ ps \subseteq b.pending
  /\ \A p \in b.held : p \in a.held \/ \E x \in ps : TakenAt(p, x.e.market, s)
  /\ \A x \in ps : x \in b.pending => ~ Can(rule, b, x.e)

\* One more is tried: it cannot be funded and waits, or it is held or given up and does not.
LEMMA TriedOneMore ==
  ASSUME NEW rule, RuleOK(rule), NEW a, ArmOK(rule, a), Waits(a), NEW s \in Nat,
         NEW ps \in SUBSET a.pending, NEW x \in a.pending \ ps, NEW b, Tried(rule, a, b, ps, s)
  PROVE  Tried(rule, a, Retried(rule, b, x, s), ps \cup {x}, s)
  <1> DEFINE r == TryFund(rule, b, x.e, s)
             d == Retried(rule, b, x, s)
  <1>1. /\ ArmOK(rule, b) /\ Waits(b) /\ Poorer(b, a) /\ b.realized = a.realized
        /\ b.pending \subseteq a.pending /\ a.pending \ ps \subseteq b.pending
        /\ \A p \in b.held : p \in a.held \/ \E y \in ps : TakenAt(p, y.e.market, s)
        /\ \A y \in ps : y \in b.pending => ~ Can(rule, b, y.e)
    BY DEF Tried
  <1>2. x \in b.pending /\ x.e \in Candidates /\ \A p \in b.held : p.market # x.e.market
    BY <1>1 DEF Waits
  <1>3. /\ r.why = "funded" <=> Can(rule, b, x.e)
        /\ r.why # "funded" => r.arm = b
        /\ r.why = "funded" => /\ ArmOK(rule, r.arm) /\ Poorer(r.arm, b)
                               /\ r.arm.pending = b.pending /\ r.arm.realized = b.realized
                               /\ \E p : TakenAt(p, x.e.market, s) /\ r.arm.held = b.held \cup {p}
    BY <1>1, <1>2, Funding
  <1>4. d = IF r.why \in {"capital", "cluster0"} THEN b ELSE Waiting(r.arm, b.pending \ {x})
    BY DEF Retried
  <1> HIDE DEF r, d
  <1>5. CASE r.why \in {"capital", "cluster0"}
    <2>1. d = b /\ ~ Can(rule, b, x.e)
      BY <1>3, <1>4, <1>5
    <2> QED BY <1>1, <2>1 DEF Tried, d
  <1>6. CASE r.why \notin {"capital", "cluster0"}
    <2>1. /\ d.cash = r.arm.cash /\ d.held = r.arm.held /\ d.realized = r.arm.realized /\ d.locked = r.arm.locked
          /\ d.pending = b.pending \ {x}
      BY <1>4, <1>6 DEF Waiting
    <2>2. /\ ArmOK(rule, r.arm) /\ Poorer(r.arm, b) /\ r.arm.realized = b.realized
          /\ \A p \in r.arm.held : p \in b.held \/ TakenAt(p, x.e.market, s)
      <3>1. CASE r.why = "funded"
        BY <1>3, <3>1
      <3>2. CASE r.why # "funded"
        <4>1. r.arm = b
          BY <1>3, <3>2
        <4>2. Poorer(b, b)
          BY <1>1 DEF Poorer, ArmOK
        <4> QED BY <1>1, <4>1, <4>2
      <3> QED BY <3>1, <3>2
    <2>3. ArmOK(rule, d) /\ Poorer(d, b)
      BY <2>1, <2>2 DEF ArmOK, Poorer
    <2>4. Poorer(d, a)
      BY <1>1, <2>3, PoorerStill
    <2>5. Waits(d)
      <3>1. IsFiniteSet(d.pending) /\ d.pending \subseteq b.pending
        <4>1. IsFiniteSet(b.pending)
          BY <1>1 DEF Waits
        <4>2. d.pending \subseteq b.pending
          BY <2>1
        <4> QED BY <4>1, <4>2, FS_Subset
      <3>2. ASSUME NEW p \in d.held, NEW y \in d.pending PROVE p.market # y.e.market
        <4>1. y \in b.pending /\ y # x
          BY <2>1
        <4>2. CASE p \in b.held
          BY <1>1, <4>1, <4>2 DEF Waits
        <4>3. CASE TakenAt(p, x.e.market, s)
          BY <1>1, <1>2, <4>1, <4>3 DEF Waits, TakenAt
        <4> QED BY <2>1, <2>2, <4>2, <4>3
      <3> QED BY <1>1, <3>1, <3>2 DEF Waits
    <2>6. \A p \in d.held : p \in a.held \/ \E y \in ps \cup {x} : TakenAt(p, y.e.market, s)
      BY <1>1, <2>1, <2>2
    <2>7. ASSUME NEW y \in ps \cup {x}, y \in d.pending PROVE ~ Can(rule, d, y.e)
      <3>1. y \in b.pending /\ y \in ps /\ y.e \in Candidates
        BY <1>1, <2>1, <2>7 DEF Waits
      <3> QED BY <1>1, <2>3, <3>1, PoorerCannot
    <2>8. d.pending \subseteq a.pending /\ a.pending \ (ps \cup {x}) \subseteq d.pending
      BY <1>1, <2>1
    <2>9. d.realized = a.realized
      BY <1>1, <2>1, <2>2
    <2> QED BY <2>3, <2>4, <2>5, <2>6, <2>7, <2>8, <2>9 DEF Tried, d
  <1> QED BY <1>5, <1>6

\* One step of the recursion of Recycled, given the arm after smaller sets, and what solves it.
RetryStep(rule, a, s, g, ps) ==
  IF ps = {} THEN a ELSE Retried(rule, g[ps \ {Worst(ps)}], Worst(ps), s)

Retries(rule, a, s, g, C) == g = [ps \in C |-> RetryStep(rule, a, s, g, ps)]

LEMMA RetriesGrow ==
  ASSUME NEW rule, NEW a, NEW s, NEW S, IsFiniteSet(S), \A ps \in SUBSET S : ps # {} => Worst(ps) \in ps,
         NEW n \in Nat, NEW g, Retries(rule, a, s, g, SubsetsUpTo(S, n))
  PROVE  \E h : Retries(rule, a, s, h, SubsetsUpTo(S, n + 1))
  <1> DEFINE h == [ps \in SubsetsUpTo(S, n + 1) |-> RetryStep(rule, a, s, g, ps)]
  <1>1. ASSUME NEW ps \in SubsetsUpTo(S, n) PROVE ps \in SubsetsUpTo(S, n + 1) /\ h[ps] = g[ps]
    <2>1. ps \in SubsetsUpTo(S, n + 1)
      <3>1. IsFiniteSet(ps) /\ Cardinality(ps) \in Nat
        BY FS_Subset, FS_CardinalityType DEF SubsetsUpTo
      <3> QED BY <3>1 DEF SubsetsUpTo
    <2>2. g[ps] = RetryStep(rule, a, s, g, ps)
      BY DEF Retries
    <2> QED BY <2>1, <2>2
  <1>2. ASSUME NEW ps \in SubsetsUpTo(S, n + 1) PROVE RetryStep(rule, a, s, h, ps) = RetryStep(rule, a, s, g, ps)
    <2>1. CASE ps = {}
      BY <2>1 DEF RetryStep
    <2>2. CASE ps # {}
      <3>1. Worst(ps) \in ps /\ ps \in SUBSET S /\ IsFiniteSet(ps)
        BY <2>2, FS_Subset DEF SubsetsUpTo
      <3>2. Cardinality(ps \ {Worst(ps)}) = Cardinality(ps) - 1 /\ Cardinality(ps) \in Nat
        BY <3>1, FS_RemoveElement, FS_CardinalityType
      <3>3. ps \ {Worst(ps)} \in SubsetsUpTo(S, n)
        BY <3>1, <3>2 DEF SubsetsUpTo
      <3>4. h[ps \ {Worst(ps)}] = g[ps \ {Worst(ps)}]
        BY <1>1, <3>3
      <3> HIDE DEF h
      <3> QED BY <3>4 DEF RetryStep
    <2> QED BY <2>1, <2>2
  <1>3. h = [ps \in SubsetsUpTo(S, n + 1) |-> RetryStep(rule, a, s, h, ps)]
    BY <1>2
  <1> QED BY <1>3 DEF Retries

\* The recursion of Recycled has a solution.
LEMMA RetriesExist ==
  ASSUME NEW rule, NEW a, NEW s, NEW S, IsFiniteSet(S), \A ps \in SUBSET S : ps # {} => Worst(ps) \in ps
  PROVE  \E g : Retries(rule, a, s, g, SUBSET S)
  <1> DEFINE G == {T \in SUBSET S : \E g : Retries(rule, a, s, g, SubsetsUpTo(S, Cardinality(T)))}
  <1>1. {} \in G
    <2> DEFINE g == [ps \in SubsetsUpTo(S, 0) |-> a]
    <2>1. \A ps \in SubsetsUpTo(S, 0) : ps = {}
      <3> SUFFICES ASSUME NEW ps \in SubsetsUpTo(S, 0) PROVE ps = {}
        OBVIOUS
      <3>1. IsFiniteSet(ps) /\ Cardinality(ps) \in Nat /\ Cardinality(ps) <= 0
        BY FS_Subset, FS_CardinalityType DEF SubsetsUpTo
      <3> QED BY <3>1, FS_EmptySet
    <2>2. g = [ps \in SubsetsUpTo(S, 0) |-> RetryStep(rule, a, s, g, ps)]
      BY <2>1 DEF RetryStep
    <2>3. Retries(rule, a, s, g, SubsetsUpTo(S, 0))
      BY <2>2 DEF Retries
    <2> QED BY <2>3, FS_EmptySet
  <1>2. ASSUME NEW T \in SUBSET S, NEW x \in S, T \in G PROVE T \cup {x} \in G
    <2>1. IsFiniteSet(T) /\ Cardinality(T) \in Nat
      BY FS_Subset, FS_CardinalityType
    <2>2. Cardinality(T \cup {x}) \in {Cardinality(T), Cardinality(T) + 1}
      BY <2>1, FS_AddElement
    <2>3. \E g : Retries(rule, a, s, g, SubsetsUpTo(S, Cardinality(T)))
      BY <1>2
    <2>4. \E g : Retries(rule, a, s, g, SubsetsUpTo(S, Cardinality(T) + 1))
      BY <2>1, <2>3, RetriesGrow
    <2> QED BY <2>2, <2>3, <2>4
  <1>3. S \in G
    <2> HIDE DEF G
    <2> QED BY <1>1, <1>2, SubsetInduction
  <1>4. SubsetsUpTo(S, Cardinality(S)) = SUBSET S
    BY FS_Subset DEF SubsetsUpTo
  <1>5. PICK g : Retries(rule, a, s, g, SubsetsUpTo(S, Cardinality(S)))
    BY <1>3
  <1>6. Retries(rule, a, s, g, SUBSET S)
    BY <1>4, <1>5 DEF Retries
  <1> QED BY <1>6

\* The second look tries all that waits, and who waits after it cannot be funded.
LEMMA RecycledTries ==
  ASSUME NEW rule, RuleOK(rule), NEW a, ArmOK(rule, a), Waits(a), NEW s \in Nat
  PROVE  Tried(rule, a, Recycled(rule, a, s), a.pending, s)
  <1> DEFINE S == a.pending
             g == CHOOSE h : Retries(rule, a, s, h, SUBSET S)
             B == {T \in SUBSET S : ~ Tried(rule, a, g[T], T, s)}
  <1>1. IsFiniteSet(S) /\ \A ps \in SUBSET S : ps # {} => Worst(ps) \in ps
    <2>1. IsFiniteSet(S)
      BY DEF Waits
    <2>2. ASSUME NEW ps \in SUBSET S, ps # {} PROVE Worst(ps) \in ps
      <3>1. IsFiniteSet(ps)
        BY <2>1, FS_Subset
      <3>2. ps \subseteq [e : Candidates, t : Nat] /\ \A x, y \in ps : x.e.market = y.e.market => x = y
        BY DEF Waits
      <3> QED BY <2>2, <3>1, <3>2, WorstIsOne
    <2> QED BY <2>1, <2>2
  <1>2. Retries(rule, a, s, g, SUBSET S)
    <2>1. \E h : Retries(rule, a, s, h, SUBSET S)
      <3> HIDE DEF S
      <3> QED BY <1>1, RetriesExist
    <2> HIDE DEF S
    <2> QED BY <2>1
  <1>3. Recycled(rule, a, s) = g[S]
    BY DEF Recycled, Retries, RetryStep
  <1> HIDE DEF g
  <1>4. B = {}
    <2> SUFFICES ASSUME B # {} PROVE FALSE
      OBVIOUS
    <2>1. PICK X \in B : \A Y \in B : Y \subseteq X => Y = X
      <3>1. B \in SUBSET (SUBSET S)
        OBVIOUS
      <3> HIDE DEF B, S
      <3> QED BY <1>1, <3>1, LeastSubset
    <2>2. X \in SUBSET S /\ g[X] = RetryStep(rule, a, s, g, X) /\ ~ Tried(rule, a, g[X], X, s)
      BY <1>2, <2>1 DEF Retries
    <2>3. CASE X = {}
      <3>1. g[X] = a
        BY <2>2, <2>3 DEF RetryStep
      <3>2. Poorer(a, a)
        BY DEF Poorer, ArmOK
      <3>3. Tried(rule, a, a, {}, s)
        BY <3>2 DEF Tried
      <3> QED BY <2>2, <2>3, <3>1, <3>3
    <2>4. CASE X # {}
      <3> DEFINE w == Worst(X)
                 Y == X \ {w}
      <3>1. w \in X /\ Y \in SUBSET S /\ Y \notin B
        BY <1>1, <2>1, <2>2, <2>4
      <3>2. Tried(rule, a, g[Y], Y, s)
        BY <3>1
      <3>3. g[X] = Retried(rule, g[Y], w, s)
        BY <2>2, <2>4 DEF RetryStep
      <3>4. Y \in SUBSET a.pending /\ w \in a.pending \ Y /\ Y \cup {w} = X
        BY <2>2, <3>1
      <3> HIDE DEF w, Y
      <3>5. Tried(rule, a, Retried(rule, g[Y], w, s), Y \cup {w}, s)
        BY <3>2, <3>4, TriedOneMore
      <3>6. Tried(rule, a, g[X], X, s)
        BY <3>3, <3>4, <3>5
      <3> QED BY <2>2, <3>6
    <2> QED BY <2>3, <2>4
  <1>5. Tried(rule, a, g[S], S, s)
    BY <1>4
  <1> QED BY <1>3, <1>5

\* What an arm is paid out when positions settle.
LEMMA PaysOut ==
  ASSUME NEW rule, RuleOK(rule), NEW a, ArmOK(rule, a), Waits(a), NEW s
  PROVE  LET b == PaidOut(a, s)
         IN  /\ ArmOK(rule, b) /\ Waits(b) /\ b.realized >= a.realized
             /\ b.held \subseteq a.held /\ b.pending = {x \in a.pending : x.t + x.e.life > s}
  <1> DEFINE b == PaidOut(a, s)
             ps == Matured(a, s)
             rest == a.held \ ps
  <1>1. /\ b.cash = a.cash + CapitalOf(ps) + Earned(ps) /\ b.held = rest /\ b.realized = a.realized + Earned(ps)
        /\ b.locked = [c \in Clusters |-> a.locked[c] - CapitalOf(InCluster(ps, c))]
        /\ b.pending = {x \in a.pending : x.t + x.e.life > s}
    BY DEF PaidOut
  <1>2. ps \in SUBSET a.held /\ IsFiniteSet(a.held) /\ \A p \in a.held : Locks(p)
    BY DEF ArmOK, Matured
  <1> HIDE DEF b, ps, rest
  <1>3. /\ CapitalOf(a.held) = CapitalOf(ps) + CapitalOf(a.held \ ps) /\ CapitalOf(a.held) \in Nat
        /\ CapitalOf(ps) \in Nat /\ CapitalOf(a.held \ ps) \in Nat /\ Earned(ps) \in Nat
    BY <1>2, CapitalSplits
  <1>4. CapitalOf(rest) = CapitalOf(a.held \ ps)
    BY DEF rest
  <1>5. /\ b.cash \in Nat /\ b.realized \in Nat /\ b.realized >= a.realized
        /\ b.cash + CapitalOf(b.held) = Capital0 + b.realized
    BY <1>1, <1>3, <1>4, CapsAssumption DEF ArmOK
  <1>6. ASSUME NEW c \in Clusters
        PROVE  /\ b.locked[c] \in Nat /\ b.locked[c] = CapitalOf(InCluster(b.held, c)) /\ b.locked[c] <= a.locked[c]
    <2> DEFINE H == InCluster(a.held, c)
               T == InCluster(ps, c)
               R == InCluster(rest, c)
    <2>1. IsFiniteSet(H) /\ (\A p \in H : Locks(p)) /\ T \in SUBSET H /\ H \ T = R
      <3>1. H \subseteq a.held
        BY DEF InCluster
      <3>2. IsFiniteSet(H)
        BY <1>2, <3>1, FS_Subset
      <3>3. T \in SUBSET H /\ H \ T = R
        BY <1>2 DEF InCluster, rest
      <3> QED BY <1>2, <3>1, <3>2, <3>3
    <2>2. a.locked[c] = CapitalOf(H) /\ b.locked[c] = a.locked[c] - CapitalOf(T)
      BY <1>1 DEF ArmOK
    <2>3. CapitalOf(InCluster(b.held, c)) = CapitalOf(R)
      BY <1>1
    <2> HIDE DEF H, T, R
    <2>4. CapitalOf(H) = CapitalOf(T) + CapitalOf(H \ T) /\ CapitalOf(T) \in Nat /\ CapitalOf(H \ T) \in Nat
      BY <2>1, CapitalSplits
    <2>5. CapitalOf(H \ T) = CapitalOf(R)
      BY <2>1
    <2> QED BY <2>2, <2>3, <2>4, <2>5
  <1>7. b.locked \in [Clusters -> Nat]
    BY <1>1, <1>6
  <1>8. ASSUME NEW c \in Clusters, rule.room # None PROVE b.locked[c] <= rule.room
    <2>1. a.locked[c] <= rule.room /\ a.locked[c] \in Nat /\ rule.room \in Nat
      BY <1>8 DEF ArmOK, RuleOK
    <2> QED BY <1>6, <2>1
  <1>9. IsFiniteSet(b.held) /\ b.held \subseteq a.held
    <2>1. b.held \subseteq a.held
      BY <1>1 DEF rest
    <2> QED BY <1>2, <2>1, FS_Subset
  <1>10. ArmOK(rule, b)
    BY <1>5, <1>6, <1>7, <1>8, <1>9 DEF ArmOK
  <1>11. Waits(b)
    <2>1. b.pending \subseteq a.pending
      BY <1>1
    <2>2. IsFiniteSet(a.pending)
      BY DEF Waits
    <2>3. IsFiniteSet(b.pending)
      BY <2>1, <2>2, FS_Subset
    <2> QED BY <1>9, <2>1, <2>3 DEF Waits
  <1> QED BY <1>1, <1>5, <1>9, <1>10, <1>11 DEF b

\* A settlement leaves an arm in order: what is new was taken then, of what waited and was still open.
LEMMA Settlement ==
  ASSUME NEW rule, RuleOK(rule), NEW a, ArmOK(rule, a), Waits(a), NEW s \in Nat
  PROVE  LET b == SettlementEvent(rule, a, s)
         IN  /\ ArmOK(rule, b) /\ Waits(b) /\ b.realized >= a.realized /\ b.pending \subseteq a.pending
             /\ \A p \in b.held :
                  \/ p \in a.held
                  \/ Matured(a, s) # {} /\ \E x \in a.pending : x.t + x.e.life > s /\ TakenAt(p, x.e.market, s)
             /\ Matured(a, s) = {} => b = a
             /\ rule.recycle /\ Matured(a, s) # {} => \A x \in b.pending : ~ Can(rule, b, x.e)
  <1> DEFINE b == SettlementEvent(rule, a, s)
             d == PaidOut(a, s)
             f == Recycled(rule, d, s)
  <1>1. /\ ArmOK(rule, d) /\ Waits(d) /\ d.realized >= a.realized /\ d.held \subseteq a.held
        /\ d.pending = {x \in a.pending : x.t + x.e.life > s}
    BY PaysOut
  <1>2. b = IF Matured(a, s) = {} THEN a ELSE IF rule.recycle THEN f ELSE d
    BY DEF SettlementEvent
  <1>3. Tried(rule, d, f, d.pending, s)
    <2> HIDE DEF d
    <2> QED BY <1>1, RecycledTries
  <1>4. /\ ArmOK(rule, f) /\ Waits(f) /\ f.realized = d.realized /\ f.pending \subseteq d.pending
        /\ \A p \in f.held : p \in d.held \/ \E x \in d.pending : TakenAt(p, x.e.market, s)
        /\ \A x \in f.pending : ~ Can(rule, f, x.e)
    <2> HIDE DEF d, f
    <2> QED BY <1>3 DEF Tried
  <1>5. a.realized \in Nat
    BY DEF ArmOK
  <1> HIDE DEF b, d, f
  <1>6. CASE Matured(a, s) = {}
    <2>1. b = a
      BY <1>2, <1>6
    <2> QED BY <1>5, <1>6, <2>1 DEF b
  <1>7. CASE Matured(a, s) # {} /\ rule.recycle
    <2>1. b = f
      BY <1>2, <1>7
    <2>2. \A p \in f.held : p \in a.held \/ \E x \in a.pending : x.t + x.e.life > s /\ TakenAt(p, x.e.market, s)
      BY <1>1, <1>4
    <2>3. f.pending \subseteq a.pending /\ f.realized >= a.realized
      BY <1>1, <1>4
    <2> QED BY <1>4, <1>7, <2>1, <2>2, <2>3 DEF b
  <1>8. CASE Matured(a, s) # {} /\ ~ rule.recycle
    <2>1. b = d
      BY <1>2, <1>8
    <2>2. d.pending \subseteq a.pending
      BY <1>1
    <2> QED BY <1>1, <1>8, <2>1, <2>2 DEF b
  <1> QED BY <1>6, <1>7, <1>8

-----------------------------------------------------------------------------
(* The arms in the lock-step.                                              *)

\* A position was taken when its market opened, or while the episode lasted.
TookLive(p) ==
  \E i \in DOMAIN seen : /\ seen[i].e.market = p.market /\ seen[i].t <= p.open_t
                         /\ p.open_t = seen[i].t \/ p.open_t < seen[i].t + seen[i].e.life

\* What an arm holds and what waits comes from the candidates so far, and not from the one in hand.
Traced(a) ==
  /\ \A p \in a.held : TookLive(p)
  /\ \A x \in a.pending : \E i \in DOMAIN seen : seen[i] = x
  /\ \A p \in a.held, x \in a.pending : x.t < p.settle_t
  /\ next # None => /\ \A p \in a.held : p.market # next.e.market
                    /\ \A x \in a.pending : x.e.market # next.e.market

SeenInOrder ==
  /\ seen \in Seq([e : Candidates, t : Nat]) /\ \A i \in DOMAIN seen : seen[i].t <= now
  /\ next # None => \E i \in DOMAIN seen : seen[i] = next

ArmOfRule(r) == ArmOK(Rules[r], arms[r]) /\ Waits(arms[r]) /\ Traced(arms[r])

\* Each arm is in order, and who waits for the recycling one cannot be funded.
ArmsInv ==
  /\ SeenInOrder /\ ArmOfRule("base") /\ ArmOfRule("arm")
  /\ \A x \in arms["arm"].pending : ~ Can(Rules["arm"], arms["arm"], x.e)

LEMMA RulesAreOK ==
  /\ DOMAIN Rules = {"base", "arm"} /\ RuleOK(Rules["base"]) /\ RuleOK(Rules["arm"])
  /\ Rules["arm"].recycle /\ Rules["arm"].room = ClusterRoom /\ ClusterRoom \in Nat /\ ClusterRoom # None
  BY CapitalAssumption DEF Rules, RuleOK

\* The candidates so far, and one more.
LEMMA OneMoreSeen ==
  ASSUME NEW T, seen \in Seq(T), NEW n \in T, seen' = Append(seen, n)
  PROVE  /\ seen' \in Seq(T)
         /\ \A i \in DOMAIN seen : i \in DOMAIN seen' /\ seen'[i] = seen[i]
         /\ \A i \in DOMAIN seen' : i \in DOMAIN seen \/ seen'[i] = n
         /\ \E i \in DOMAIN seen' : seen'[i] = n
  <1>1. /\ seen' \in Seq(T) /\ Len(seen') = Len(seen) + 1 /\ seen'[Len(seen) + 1] = n
        /\ \A i \in 1 .. Len(seen) : seen'[i] = seen[i]
    BY AppendProperties
  <1>2. DOMAIN seen = 1 .. Len(seen) /\ Len(seen) \in Nat
    BY LenProperties
  <1>3. DOMAIN seen' = 1 .. Len(seen) + 1
    BY <1>1, LenProperties
  <1>4. Len(seen) + 1 \in DOMAIN seen'
    BY <1>2, <1>3
  <1>5. \A i \in DOMAIN seen' : i \in DOMAIN seen \/ i = Len(seen) + 1
    BY <1>2, <1>3
  <1>6. \A i \in DOMAIN seen : i \in DOMAIN seen'
    BY <1>2, <1>3
  <1> QED BY <1>1, <1>2, <1>4, <1>5, <1>6

\* Of times there is an earliest.
LEMMA MinIsOne ==
  ASSUME NEW S, S \subseteq Nat, S # {}
  PROVE  Min(S) \in S /\ \A t \in S : Min(S) <= t
  <1>1. PICK n \in S : TRUE
    OBVIOUS
  <1> DEFINE I == 0 .. n
             B == {0 .. m : m \in {k \in S : k <= n}}
  <1>2. IsFiniteSet(I)
    BY <1>1, FS_Interval
  <1>3. I \in B /\ B \in SUBSET (SUBSET I)
    BY <1>1
  <1>4. B # {}
    BY <1>3
  <1>5. PICK X \in B : \A Y \in B : Y \subseteq X => Y = X
    <2> HIDE DEF B, I
    <2> QED BY <1>2, <1>3, <1>4, LeastSubset
  <1>6. PICK m \in S : X = 0 .. m /\ m <= n
    BY <1>5
  <1>7. ASSUME NEW t \in S PROVE m <= t
    <2> SUFFICES ASSUME t < m PROVE FALSE
      BY <1>6
    <2>1. t <= n /\ t \in Nat /\ m \in Nat
      BY <1>1, <1>6
    <2>2. 0 .. t \in B /\ 0 .. t \subseteq X
      BY <1>6, <2>1
    <2>3. 0 .. t = 0 .. m
      BY <1>5, <1>6, <2>2
    <2>4. m \in 0 .. m /\ m \notin 0 .. t
      BY <2>1
    <2> QED BY <2>3, <2>4
  <1> QED BY <1>7 DEF Min

\* A candidate comes that no arm has met.
LEMMA ArmsMeet ==
  ASSUME NEW r \in {"base", "arm"}, SeenInOrder, ArmOfRule(r), NEW e \in Candidates, NEW t \in Nat,
         seen' = Append(seen, [e |-> e, t |-> t]), next' = [e |-> e, t |-> t], arms' = arms, ~ Met(e.market)
  PROVE  ArmOfRule(r)'
  <1> DEFINE a == arms[r]
  <1>1. [e |-> e, t |-> t] \in [e : Candidates, t : Nat] /\ next'.e = e
    OBVIOUS
  <1>2. \A i \in DOMAIN seen : i \in DOMAIN seen' /\ seen'[i] = seen[i]
    BY <1>1, OneMoreSeen DEF SeenInOrder
  <1>3. ASSUME NEW p \in a.held PROVE TookLive(p)' /\ p.market # e.market
    <2>1. PICK i \in DOMAIN seen : /\ seen[i].e.market = p.market /\ seen[i].t <= p.open_t
                                   /\ p.open_t = seen[i].t \/ p.open_t < seen[i].t + seen[i].e.life
      BY DEF ArmOfRule, Traced, TookLive
    <2>2. i \in DOMAIN seen' /\ seen'[i] = seen[i] /\ seen[i].e.market # e.market
      BY <1>2 DEF Met
    <2> QED BY <2>1, <2>2 DEF TookLive
  <1>4. ASSUME NEW x \in a.pending PROVE (\E i \in DOMAIN seen' : seen'[i] = x) /\ x.e.market # e.market
    BY <1>2 DEF ArmOfRule, Traced, Met
  <1>5. Traced(a)'
    BY <1>1, <1>3, <1>4 DEF Traced, ArmOfRule
  <1> QED BY <1>5 DEF ArmOfRule, ArmOK, Waits

\* A settlement of an arm that holds what is due: who comes in waited, and its episode goes on.
LEMMA ArmSettled ==
  ASSUME NEW r \in {"base", "arm"}, SeenInOrder, ArmOfRule(r), NEW s \in Nat,
         arms'[r] = SettlementEvent(Rules[r], arms[r], s), UNCHANGED <<seen, next>>
  PROVE  /\ ArmOfRule(r)' /\ arms'[r].realized >= arms[r].realized
         /\ \/ arms'[r] = arms[r]
            \/ Rules[r].recycle => \A x \in arms'[r].pending : ~ Can(Rules[r], arms'[r], x.e)
  <1> DEFINE rule == Rules[r]
             a == arms[r]
             b == arms'[r]
  <1>1. RuleOK(rule) /\ ArmOK(rule, a) /\ Waits(a) /\ Traced(a) /\ b = SettlementEvent(rule, a, s)
    BY RulesAreOK DEF ArmOfRule
  <1> HIDE DEF rule, a, b
  <1>2. /\ ArmOK(rule, b) /\ Waits(b) /\ b.realized >= a.realized /\ b.pending \subseteq a.pending
        /\ \A p \in b.held :
             \/ p \in a.held
             \/ Matured(a, s) # {} /\ \E x \in a.pending : x.t + x.e.life > s /\ TakenAt(p, x.e.market, s)
        /\ Matured(a, s) = {} => b = a
        /\ rule.recycle /\ Matured(a, s) # {} => \A x \in b.pending : ~ Can(rule, b, x.e)
    BY <1>1, Settlement
  <1>3. /\ \A p \in a.held : TookLive(p) /\ p.settle_t \in Nat
        /\ \A x \in a.pending : (\E i \in DOMAIN seen : seen[i] = x) /\ x.t \in Nat
        /\ \A p \in a.held, x \in a.pending : x.t < p.settle_t
        /\ next # None => /\ \A p \in a.held : p.market # next.e.market
                          /\ \A x \in a.pending : x.e.market # next.e.market
    BY <1>1 DEF Traced, ArmOK, Waits
  <1>4. ASSUME Matured(a, s) # {}, NEW x \in a.pending PROVE x.t < s
    <2>1. PICK q \in a.held : q.settle_t <= s
      BY <1>4 DEF Matured
    <2>2. x.t < q.settle_t /\ q.settle_t \in Nat /\ x.t \in Nat
      BY <1>3
    <2> QED BY <2>1, <2>2
  <1>5. ASSUME NEW p \in b.held, p \notin a.held
        PROVE  /\ TookLive(p) /\ p.settle_t > s /\ Matured(a, s) # {}
               /\ next # None => p.market # next.e.market
    <2>1. PICK x \in a.pending : x.t + x.e.life > s /\ TakenAt(p, x.e.market, s)
      BY <1>2, <1>5
    <2>2. PICK i \in DOMAIN seen : seen[i] = x
      BY <1>3
    <2>3. x.t < s /\ Matured(a, s) # {} /\ x.t \in Nat
      BY <1>2, <1>3, <1>4, <1>5
    <2>4. /\ seen[i].e.market = p.market /\ seen[i].t <= p.open_t /\ p.open_t < seen[i].t + seen[i].e.life
          /\ p.settle_t > s
      BY <2>1, <2>2, <2>3 DEF TakenAt
    <2>5. next # None => p.market # next.e.market
      BY <1>3, <2>1 DEF TakenAt
    <2> QED BY <2>3, <2>4, <2>5 DEF TookLive
  <1>6. \A p \in b.held, x \in b.pending : x.t < p.settle_t
    <2> SUFFICES ASSUME NEW p \in b.held, NEW x \in b.pending PROVE x.t < p.settle_t
      OBVIOUS
    <2>1. x \in a.pending /\ x.t \in Nat /\ p.settle_t \in Nat
      BY <1>2, <1>3 DEF ArmOK
    <2>2. CASE p \in a.held
      BY <1>3, <2>1, <2>2
    <2>3. CASE p \notin a.held
      <3>1. p.settle_t > s /\ x.t < s
        BY <1>4, <1>5, <2>1, <2>3
      <3> QED BY <2>1, <3>1
    <2> QED BY <2>2, <2>3
  <1>7. Traced(b)
    BY <1>2, <1>3, <1>5, <1>6 DEF Traced
  <1>8. Traced(arms[r])'
    BY <1>7 DEF Traced, TookLive, b
  <1>9. ArmOfRule(r)'
    BY <1>2, <1>8 DEF ArmOfRule, ArmOK, Waits, b, rule
  <1> QED BY <1>2, <1>9 DEF a, b, rule

\* A candidate is funded, waits, or is let go.
LEMMA ArmDecides ==
  ASSUME NEW r \in {"base", "arm"}, SeenInOrder, ArmOfRule(r), next # None, next \in [e : Candidates, t : Nat],
         \A p \in arms[r].held : next.t < p.settle_t,
         \A x \in arms[r].pending : x.t <= next.t,
         arms'[r] = Arrived(Rules[r], arms[r], next.e, next.t), UNCHANGED seen, next' = None
  PROVE  /\ ArmOfRule(r)' /\ arms'[r].realized = arms[r].realized
         /\ \A x \in arms'[r].pending :
              ~ Can(Rules[r], arms'[r], x.e) \/ (x \in arms[r].pending /\ Can(Rules[r], arms[r], x.e))
  <1> DEFINE rule == Rules[r]
             a == arms[r]
             b == arms'[r]
             e == next.e
             t == next.t
             f == TryFund(rule, a, e, t)
             z == [e |-> e, t |-> t]
  <1>0. e \in Candidates /\ t \in Nat /\ next = z
    OBVIOUS
  <1>1. /\ RuleOK(rule) /\ ArmOK(rule, a) /\ Waits(a) /\ Traced(a)
        /\ b = IF f.why \in {"capital", "cluster0"} THEN Waiting(a, a.pending \cup {z}) ELSE f.arm
    BY RulesAreOK DEF ArmOfRule, Arrived
  <1>2. /\ \A p \in a.held : p.market # e.market /\ t < p.settle_t
        /\ \A x \in a.pending : x.e.market # e.market /\ x.t <= t /\ x.t \in Nat
    BY <1>1 DEF Traced, Waits
  <1>3. PICK i \in DOMAIN seen : seen[i] = z
    BY <1>0 DEF SeenInOrder
  <1> HIDE DEF rule, a, b, e, t, z
  <1>4. /\ f.why = "funded" <=> Can(rule, a, e)
        /\ f.why # "funded" => f.arm = a
        /\ f.why = "funded" => /\ ArmOK(rule, f.arm) /\ Poorer(f.arm, a)
                               /\ f.arm.pending = a.pending /\ f.arm.realized = a.realized
                               /\ \E p : TakenAt(p, e.market, t) /\ f.arm.held = a.held \cup {p}
    BY <1>0, <1>1, <1>2, Funding
  <1> HIDE DEF f
  <1>5. /\ \A p \in a.held : TookLive(p) /\ p.settle_t \in Nat
        /\ \A x \in a.pending : \E k \in DOMAIN seen : seen[k] = x
        /\ \A p \in a.held, x \in a.pending : x.t < p.settle_t
    BY <1>1 DEF Traced, ArmOK
  <1>6. z.e = e /\ z.t = t /\ z \in [e : Candidates, t : Nat]
    BY <1>0 DEF z
  <1>7. CASE f.why \in {"capital", "cluster0"}
    <2>1. /\ b.cash = a.cash /\ b.held = a.held /\ b.realized = a.realized /\ b.locked = a.locked
          /\ b.pending = a.pending \cup {z}
      BY <1>1, <1>7 DEF Waiting
    <2>2. ArmOK(rule, b)
      BY <1>1, <2>1 DEF ArmOK
    <2>3. Waits(b)
      <3>1. IsFiniteSet(a.pending) /\ a.pending \subseteq [e : Candidates, t : Nat]
        BY <1>1 DEF Waits
      <3>2. IsFiniteSet(a.pending \cup {z})
        BY <3>1, FS_AddElement
      <3>3. IsFiniteSet(b.pending)
        BY <2>1, <3>2
      <3>4. b.pending \subseteq [e : Candidates, t : Nat]
        BY <1>6, <2>1, <3>1
      <3>5. \A x, y \in b.pending : x.e.market = y.e.market => x = y
        <4>1. \A x, y \in a.pending : x.e.market = y.e.market => x = y
          BY <1>1 DEF Waits
        <4> QED BY <1>2, <1>6, <2>1, <4>1
      <3>6. \A p \in b.held, x \in b.pending : p.market # x.e.market
        <4>1. \A p \in a.held, x \in a.pending : p.market # x.e.market
          BY <1>1 DEF Waits
        <4> QED BY <1>2, <1>6, <2>1, <4>1
      <3> QED BY <3>3, <3>4, <3>5, <3>6 DEF Waits
    <2>4. /\ \A p \in b.held : TookLive(p)
          /\ \A x \in b.pending : \E k \in DOMAIN seen : seen[k] = x
          /\ \A p \in b.held, x \in b.pending : x.t < p.settle_t
      BY <1>2, <1>3, <1>5, <1>6, <2>1
    <2>5. \A x \in b.pending : ~ Can(rule, b, x.e) \/ (x \in a.pending /\ Can(rule, a, x.e))
      <3> SUFFICES ASSUME NEW x \in b.pending PROVE ~ Can(rule, b, x.e) \/ (x \in a.pending /\ Can(rule, a, x.e))
        OBVIOUS
      <3>1. Can(rule, b, x.e) => Can(rule, a, x.e)
        BY <2>1 DEF Can
      <3>2. x = z => ~ Can(rule, a, x.e)
        BY <1>4, <1>6, <1>7
      <3> QED BY <2>1, <3>1, <3>2
    <2>6. ArmOfRule(r)'
      BY <2>2, <2>3, <2>4 DEF ArmOfRule, Traced, TookLive, ArmOK, Waits, b, rule
    <2> QED BY <2>1, <2>5, <2>6 DEF a, b, rule
  <1>8. CASE f.why = "funded"
    <2>1. b = f.arm
      BY <1>1, <1>8
    <2>2. PICK p : TakenAt(p, e.market, t) /\ b.held = a.held \cup {p}
      BY <1>4, <1>8, <2>1
    <2>3. ArmOK(rule, b) /\ Poorer(b, a) /\ b.pending = a.pending /\ b.realized = a.realized
      BY <1>4, <1>8, <2>1
    <2>4. TookLive(p) /\ p.settle_t > t /\ p.market = e.market /\ p.settle_t \in Nat
      <3>1. p.market = seen[i].e.market /\ seen[i].t <= p.open_t /\ p.open_t = seen[i].t /\ p.settle_t > t
        BY <1>0, <1>3, <1>6, <2>2 DEF TakenAt
      <3>2. p.settle_t \in Nat
        BY <2>2, <2>3 DEF ArmOK
      <3> QED BY <2>2, <3>1, <3>2 DEF TookLive, TakenAt
    <2>5. Waits(b)
      BY <1>1, <1>2, <2>2, <2>3, <2>4 DEF Waits
    <2>6. /\ \A q \in b.held : TookLive(q)
          /\ \A x \in b.pending : \E k \in DOMAIN seen : seen[k] = x
          /\ \A q \in b.held, x \in b.pending : x.t < q.settle_t
      <3>1. \A x \in b.pending : x.t < p.settle_t
        BY <1>0, <1>2, <2>3, <2>4
      <3> QED BY <1>5, <2>2, <2>3, <2>4, <3>1
    <2>7. \A x \in b.pending : ~ Can(rule, b, x.e) \/ (x \in a.pending /\ Can(rule, a, x.e))
      <3> SUFFICES ASSUME NEW x \in b.pending, ~ Can(rule, a, x.e) PROVE ~ Can(rule, b, x.e)
        BY <2>3
      <3>1. x.e \in Candidates
        BY <2>5 DEF Waits
      <3> QED BY <1>1, <2>3, <3>1, PoorerCannot
    <2>8. ArmOfRule(r)'
      BY <2>3, <2>5, <2>6 DEF ArmOfRule, Traced, TookLive, ArmOK, Waits, b, rule
    <2> QED BY <2>3, <2>7, <2>8 DEF a, b, rule
  <1>9. CASE f.why \notin {"capital", "cluster0", "funded"}
    <2>1. b = a
      BY <1>1, <1>4, <1>9
    <2>2. /\ ArmOK(rule, b) /\ Waits(b)
          /\ \A p \in b.held : TookLive(p)
          /\ \A x \in b.pending : \E k \in DOMAIN seen : seen[k] = x
          /\ \A p \in b.held, x \in b.pending : x.t < p.settle_t
      BY <1>1, <1>5, <2>1
    <2>4. ArmOfRule(r)'
      BY <2>2 DEF ArmOfRule, Traced, TookLive, ArmOK, Waits, a, b, rule
    <2>3. \A x \in b.pending : ~ Can(rule, b, x.e) \/ (x \in a.pending /\ Can(rule, a, x.e))
      BY <2>1
    <2> QED BY <2>1, <2>3, <2>4 DEF a, b, rule
  <1> QED BY <1>7, <1>8, <1>9

LEMMA SeenTyped ==
  ASSUME SeenInOrder
  PROVE  \A i \in DOMAIN seen : seen[i].t \in Nat /\ seen[i].e \in Candidates /\ seen[i].t <= now
  <1> DEFINE T == [e : Candidates, t : Nat]
  <1>1. seen \in Seq(T)
    BY DEF SeenInOrder
  <1> SUFFICES ASSUME NEW i \in DOMAIN seen PROVE seen[i].t \in Nat /\ seen[i].e \in Candidates /\ seen[i].t <= now
    OBVIOUS
  <1>2. seen[i] \in T
    <2> HIDE DEF T
    <2>1. DOMAIN seen = 1 .. Len(seen)
      BY <1>1, LenProperties
    <2> QED BY <1>1, <2>1, ElementOfSeq
  <1> QED BY <1>2 DEF SeenInOrder

\* A step that is not of the arms leaves them in order.
LEMMA ArmsRest ==
  ASSUME ArmsInv, now \in Nat, now' \in Nat, now' >= now, UNCHANGED <<seen, arms>>, next' = next \/ next' = None
  PROVE  ArmsInv'
  <1>1. SeenInOrder'
    <2>1. \A i \in DOMAIN seen : seen[i].t \in Nat /\ seen[i].t <= now
      BY SeenTyped DEF ArmsInv
    <2> QED BY <2>1 DEF ArmsInv, SeenInOrder
  <1>2. ASSUME NEW r \in {"base", "arm"}, ArmOfRule(r) PROVE ArmOfRule(r)'
    <2>1. Traced(arms[r])'
      BY <1>2 DEF ArmOfRule, Traced, TookLive
    <2> QED BY <1>2, <2>1 DEF ArmOfRule, ArmOK, Waits
  <1>3. ArmOfRule("base")' /\ ArmOfRule("arm")'
    BY <1>2 DEF ArmsInv
  <1>4. \A x \in arms'["arm"].pending : ~ Can(Rules["arm"], arms'["arm"], x.e)
    BY DEF ArmsInv
  <1> QED BY <1>1, <1>3, <1>4 DEF ArmsInv, Can

\* Each step of the lock-step keeps the arms in order, and takes back nothing that is realized.
LEMMA ArmsStep ==
  ASSUME CapsTypeOK, CapsTypeOK', AcctInv, ArmsInv, [Next]_vars
  PROVE  ArmsInv' /\ arms'["arm"].realized >= arms["arm"].realized
  <1>0. /\ now \in Nat /\ now' \in Nat /\ next \in [e : Candidates, t : Nat] \cup {None}
        /\ next # None => next.t = now
        /\ SeenInOrder /\ ArmOfRule("base") /\ ArmOfRule("arm") /\ arms["arm"].realized \in Nat
        /\ \A x \in arms["arm"].pending : ~ Can(Rules["arm"], arms["arm"], x.e)
    BY DEF CapsTypeOK, AcctInv, ArmsInv, ArmOfRule, ArmOK
  <1>a. ASSUME UNCHANGED <<seen, arms>>, now' >= now, next' = next \/ next' = None
        PROVE  ArmsInv' /\ arms'["arm"].realized >= arms["arm"].realized
    BY <1>0, <1>a, ArmsRest
  <1>1. ASSUME NEW e \in Candidates, NEW t \in 1..LastArrival, Come(e, t)
        PROVE  ArmsInv' /\ arms'["arm"].realized >= arms["arm"].realized
    <2>1. /\ t \in Nat /\ now' = t /\ t > now /\ next' = [e |-> e, t |-> t] /\ arms' = arms /\ ~ Met(e.market)
          /\ seen' = Append(seen, [e |-> e, t |-> t])
      BY <1>1 DEF Come, Consider
    <2>2. ArmOfRule("base")' /\ ArmOfRule("arm")'
      BY <1>0, <2>1, ArmsMeet
    <2> DEFINE n == [e |-> e, t |-> t]
               T == [e : Candidates, t : Nat]
    <2>3. n \in T /\ n.t = t
      BY <2>1
    <2>4. seen \in Seq(T) /\ \A i \in DOMAIN seen : seen[i].t <= now /\ seen[i].t \in Nat
      <3>1. seen \in Seq(T)
        BY <1>0 DEF SeenInOrder
      <3> QED BY <1>0, <3>1, SeenTyped
    <2> HIDE DEF n, T
    <2>5. seen' = Append(seen, n) /\ next' = n
      BY <2>1 DEF n
    <2>6. /\ seen' \in Seq(T)
          /\ \A i \in DOMAIN seen : i \in DOMAIN seen' /\ seen'[i] = seen[i]
          /\ \A i \in DOMAIN seen' : i \in DOMAIN seen \/ seen'[i] = n
          /\ \E i \in DOMAIN seen' : seen'[i] = n
      BY <2>3, <2>4, <2>5, OneMoreSeen
    <2>7. \A i \in DOMAIN seen' : seen'[i].t <= now'
      <3> SUFFICES ASSUME NEW i \in DOMAIN seen' PROVE seen'[i].t <= now'
        OBVIOUS
      <3>1. CASE i \in DOMAIN seen
        BY <1>0, <2>1, <2>4, <2>6, <3>1
      <3>2. CASE seen'[i] = n
        BY <1>0, <2>1, <2>3, <3>2
      <3> QED BY <2>6, <3>1, <3>2
    <2>8. SeenInOrder'
      BY <2>5, <2>6, <2>7 DEF SeenInOrder, T
    <2>9. \A x \in arms'["arm"].pending : ~ Can(Rules["arm"], arms'["arm"], x.e)
      BY <1>0, <2>1
    <2>10. ArmsInv'
      BY <2>2, <2>8, <2>9 DEF ArmsInv, Can
    <2> QED BY <1>0, <2>1, <2>10
  <1>2. ASSUME NEW p \in held, SettleCap(p) PROVE ArmsInv' /\ arms'["arm"].realized >= arms["arm"].realized
    <2>1. UNCHANGED <<seen, arms>> /\ UNCHANGED <<next, now>>
      BY <1>2 DEF SettleCap, SettleOne, walks
    <2> QED BY <1>0, <1>a, <2>1
  <1>3. CASE ArmSettles
    <2> DEFINE s == Min(ArmTimes)
    <2>1. /\ ArmTimes # {} /\ UNCHANGED <<seen, next>> /\ UNCHANGED now
          /\ \A r \in {"base", "arm"} : arms'[r] = SettlementEvent(Rules[r], arms[r], s)
      BY <1>3, RulesAreOK DEF ArmSettles, capsVars
    <2>2. ArmTimes \subseteq Nat
      BY <1>0, RulesAreOK DEF ArmTimes, ArmOfRule, ArmOK
    <2>3. s \in Nat
      <3>1. Min(ArmTimes) \in ArmTimes
        BY <2>1, <2>2, MinIsOne
      <3> QED BY <2>2, <3>1
    <2> HIDE DEF s
    <2>4. ArmOfRule("base")'
      BY <1>0, <2>1, <2>3, ArmSettled
    <2>5. /\ ArmOfRule("arm")' /\ arms'["arm"].realized >= arms["arm"].realized
          /\ \/ arms'["arm"] = arms["arm"]
             \/ Rules["arm"].recycle => \A x \in arms'["arm"].pending : ~ Can(Rules["arm"], arms'["arm"], x.e)
      BY <1>0, <2>1, <2>3, ArmSettled
    <2>6. \A x \in arms'["arm"].pending : ~ Can(Rules["arm"], arms'["arm"], x.e)
      BY <1>0, <2>5, RulesAreOK
    <2>7. SeenInOrder'
      BY <1>0, <2>1 DEF SeenInOrder
    <2>8. ArmsInv'
      BY <2>4, <2>5, <2>6, <2>7 DEF ArmsInv, Can
    <2> QED BY <2>5, <2>8
  <1>4. CASE Decide
    <2>1. /\ next # None /\ next' = None /\ UNCHANGED now /\ UNCHANGED seen /\ ArmTimes = {}
          /\ \A r \in {"base", "arm"} : arms'[r] = Arrived(Rules[r], arms[r], next.e, next.t)
      BY <1>4, RulesAreOK DEF Decide, Fund, PassOver, Skip, Decided
    <2>2. next \in [e : Candidates, t : Nat] /\ next.t = now
      BY <1>0, <2>1
    <2>3. \A i \in DOMAIN seen : seen[i].t <= next.t
      BY <1>0, <2>2 DEF SeenInOrder
    <2>4. ASSUME NEW r \in {"base", "arm"}, ArmOfRule(r)
          PROVE  /\ ArmOfRule(r)' /\ arms'[r].realized = arms[r].realized
                 /\ \A x \in arms'[r].pending :
                      ~ Can(Rules[r], arms'[r], x.e) \/ (x \in arms[r].pending /\ Can(Rules[r], arms[r], x.e))
      <3>1. \A p \in arms[r].held : next.t < p.settle_t
        <4> SUFFICES ASSUME NEW p \in arms[r].held PROVE next.t < p.settle_t
          OBVIOUS
        <4>1. p.settle_t \in Nat /\ p.settle_t \in UNION {{q.settle_t : q \in arms[d].held} : d \in DOMAIN Rules}
          BY <2>4, RulesAreOK DEF ArmOfRule, ArmOK
        <4>2. ~ (p.settle_t <= next.t)
          BY <2>1, <4>1 DEF ArmTimes
        <4> QED BY <2>2, <4>1, <4>2
      <3>2. \A x \in arms[r].pending : x.t <= next.t
        <4>1. \A x \in arms[r].pending : \E i \in DOMAIN seen : seen[i] = x
          BY <2>4 DEF ArmOfRule, Traced
        <4> QED BY <2>3, <4>1
      <3> QED BY <1>0, <2>1, <2>2, <2>4, <3>1, <3>2, ArmDecides
    <2>5. /\ ArmOfRule("base")' /\ ArmOfRule("arm")' /\ arms'["arm"].realized = arms["arm"].realized
          /\ \A x \in arms'["arm"].pending : ~ Can(Rules["arm"], arms'["arm"], x.e)
      BY <1>0, <2>4
    <2>6. SeenInOrder'
      BY <1>0, <2>1 DEF SeenInOrder
    <2>7. ArmsInv'
      BY <2>5, <2>6 DEF ArmsInv, Can
    <2> QED BY <1>0, <2>5, <2>7
  <1>5. ASSUME NEW i \in DOMAIN seen, NEW a \in Adds, NEW t \in 1..LastArrival, Widen(i, a, t)
        PROVE  ArmsInv' /\ arms'["arm"].realized >= arms["arm"].realized
    <2>1. next' = next /\ now' > now /\ UNCHANGED <<seen, arms>>
      BY <1>0, <1>5 DEF Widen, Elapse
    <2> QED BY <1>0, <1>a, <2>1
  <1>6. CASE End
    <2>1. UNCHANGED <<seen, arms>> /\ UNCHANGED <<next, now>>
      BY <1>6 DEF End, capsVars
    <2> QED BY <1>0, <1>a, <2>1
  <1>7. CASE UNCHANGED vars
    <2>1. UNCHANGED <<seen, arms>> /\ UNCHANGED <<next, now>>
      BY <1>7 DEF vars, capsVars, walks
    <2> QED BY <1>0, <1>a, <2>1
  <1> QED BY <1>1, <1>2, <1>3, <1>4, <1>5, <1>6, <1>7 DEF Next

\* The arms are in order in every reachable state.
LEMMA ArmsAlways == Spec => []ArmsInv
<1>1. Init => ArmsInv
  <2> SUFFICES ASSUME Init PROVE ArmsInv
    OBVIOUS
  <2>1. seen = <<>> /\ next = None /\ now = 0 /\ arms = [r \in {"base", "arm"} |-> FreshArm]
    BY RulesAreOK DEF Init, CapsInit
  <2>2. /\ FreshArm.held = {} /\ FreshArm.pending = {} /\ FreshArm.cash = Capital0 /\ FreshArm.realized = 0
        /\ FreshArm.locked \in [Clusters -> Nat] /\ \A c \in Clusters : FreshArm.locked[c] = 0
    BY DEF FreshArm
  <2>3. CapitalOf({}) = 0 /\ \A c \in Clusters : InCluster({}, c) = {}
    BY SumOfNothing DEF CapitalOf, SumFunction, InCluster
  <2>4. \A r \in {"base", "arm"} : Rules[r].room = None \/ Rules[r].room \in Nat
    BY RulesAreOK DEF RuleOK
  <2>5. ASSUME NEW r \in {"base", "arm"} PROVE ArmOfRule(r)
    <3>1. arms[r] = FreshArm
      BY <2>1
    <3> DEFINE a == FreshArm
    <3> HIDE DEF a
    <3>2. /\ a.held = {} /\ a.pending = {} /\ a.cash \in Nat /\ a.realized \in Nat
          /\ a.cash + CapitalOf(a.held) = Capital0 + a.realized
      <4>1. CapitalOf(a.held) = 0
        BY <2>2, <2>3 DEF a
      <4> QED BY <2>2, <4>1, CapsAssumption DEF a
    <3>3. \A c \in Clusters : /\ a.locked[c] = CapitalOf(InCluster(a.held, c))
                              /\ Rules[r].room # None => a.locked[c] <= Rules[r].room
      <4> SUFFICES ASSUME NEW c \in Clusters
                   PROVE  /\ a.locked[c] = CapitalOf(InCluster(a.held, c))
                          /\ Rules[r].room # None => a.locked[c] <= Rules[r].room
        OBVIOUS
      <4>1. InCluster(a.held, c) = {}
        BY <2>3, <3>2
      <4>2. CapitalOf(InCluster(a.held, c)) = 0 /\ a.locked[c] = 0
        BY <2>2, <2>3, <4>1 DEF a
      <4> QED BY <2>4, <4>2
    <3>4. ArmOK(Rules[r], a)
      BY <2>2, <3>2, <3>3, FS_EmptySet DEF ArmOK, a
    <3>5. Waits(a) /\ Traced(a)
      BY <2>1, <3>2, FS_EmptySet DEF Waits, Traced
    <3> QED BY <3>1, <3>4, <3>5 DEF ArmOfRule, a
  <2>6. SeenInOrder
    <3>1. <<>> \in Seq([e : Candidates, t : Nat]) /\ DOMAIN <<>> = {}
      OBVIOUS
    <3> QED BY <2>1, <3>1 DEF SeenInOrder
  <2>7. arms["arm"].pending = {}
    BY <2>1, <2>2
  <2> QED BY <2>5, <2>6, <2>7 DEF ArmsInv
<1>2. CapsTypeOK /\ CapsTypeOK' /\ AcctInv /\ ArmsInv /\ [Next]_vars => ArmsInv'
  BY ArmsStep
<1> QED BY <1>1, <1>2, AcctAlways, LockStepRunsTheCaps, CapsTypeCorrect, PTL DEF Spec

\* The recycling arm implements a bank too: however often what waits is tried again, and whatever of it is taken when money
\* comes back, the arm pays with what it has and earns the booked edge of what settled.  (run_arm)
THEOREM ArmImplementsBank == Spec => ArmIsBank
<1>1. Init => ArmBank!Init
  <2> SUFFICES ASSUME Init PROVE ArmBank!Init
    OBVIOUS
  <2>1. CapitalOf({}) = 0
    BY SumOfNothing DEF CapitalOf, SumFunction
  <2>2. arms["arm"] = FreshArm
    BY RulesAreOK DEF Init
  <2>3. arms["arm"].cash = Capital0 /\ arms["arm"].held = {} /\ arms["arm"].realized = 0
    BY <2>2 DEF FreshArm
  <2> QED BY <2>1, <2>3 DEF ArmBank!Init
<1>2. CapsTypeOK /\ CapsTypeOK' /\ AcctInv /\ ArmsInv /\ ArmsInv' /\ [Next]_vars
        => [ArmBank!Move]_<<arms["arm"].cash, CapitalOf(arms["arm"].held), arms["arm"].realized>>
  <2> SUFFICES ASSUME CapsTypeOK, CapsTypeOK', AcctInv, ArmsInv, ArmsInv', [Next]_vars PROVE ArmBank!Move
    OBVIOUS
  <2> DEFINE a == arms["arm"]
             b == arms'["arm"]
  <2>1. b.realized >= a.realized
    BY ArmsStep
  <2>2. /\ IsFiniteSet(a.held) /\ (\A p \in a.held : Locks(p)) /\ a.cash \in Nat /\ a.realized \in Nat
        /\ a.cash + CapitalOf(a.held) = Capital0 + a.realized
    BY DEF ArmsInv, ArmOfRule, ArmOK
  <2>3. /\ IsFiniteSet(b.held) /\ (\A p \in b.held : Locks(p)) /\ b.cash \in Nat /\ b.realized \in Nat
        /\ b.cash + CapitalOf(b.held) = Capital0 + b.realized
    BY DEF ArmsInv, ArmOfRule, ArmOK, Locks
  <2> HIDE DEF a, b
  <2>4. CapitalOf(a.held) \in Nat
    BY <2>2, CapitalSplits
  <2>5. CapitalOf(b.held) \in Nat
    BY <2>3, CapitalSplits
  <2>6. PICK l, m : l = CapitalOf(a.held) /\ m = CapitalOf(b.held)
    OBVIOUS
  <2>7. b.cash = a.cash + (l - m) + (b.realized - a.realized) /\ m >= 0 /\ b.cash >= 0
    BY <2>2, <2>3, <2>4, <2>5, <2>6, CapsAssumption
  <2> QED BY <2>1, <2>6, <2>7 DEF ArmBank!Move, a, b
<1> QED
  BY <1>1, <1>2, ArmsAlways, AcctAlways, LockStepRunsTheCaps, CapsTypeCorrect, PTL DEF Spec, ArmIsBank, ArmBank!Spec

\* All the walks of the lock-step are banks.
THEOREM WalksImplementBanks == Spec => WalksAreBanks
  BY CapsHoldInLockStep, BankrollImplementsBank, ArmImplementsBank, PoolsImplementBanks, PTL DEF WalksAreBanks

(***************************************************************************)
(* Recycling is sound                                                      *)
(***************************************************************************)

\* The two ways the scripts halve a fat edge come to the same size.
LEMMA BaseSizesAlike ==
  ASSUME NEW w, PoolOK(w), NEW e \in Candidates, NEW t
  PROVE  Drawn(w, e, t) = DrawnBase(w, e, t)
  <1> DEFINE u    == Units(e.dir, e.net, e.px)
             size == Payable(w, u, e.c2)
             cut  == IF e.net >= FatKnee THEN Larger(1, size \div FatDivisor) ELSE size
  <1>1. e.c2 \in Nat /\ e.net \in Nat /\ FatDivisor \in Nat \ {0} /\ FatKnee \in Nat
    BY CapsAssumption
  <1>2. u.k \in Nat /\ u.p \in Nat /\ w.k \in Nat /\ w.p \in Nat
    BY <1>1, UnitsTyped, CapitalAssumption DEF PoolOK
  <1>3. size \in Nat
    <2> HIDE DEF u
    <2> QED BY <1>1, <1>2, PayableTyped
  <1>4. Halved(e, size) = cut
    <2> HIDE DEF size
    <2>1. size \div FatDivisor \in Nat
      BY <1>1, <1>3, Quotient
    <2> QED BY <1>1, <2>1 DEF Halved, Larger
  <1> QED BY <1>4 DEF Drawn, DrawnBase

\* Which markets were tried for an add.
LEMMA TriedReturned == ASSUME NEW w, NEW t PROVE Returned(w, t).tried = w.tried
  BY DEF Returned

LEMMA TriedBase == ASSUME NEW w, NEW e, NEW t PROVE DrawnBase(w, e, t).tried = w.tried
  <1>1. \A p : Held(w, p).tried = w.tried
    BY DEF Held
  <1> QED BY <1>1 DEF DrawnBase

LEMMA TriedAdd == ASSUME NEW w, NEW a, NEW n, NEW t PROVE DrawnAdd(w, a, n, t).tried = w.tried \cup {a.market}
  <1> DEFINE done == [k |-> w.k, p |-> w.p, held |-> w.held, entered |-> w.entered, added |-> w.added,
                      tried |-> w.tried \cup {a.market}]
  <1>1. done.tried = w.tried \cup {a.market}
    OBVIOUS
  <1>2. \E p : DrawnAdd(w, a, n, t) = done \/ DrawnAdd(w, a, n, t) = Held(done, p)
    BY DEF DrawnAdd
  <1>3. \A p : Held(done, p).tried = done.tried
    BY DEF Held
  <1> HIDE DEF done
  <1> QED BY <1>1, <1>2, <1>3

\* The counts, the markets that were tried, and the pools without adds.
WalksTyped ==
  /\ acct.skipped \in Nat /\ acct.partial \in Nat /\ ended \in BOOLEAN
  /\ padd.tried \subseteq Markets /\ pools.tried \subseteq Markets
  /\ PoolOK(pools) /\ \A p \in pools.held : p.open_t <= now /\ (next # None => p.open_t < now)

LEMMA WalksStep ==
  ASSUME CapsTypeOK, CapsTypeOK', AcctInv, SeenInOrder, WalksTyped, [Next]_vars
  PROVE  WalksTyped'
  <1>0. /\ now \in Nat /\ now' \in Nat /\ next \in [e : Candidates, t : Nat] \cup {None}
        /\ (next # None => next.t = now) /\ PoolOK(pools)
        /\ \A p \in pools.held : p.open_t \in Nat /\ p.open_t <= now /\ (next # None => p.open_t < now)
        /\ acct.skipped \in Nat /\ acct.partial \in Nat /\ ended \in BOOLEAN
        /\ padd.tried \subseteq Markets /\ pools.tried \subseteq Markets
    BY DEF CapsTypeOK, AcctInv, WalksTyped, PoolOK, Costs
  <1>a. ASSUME NEW t, acct' = Settled(acct, t) PROVE acct'.skipped \in Nat /\ acct'.partial \in Nat
    BY <1>0, <1>a DEF Settled
  <1>b. ASSUME now' >= now, next' = next \/ next' = None, next = None \/ now' = now,
               acct' = acct \/ (acct'.skipped \in Nat /\ acct'.partial \in Nat), ended' \in BOOLEAN,
               padd'.tried \subseteq Markets, pools' = pools
        PROVE  WalksTyped'
    BY <1>0, <1>b DEF WalksTyped, PoolOK, Costs, KLocked, PLocked
  <1>1. ASSUME NEW e \in Candidates, NEW t \in 1..LastArrival, Come(e, t) PROVE WalksTyped'
    <2>1. /\ now' = t /\ t > now /\ t \in Nat /\ acct' = Settled(acct, t) /\ UNCHANGED ended
          /\ pools' = Returned(pools, t) /\ padd' = Returned(padd, t)
      BY <1>1 DEF Come, Consider
    <2>2. PoolOK(pools') /\ pools'.held \subseteq pools.held
      BY <1>0, <2>1, PoolReturns
    <2>3. \A p \in pools'.held : p.open_t <= now' /\ p.open_t < now'
      BY <1>0, <2>1, <2>2
    <2>4. pools'.tried \subseteq Markets /\ padd'.tried \subseteq Markets
      BY <1>0, <2>1, TriedReturned
    <2>5. PoolOK(pools)'
      BY <2>2 DEF PoolOK, Costs, KLocked, PLocked
    <2> QED BY <1>0, <1>a, <2>1, <2>3, <2>4, <2>5 DEF WalksTyped
  <1>2. ASSUME NEW p \in held, SettleCap(p) PROVE WalksTyped'
    <2>1. UNCHANGED <<next, now>> /\ UNCHANGED walks
      BY <1>2 DEF SettleCap, SettleOne
    <2> QED BY <1>0, <1>b, <2>1 DEF walks
  <1>3. CASE ArmSettles
    <2>1. UNCHANGED <<next, now>> /\ UNCHANGED <<acct, pools, padd, ended>>
      BY <1>3 DEF ArmSettles, capsVars
    <2> QED BY <1>0, <1>b, <2>1
  <1>4. CASE Decide
    <2>1. /\ next # None /\ next' = None /\ UNCHANGED now /\ UNCHANGED ended
          /\ acct' = Bought(acct, next.e, next.t)
          /\ pools' = (IF Live(next.e, next.t) THEN Drawn(pools, next.e, next.t) ELSE pools)
          /\ padd' = (IF Live(next.e, next.t) THEN DrawnBase(padd, next.e, next.t) ELSE padd)
      BY <1>4 DEF Decide, Fund, PassOver, Skip, Decided
    <2>2. next.e \in Candidates /\ next.t = now
      BY <1>0, <2>1
    <2>3. acct'.skipped \in Nat /\ acct'.partial \in Nat
      BY <1>0, <2>1 DEF Bought
    <2>4. padd'.tried \subseteq Markets
      <3>1. DrawnBase(padd, next.e, next.t).tried = padd.tried
        BY TriedBase
      <3> QED BY <1>0, <2>1, <3>1
    <2>5. CASE Live(next.e, next.t)
      <3>1. pools' = DrawnBase(pools, next.e, now)
        BY <1>0, <2>1, <2>2, <2>5, BaseSizesAlike
      <3>2. PoolOK(pools') /\ \A p \in pools'.held : p.open_t <= now
        BY <1>0, <2>1, <2>2, <3>1, BaseDraws
      <3>3. pools'.tried \subseteq Markets
        <4>1. DrawnBase(pools, next.e, now).tried = pools.tried
          BY TriedBase
        <4> QED BY <1>0, <3>1, <4>1
      <3>4. PoolOK(pools)'
        BY <3>2 DEF PoolOK, Costs, KLocked, PLocked
      <3> QED BY <1>0, <2>1, <2>3, <2>4, <3>2, <3>3, <3>4 DEF WalksTyped
    <2>6. CASE ~ Live(next.e, next.t)
      BY <1>0, <1>b, <2>1, <2>3, <2>4, <2>6
    <2> QED BY <2>5, <2>6
  <1>5. ASSUME NEW i \in DOMAIN seen, NEW a \in Adds, NEW t \in 1..LastArrival, Widen(i, a, t) PROVE WalksTyped'
    <2>1. /\ next' = next /\ next = None /\ now' = t /\ t > now /\ UNCHANGED <<acct, pools, ended>>
          /\ seen[i].e.market = a.market
          /\ padd' = DrawnAdd(Returned(padd, t), a, Size0(seen[i].e), t)
      BY <1>5 DEF Widen, Elapse
    <2>2. a.market \in Markets
      <3>1. seen[i].e \in Candidates
        BY SeenTyped
      <3> QED BY <2>1, <3>1, CapsAssumption
    <2>3. padd'.tried = padd.tried \cup {a.market}
      <3> DEFINE w == Returned(padd, t)
                 n == Size0(seen[i].e)
      <3>1. w.tried = padd.tried /\ padd' = DrawnAdd(w, a, n, t)
        BY <2>1, TriedReturned
      <3> HIDE DEF w, n
      <3>2. DrawnAdd(w, a, n, t).tried = w.tried \cup {a.market}
        BY TriedAdd
      <3> QED BY <3>1, <3>2
    <2> QED BY <1>0, <1>b, <2>1, <2>2, <2>3
  <1>6. CASE End
    <2> DEFINE s == WindowEnd
    <2>1. UNCHANGED <<next, now>> /\ UNCHANGED <<pools, padd>> /\ ended' = TRUE /\ acct' = Settled(acct, s)
      BY <1>6 DEF End, capsVars
    <2> HIDE DEF s
    <2> QED BY <1>0, <1>a, <1>b, <2>1
  <1>7. CASE UNCHANGED vars
    BY <1>0, <1>b, <1>7 DEF vars, capsVars, walks
  <1> QED BY <1>1, <1>2, <1>3, <1>4, <1>5, <1>6, <1>7 DEF Next

LEMMA WalksAlways == Spec => []WalksTyped
<1>1. Init => WalksTyped
  <2> SUFFICES ASSUME Init PROVE WalksTyped
    OBVIOUS
  <2>1. /\ pools.k = K0 /\ pools.p = P0 /\ pools.held = {} /\ pools.tried = {} /\ padd.tried = {}
        /\ acct.skipped = 0 /\ acct.partial = 0 /\ ended = FALSE
    BY DEF Init, FreshPools, FreshWalk
  <2>2. KLocked(pools) = 0 /\ PLocked(pools) = 0
    BY <2>1, SumOfNothing DEF KLocked, PLocked, KCost, PCost, SumFunction
  <2>3. PoolOK(pools)
    BY <2>1, <2>2, FS_EmptySet, CapitalAssumption DEF PoolOK
  <2>4. ended \in BOOLEAN
    BY <2>1
  <2>5. \A p \in pools.held : p.open_t <= now /\ (next # None => p.open_t < now)
    BY <2>1
  <2> QED BY <2>1, <2>3, <2>4, <2>5 DEF WalksTyped
<1>2. CapsTypeOK /\ CapsTypeOK' /\ AcctInv /\ ArmsInv /\ WalksTyped /\ [Next]_vars => WalksTyped'
  BY WalksStep DEF ArmsInv
<1> QED BY <1>1, <1>2, ArmsAlways, AcctAlways, LockStepRunsTheCaps, CapsTypeCorrect, PTL DEF Spec

\* Recycling is sound for every sequence of candidates and settlements: nobody waits whom the free money could fund; what the
\* arm holds it took while the episode lasted, once per market; and the room of a cluster is never overdrawn, and counted by
\* what is held there.  (run_arm)
THEOREM RecyclingAlwaysSound == Spec => []RecyclingIsSound
<1>1. CapsTypeOK /\ AcctInv /\ ArmsInv /\ PoolInv /\ WalksTyped => RecyclingIsSound
  <2> SUFFICES ASSUME CapsTypeOK, AcctInv, ArmsInv, PoolInv, WalksTyped PROVE RecyclingIsSound
    OBVIOUS
  <2> DEFINE a == arms["arm"]
             rule == Rules["arm"]
  <2>1. /\ ArmOK(rule, a) /\ Waits(a) /\ Traced(a) /\ RuleOK(rule) /\ now \in Nat
        /\ \A x \in a.pending : ~ Can(rule, a, x.e)
    BY RulesAreOK DEF ArmsInv, ArmOfRule, CapsTypeOK
  <2>2. CapitalTypeOK
    <3>1. \A r \in DOMAIN Rules : arms[r].cash \in Nat /\ arms[r].locked \in [Clusters -> Nat]
      BY RulesAreOK DEF ArmsInv, ArmOfRule, ArmOK
    <3>2. \A w \in {pools, padd} : w.k \in Nat /\ w.p \in Nat /\ w.tried \subseteq Markets
      BY DEF WalksTyped, PoolInv, PoolOK
    <3> QED BY <3>1, <3>2 DEF CapitalTypeOK, AcctInv, WalksTyped
  <2>3. NothingIdle
    <3> SUFFICES ASSUME NEW x \in a.pending PROVE TryFund(rule, a, x.e, now).why # "funded"
      BY DEF NothingIdle
    <3> HIDE DEF a, rule
    <3>1. x.e \in Candidates /\ \A p \in a.held : p.market # x.e.market
      BY <2>1 DEF Waits
    <3>2. TryFund(rule, a, x.e, now).why = "funded" <=> Can(rule, a, x.e)
      BY <2>1, <3>1, Funding
    <3> QED BY <2>1, <3>2
  <2>4. RecyclesLiveOnly
    <3>1. \A c \in Clusters : a.locked[c] = CapitalOf(InCluster(a.held, c)) /\ a.locked[c] <= ClusterRoom
      BY <2>1, RulesAreOK DEF ArmOK
    <3>2. \A p, q \in a.held : p.market = q.market => p = q
      BY <2>1 DEF ArmOK
    <3>3. \A p \in a.held : TookLive(p)
      BY <2>1 DEF Traced
    <3> QED BY <3>1, <3>2, <3>3 DEF RecyclesLiveOnly, TookLive
  <2> QED BY <2>2, <2>3, <2>4 DEF RecyclingIsSound
<1> QED
  BY <1>1, WalksAlways, PoolsAlways, ArmsAlways, AcctAlways, LockStepRunsTheCaps, CapsTypeCorrect, PTL

(***************************************************************************)
(* The replay sizes as the bot                                             *)
(***************************************************************************)

\* A contract costs what the bot reckons.
LEMMA CostsAgree ==
  ASSUME NEW e \in Candidates
  PROVE  Gate!CostPer(e.net) \in Nat \ {0} /\ CostPer(e) = Gate!CostPer(e.net)
  <1>1. e.net \in Nat
    BY CapsAssumption
  <1> QED BY <1>1 DEF Gate!CostPer, CostPer

\* What a cap has room for, in contracts, is what fits under it.
LEMMA RoomIsWhatFits ==
  ASSUME NEW cap \in Int, NEW used \in Int, NEW cost \in Nat \ {0}
  PROVE  /\ Gate!RoomFor(cap, used, cost) \in Nat
         /\ \A n \in Nat \ {0} : used + n * cost <= cap <=> n <= Gate!RoomFor(cap, used, cost)
  <1> DEFINE room == cap - used
             q == room \div cost
  <1>1. CASE cap > used
    <2>1. room \in Nat /\ Gate!RoomFor(cap, used, cost) = q
      BY <1>1 DEF Gate!RoomFor
    <2>2. q \in Nat /\ q * cost <= room /\ room < (q + 1) * cost
      <3> HIDE DEF room
      <3> QED BY <2>1
    <2>3. ASSUME NEW n \in Nat \ {0} PROVE used + n * cost <= cap <=> n <= q
      <3>1. n * cost \in Nat
        OBVIOUS
      <3>2. used + n * cost <= cap <=> n * cost <= room
        BY <3>1
      <3> HIDE DEF q, room
      <3>3. n <= q => n * cost <= q * cost
        BY <2>2, Monotone
      <3>4. ~ (n <= q) => (q + 1) * cost <= n * cost
        <4> SUFFICES ASSUME ~ (n <= q) PROVE (q + 1) * cost <= n * cost
          OBVIOUS
        <4>1. q + 1 \in Nat /\ q + 1 <= n
          BY <2>2
        <4> QED BY <4>1, Monotone
      <3>5. q * cost \in Nat /\ (q + 1) * cost \in Nat
        BY <2>2
      <3> QED BY <2>1, <2>2, <3>1, <3>2, <3>3, <3>4, <3>5
    <2> QED BY <2>1, <2>2, <2>3
  <1>2. CASE ~ (cap > used)
    <2>1. Gate!RoomFor(cap, used, cost) = 0
      BY <1>2 DEF Gate!RoomFor
    <2>2. ASSUME NEW n \in Nat \ {0} PROVE used + n * cost > cap
      <3>1. n * cost \in Nat /\ n * cost > 0
        <4>1. 1 * cost <= n * cost /\ n * cost \in Nat
          <5>1. cost \in Nat /\ n \in Nat /\ 1 <= n
            OBVIOUS
          <5> QED BY <5>1, Monotone
        <4> QED BY <4>1
      <3> QED BY <1>2, <3>1
    <2>3. ASSUME NEW n \in Nat \ {0} PROVE used + n * cost <= cap <=> n <= 0
      <3>1. n * cost \in Nat
        OBVIOUS
      <3> QED BY <2>2, <3>1
    <2> QED BY <2>1, <2>3
  <1> QED BY <1>1, <1>2

\* The bot's four limits of size, in contracts, for the candidate.
Cost(e) == Gate!CostPer(e.net)
Pair(e) == Gate!RoomFor(MaxPerPair, perPair[e.market], Cost(e))
Clus(e) == Gate!RoomFor(MaxPerCluster, perCluster[ClusterOf[e.market]], Cost(e))
Tot(e)  == Gate!RoomFor(MaxTotal, total, Cost(e))
Clipped(e) == Gate!Clipped(e.net, e.c2, perPair[e.market], perCluster[ClusterOf[e.market]], total)

\* The sizes that fit are those up to the bot's clipped size.
LEMMA FitsAreClipped ==
  ASSUME BotMoney, CapsTypeOK, ExposureIsHeld, NEW e \in Candidates
  PROVE  /\ Pair(e) \in Nat /\ Clus(e) \in Nat /\ Tot(e) \in Nat /\ Clipped(e) \in Nat
         /\ Clipped(e) >= 1 <=> e.c2 >= 1 /\ MaxContracts >= 1 /\ Pair(e) >= 1 /\ Clus(e) >= 1 /\ Tot(e) >= 1
         /\ Fits(e) = {n \in Nat : 1 <= n /\ n <= Clipped(e)}
  <1> DEFINE m == e.market
             k == ClusterOf[m]
             c == Cost(e)
             p == perPair[m]
             q == perCluster[k]
  <1>1. m \in Markets /\ k \in Clusters /\ e.c2 \in Nat /\ MaxContracts \in Nat
    BY CapsAssumption
  <1>2. c \in Nat \ {0} /\ CostPer(e) = c
    BY CostsAgree DEF Cost
  <1>3. MaxPerPair \in Int /\ MaxPerCluster \in Int /\ MaxTotal \in Int
    BY CapsAssumption
  <1>4. p \in Int /\ q \in Int /\ total \in Int
    BY <1>1 DEF CapsTypeOK
  <1>5. cash + total = MaxTotal /\ cash \in Int /\ total \in Int
    BY CapsAssumption DEF ExposureIsHeld, BotMoney, CapsTypeOK
  <1>6. /\ Pair(e) = Gate!RoomFor(MaxPerPair, p, c) /\ Clus(e) = Gate!RoomFor(MaxPerCluster, q, c)
        /\ Tot(e) = Gate!RoomFor(MaxTotal, total, c)
    BY DEF Pair, Clus, Tot
  <1>7. Clipped(e) = Gate!Least(Gate!Least(Gate!Least(e.c2, MaxContracts), Tot(e)),
                                Gate!Least(Pair(e), Gate!Least(Clus(e), Tot(e))))
    BY DEF Clipped, Gate!Clipped, Gate!Affordable, Pair, Clus, Tot, Cost
  <1>8. Fits(e) = {n \in 1..MaxContracts : /\ n <= e.c2
                                           /\ n * CostPer(e) <= cash
                                           /\ p + n * CostPer(e) <= MaxPerPair
                                           /\ q + n * CostPer(e) <= MaxPerCluster
                                           /\ total + n * CostPer(e) <= MaxTotal}
    BY DEF Fits
  <1> HIDE DEF m, k, c, p, q
  <1>9. /\ Pair(e) \in Nat /\ Clus(e) \in Nat /\ Tot(e) \in Nat
        /\ \A n \in Nat \ {0} : /\ p + n * c <= MaxPerPair <=> n <= Pair(e)
                                /\ q + n * c <= MaxPerCluster <=> n <= Clus(e)
                                /\ total + n * c <= MaxTotal <=> n <= Tot(e)
    <2>1. /\ Gate!RoomFor(MaxPerPair, p, c) \in Nat
          /\ \A n \in Nat \ {0} : p + n * c <= MaxPerPair <=> n <= Gate!RoomFor(MaxPerPair, p, c)
      BY <1>2, <1>3, <1>4, RoomIsWhatFits
    <2>2. /\ Gate!RoomFor(MaxPerCluster, q, c) \in Nat
          /\ \A n \in Nat \ {0} : q + n * c <= MaxPerCluster <=> n <= Gate!RoomFor(MaxPerCluster, q, c)
      BY <1>2, <1>3, <1>4, RoomIsWhatFits
    <2>3. /\ Gate!RoomFor(MaxTotal, total, c) \in Nat
          /\ \A n \in Nat \ {0} : total + n * c <= MaxTotal <=> n <= Gate!RoomFor(MaxTotal, total, c)
      BY <1>2, <1>3, <1>4, RoomIsWhatFits
    <2> QED BY <1>6, <2>1, <2>2, <2>3
  <1>10. Clipped(e) \in Nat /\ \A n \in Nat : n <= Clipped(e) <=> /\ n <= e.c2 /\ n <= MaxContracts /\ n <= Pair(e)
                                                                  /\ n <= Clus(e) /\ n <= Tot(e)
    <2> DEFINE a == Pair(e)
               b == Clus(e)
               d == Tot(e)
    <2>1. a \in Nat /\ b \in Nat /\ d \in Nat
      BY <1>9
    <2> HIDE DEF a, b, d
    <2> QED BY <1>1, <1>7, <2>1 DEF Gate!Least, a, b, d
  <1>11. ASSUME NEW n \in Nat, n >= 1 PROVE n \in Fits(e) <=> n <= Clipped(e)
    <2> DEFINE paid == n * CostPer(e)
    <2>1. paid = n * c /\ paid \in Nat
      BY <1>2
    <2>2. /\ p + paid <= MaxPerPair <=> n <= Pair(e)
          /\ q + paid <= MaxPerCluster <=> n <= Clus(e)
          /\ total + paid <= MaxTotal <=> n <= Tot(e)
      <3>1. n \in Nat \ {0}
        BY <1>11
      <3> HIDE DEF paid
      <3> QED BY <1>3, <1>4, <1>9, <2>1, <3>1
    <2>3. paid <= cash <=> total + paid <= MaxTotal
      <3> HIDE DEF paid
      <3> QED BY <1>5, <2>1
    <2>4. n \in 1..MaxContracts <=> n <= MaxContracts
      BY <1>1, <1>11
    <2>5. n \in Fits(e) <=> /\ n \in 1..MaxContracts /\ n <= e.c2 /\ paid <= cash
                            /\ p + paid <= MaxPerPair /\ q + paid <= MaxPerCluster
                            /\ total + paid <= MaxTotal
      BY <1>8
    <2> HIDE DEF paid
    <2> QED BY <1>10, <2>2, <2>3, <2>4, <2>5
  <1>12. Fits(e) \subseteq {n \in Nat : n >= 1}
    BY <1>1, <1>8
  <1>13. Fits(e) = {n \in Nat : 1 <= n /\ n <= Clipped(e)}
    BY <1>11, <1>12
  <1>14. Clipped(e) >= 1 <=> e.c2 >= 1 /\ MaxContracts >= 1 /\ Pair(e) >= 1 /\ Clus(e) >= 1 /\ Tot(e) >= 1
    <2>1. 1 <= Clipped(e) <=> 1 <= e.c2 /\ 1 <= MaxContracts /\ 1 <= Pair(e) /\ 1 <= Clus(e) /\ 1 <= Tot(e)
      BY <1>10
    <2> QED BY <1>1, <1>9, <1>10, <2>1
  <1> QED BY <1>9, <1>10, <1>13, <1>14

\* A fat edge is halved alike.
LEMMA HaircutsAgree ==
  ASSUME NEW e \in Candidates, NEW n \in Nat, n >= 1
  PROVE  Gate!Haircut(e.net, n) = Halved(e, n)
  <1>4. FatDivisor \in Nat \ {0} /\ (n * 1) \div FatDivisor = n \div FatDivisor /\ n \div FatDivisor \in Nat
    BY CapsAssumption, Quotient
  <1>5. ~ (1 < FatDivisor) => n \div FatDivisor = n
    <2> SUFFICES ASSUME ~ (1 < FatDivisor) PROVE n \div FatDivisor = n
      OBVIOUS
    <2>1. FatDivisor = 1
      BY <1>4
    <2> QED BY <2>1
  <1> QED BY <1>4, <1>5 DEF Gate!Haircut, Halved

\* What the bot approves: nothing when the book is full or nothing fits, and else the largest size that fits, halved.
LEMMA ApprovedIsHalved ==
  ASSUME BotMoney, CapsTypeOK, ExposureIsHeld, NEW e \in Candidates, e.net >= EdgeFloor
  PROVE  Approved(e) = IF openPositions < MaxConcurrent /\ Clipped(e) >= 1 THEN Halved(e, Clipped(e)) ELSE 0
  <1>1. /\ Pair(e) \in Nat /\ Clus(e) \in Nat /\ Tot(e) \in Nat /\ Clipped(e) \in Nat
        /\ Clipped(e) >= 1 <=> e.c2 >= 1 /\ MaxContracts >= 1 /\ Pair(e) >= 1 /\ Clus(e) >= 1 /\ Tot(e) >= 1
    BY FitsAreClipped
  <1>4. e.net > 0 /\ e.net >= EdgeFloor
    BY CapsAssumption DEF BotMoney
  <1> DEFINE admissible == /\ openPositions < MaxConcurrent /\ Pair(e) >= 1 /\ Clus(e) >= 1 /\ Tot(e) >= 1
  <1>5. Approved(e) = IF admissible THEN Gate!Haircut(e.net, Clipped(e)) ELSE 0
    <2>1. /\ Pair(e) > 0 <=> Pair(e) >= 1
          /\ Clus(e) > 0 <=> Clus(e) >= 1
          /\ Tot(e) > 0 <=> Tot(e) >= 1
      BY <1>1
    <2>2. Gate!Admissible(e.net, perPair[e.market], perCluster[ClusterOf[e.market]], total, openPositions)
          <=> /\ e.net > 0 /\ e.net >= EdgeFloor /\ openPositions < MaxConcurrent
              /\ Pair(e) > 0 /\ Clus(e) > 0 /\ Tot(e) > 0
      BY DEF Gate!Admissible, Pair, Clus, Tot, Cost
    <2> QED BY <1>4, <2>1, <2>2 DEF Approved, Gate!ApprovedSize, Clipped
  <1>6. CASE Clipped(e) >= 1
    <2>1. Gate!Haircut(e.net, Clipped(e)) = Halved(e, Clipped(e))
      BY <1>1, <1>6, HaircutsAgree
    <2> QED BY <1>1, <1>5, <1>6, <2>1
  <1>7. CASE ~ (Clipped(e) >= 1) /\ ~ admissible
    BY <1>5, <1>7
  <1>8. Clipped(e) >= 1 <=> Pair(e) >= 1 /\ Clus(e) >= 1 /\ Tot(e) >= 1
    <2>1. e.c2 >= 1 /\ MaxContracts >= 1
      BY CapsAssumption DEF BotMoney
    <2> QED BY <1>1, <2>1
  <1> QED BY <1>6, <1>7, <1>8

\* For any candidates, edges of four decimals, caps and times, the replay funds a candidate of the funnel with exactly the size that the
\* bot's gate approves for its edge, its depth and the exposure, and passes it over when the gate refuses, unless some room is a whole
\* number of contracts, where the quotients of floats may part.  (cap_constrained_entries, evaluate)
THEOREM ReplaySizesAsTheBot == BotMoney => (Spec => SizedAsTheBot)
<1> SUFFICES ASSUME BotMoney PROVE Spec => SizedAsTheBot
  OBVIOUS
<1>1. CapsTypeOK /\ ExposureIsHeld /\ HeldAreOlder /\ [Next]_vars
        => [next # None /\ next' = None /\ Funnel(next.e) /\ ~ OnTheEdge(next.e) =>
              IF Approved(next.e) = 0 THEN held' = held
              ELSE \E p \in held' \ held : p.size = Approved(next.e)]_vars
  <2> SUFFICES ASSUME CapsTypeOK, ExposureIsHeld, HeldAreOlder, [Next]_vars, next # None, next' = None,
                      Funnel(next.e)
               PROVE  IF Approved(next.e) = 0 THEN held' = held
                      ELSE \E p \in held' \ held : p.size = Approved(next.e)
    OBVIOUS
  <2>1. Decide
    BY CapsAssumption DEF Next, Come, Consider, SettleCap, SettleOne, ArmSettles, Widen, Elapse, End, vars, capsVars
  <2> DEFINE e == next.e
  <2>2. e \in Candidates /\ e.net >= EdgeFloor /\ now \in Nat
    BY DEF Funnel, CapsTypeOK
  <2>3. /\ Approved(e) = IF openPositions < MaxConcurrent /\ Clipped(e) >= 1 THEN Halved(e, Clipped(e)) ELSE 0
        /\ Clipped(e) \in Nat /\ Fits(e) = {n \in Nat : 1 <= n /\ n <= Clipped(e)}
    BY <2>2, ApprovedIsHalved, FitsAreClipped
  <2>4. CASE Fund
    <3>1. PICK n \in Fits(e) : (\A k \in Fits(e) : k <= n) /\ Enter(e, Halved(e, n))
      BY <2>4 DEF Fund
    <3>2. n = Clipped(e) /\ Clipped(e) >= 1 /\ openPositions < MaxConcurrent
      <4>1. n \in Nat /\ 1 <= n /\ n <= Clipped(e)
        BY <2>3, <3>1
      <4>2. Clipped(e) \in Fits(e)
        BY <2>3, <4>1
      <4>3. Clipped(e) <= n
        BY <3>1, <4>2
      <4> QED BY <2>3, <2>4, <4>1, <4>3 DEF Fund
    <3>3. Approved(e) = Halved(e, n) /\ Approved(e) # 0
      <4>1. Approved(e) = Halved(e, n)
        BY <2>3, <3>2
      <4>2. 1 <= Halved(e, n) /\ Halved(e, n) \in Nat
        BY <2>2, <2>3, <3>2, HalvedIsSmaller
      <4> QED BY <4>1, <4>2
    <3> DEFINE p == [market |-> e.market, open_t |-> now, settle_t |-> SettleT(e.market, now),
                     size |-> Halved(e, n), capital |-> Halved(e, n) * CostPer(e)]
    <3>4. held' = held \cup {p}
      BY <3>1 DEF Enter
    <3>5. p.open_t = now /\ p.size = Halved(e, n)
      OBVIOUS
    <3> HIDE DEF p
    <3>6. p \notin held
      <4> SUFFICES ASSUME p \in held PROVE FALSE
        OBVIOUS
      <4>1. p.open_t < now
        BY DEF HeldAreOlder
      <4> QED BY <2>2, <3>5, <4>1
    <3>7. \E x \in held' \ held : x.size = Approved(e)
      BY <3>3, <3>4, <3>5, <3>6
    <3> QED BY <3>3, <3>7
  <2>5. CASE PassOver
    <3>1. held' = held
      BY <2>5 DEF PassOver
    <3>2. ~ (openPositions < MaxConcurrent /\ Clipped(e) >= 1)
      <4>1. CASE openPositions >= MaxConcurrent
        BY <4>1, CapsAssumption DEF CapsTypeOK
      <4>2. CASE Fits(e) = {}
        <5>1. Clipped(e) >= 1 => Clipped(e) \in Fits(e)
          BY <2>3
        <5> QED BY <4>2, <5>1
      <4> QED BY <2>5, <4>1, <4>2 DEF PassOver
    <3> QED BY <2>3, <3>1, <3>2
  <2> QED BY <2>1, <2>4, <2>5 DEF Decide
<1>2. Spec => []CapsTypeOK
  BY CapsTypeCorrect, LockStepRunsTheCaps
<1>3. Spec => []HeldAreOlder
  BY HeldAreAlwaysOlder, LockStepRunsTheCaps
<1>4. Spec => []ExposureIsHeld
  BY ExposureIsAlwaysHeld, LockStepRunsTheCaps
<1> QED BY <1>1, <1>2, <1>3, <1>4, PTL DEF Spec, SizedAsTheBot
=============================================================================
