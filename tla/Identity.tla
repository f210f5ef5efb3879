------------------------------ MODULE Identity ------------------------------
(***************************************************************************)
(* The settlement-identity gate (src/scripts/settlement_identity.py): what *)
(* it says of a joined pair from the two rules texts.  A text is what the  *)
(* patterns find in it: the stations, sources, agencies and fallback       *)
(* prices it names, the window it waits, the clauses on extra time.        *)
(***************************************************************************)
EXTENDS Pairing, FiniteSetsExt

CONSTANTS
  DrawLeagues,  \* the leagues that can draw
  VoidCost,     \* void_haircut of a league, in hundredths of a cent
  CliTail       \* _cli_metar_tail_cents

Dim(status) == [status |-> status, cost |-> 0]
Priceable(cost) == [status |-> "TAIL", cost |-> cost]

\* _combine: a conflict decides, then an unknown, then what can be priced.
Combine(dims) ==
  LET says == {d.status : d \in dims}
  IN  IF "DIVERGENT" \in says THEN Dim("DIVERGENT")
      ELSE IF says = {} \/ "NEEDS_MANUAL" \in says THEN Dim("NEEDS_MANUAL")
      ELSE IF "TAIL" \in says THEN Priceable(SumSet({d.cost : d \in dims}))
      ELSE Dim("IDENTICAL")

\* Mutant of Compared: a silent side is taken to agree.
BugCompared(known, same) == Dim(IF known /\ ~ same THEN "DIVERGENT" ELSE "IDENTICAL")

\* Two readings of one dimension: unknown when either side is silent.
Compared(known, same) == Dim(IF ~ known THEN "NEEDS_MANUAL" ELSE IF same THEN "IDENTICAL" ELSE "DIVERGENT")

(* --------------------------------- weather ------------------------------ *)
Station(p, k) == Compared(p.stations # {} /\ k.stations # {}, p.stations \cap k.stations # {})

Source(p, k) ==
  LET against(s) == \/ "cli" \in p.sources /\ s \in k.sources /\ "cli" \notin k.sources
                    \/ "cli" \in k.sources /\ s \in p.sources /\ "cli" \notin p.sources
  IN  IF against("nonnws") THEN Dim("DIVERGENT")
      ELSE IF against("metar") THEN Priceable(CliTail)
      ELSE Compared("cli" \in p.sources /\ "cli" \in k.sources, TRUE)

Boundary(p, k) == Compared(~ Open(PmBounds(p)) /\ ~ Open(KBounds(k)), PmBounds(p) = KBounds(k))

WeatherVerdict(p, k, pr, kr) == Combine({Station(pr, kr), Source(pr, kr), Boundary(p, k)})

(* ---------------------------------- sports ------------------------------ *)
\* _timing_basis: a clause that only excludes extra time leaves regulation.
Basis(t) == IF "extended" \in t.timing /\ "excluded" \notin t.timing THEN "extended"
            ELSE IF "regulation" \in t.timing THEN "regulation" ELSE NA

\* _pm_three_way and _kalshi_three_way, from the sides that can be settled.
PmThreeWay(t)  == IF t.sides = {} THEN NA ELSE Cardinality(t.sides) >= 3
KalThreeWay(t) == IF t.sides = {} THEN NA
                  ELSE Cardinality(t.sides) >= 3 \/ (Cardinality(t.sides) >= 2 /\ "tie" \in t.sides)

CanDraw(league, p) == league \in DrawLeagues \/ PmThreeWay(p) = TRUE

\* The window and the fallback price of a game that is not played: a difference is priced when the league is.
VoidDim(league, p, k) ==
  LET silent == p.fallback = {} \/ k.fallback = {}
      meet   == p.fallback \cap k.fallback # {}
  IN  IF p.window = NA \/ k.window = NA THEN Dim("NEEDS_MANUAL")
      ELSE IF p.window # k.window \/ (~ silent /\ ~ meet)
           THEN IF VoidCost[league] > 0 THEN Priceable(VoidCost[league]) ELSE Dim("NEEDS_MANUAL")
      ELSE IF silent THEN Dim("NEEDS_MANUAL")
      ELSE Dim("IDENTICAL")

SportsVerdict(league, date, kdates, p, k) ==
  Combine({Compared(date # NA /\ kdates # {}, date \in kdates),
           Compared(NA \notin {PmThreeWay(p), KalThreeWay(k)}, PmThreeWay(p) = KalThreeWay(k)),
           VoidDim(league, p, k)}
          \cup IF CanDraw(league, p)
               THEN {Compared(NA \notin {Basis(p), Basis(k)}, Basis(p) = Basis(k))} ELSE {})

(* ----------------------------------- econ ------------------------------- *)
\* pmus may leave its agency out; a text that names another contradicts.
Agency(want, p, k) ==
  IF want \in k.agencies /\ (want \in p.agencies \/ p.agencies = {}) THEN Dim("IDENTICAL")
  ELSE Compared(\E t \in {p, k} : t.agencies # {} /\ want \notin t.agencies, FALSE)

EconBoundary(x, k) ==
  CASE x.ineq = "cat" -> Compared(NA \notin {FedLbl(x.label), k.label}, k.label = FedLbl(x.label))
    [] x.ineq = ">="  -> Compared(k.floor # NA /\ k.strike \in {"greater", "greater_or_equal"}, k.floor = EconTwin(x.thr))
    [] OTHER -> Dim("NEEDS_MANUAL")

EconVerdict(x, k, want, pr, kr) == Combine({Agency(want, pr, kr), EconBoundary(x, k)})
=============================================================================
