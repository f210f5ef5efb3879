------------------------------- MODULE Orders -------------------------------
(***************************************************************************)
(* What the venues answer to one order, and how the bot reads the answers  *)
(* of a pair (src/bot-rs/src/exec.rs and bookkeeping.rs).                  *)
(*                                                                         *)
(* Quantities are counted in lots, Lot lots to a contract, so that the     *)
(* fractional partial fills of pmus are whole numbers.                     *)
(***************************************************************************)
EXTENDS Types, Integers, FiniteSets

\* Which of the two leg slots holds the Kalshi leg: A (0) when Kalshi is bought YES first.
KalshiSlot(dir) == IF dir = "KP" THEN 0 ELSE 1

Lot == 2

(***************************************************************************)
(* Result<Ack, ExecError> of one leg, as far as anyone looks at it:        *)
(*   ok        2xx, qty is fill_qty                                        *)
(*   unsent    HedgeNotFilled, the leg was never posted                    *)
(*   rejected  a definite no-fill rejection                                *)
(*   vague     Rejected with unknown fate: transport, 5xx, 408, duplicate  *)
(*   limited   RateLimited: a 429 or a timeout                             *)
(*   panic     Rejected("submit panicked")                                 *)
(* wait is the state before the answer.                                    *)
(***************************************************************************)
Results == {"wait", "ok", "unsent", "rejected", "vague", "limited", "panic"}

Ack == [res : Results, qty : Nat]

Answer(res) == [res |-> res, qty |-> 0]
Fill(lots)  == [res |-> "ok", qty |-> lots]

\* Ack.filled: the whole quantity asked for was filled.
Filled(a, lots) == a.res = "ok" /\ a.qty >= lots

BothFilled(ack, lots) == \A v \in Venues : Filled(ack[v], lots)

\* A live fill of any size, full or partial.
LiveFill(a) == a.res = "ok" /\ a.qty > 0

NakedVenues(ack) == {v \in Venues : LiveFill(ack[v])}

\* naked_filled_idx is Some: one leg holds a fill and the other did not fully fill.
HalfFilled(ack, lots) ==
  \E v \in Venues : LiveFill(ack[v]) /\ ~ Filled(ack[Other(v)], lots)

DefiniteNotFilled(a) == a.res = "rejected"

IsErr(a) == a.res \notin {"wait", "ok"}

\* Mutant of LandedOrder: a rejected order is taken not to burn its coid.
BugLandedOrder(ack) == \E v \in Venues : ack[v].res = "ok"

\* Some leg reached a venue under the entry's client order id, which is burnt with it.
LandedOrder(ack) ==
  \E v \in Venues : ack[v].res \in {"ok", "rejected", "vague", "panic"}

\* classify_entry_miss: the unsent leg marks the pair whose first leg decided alone.
EntryMiss(ack) ==
  IF \A v \in Venues : ack[v].res # "unsent" THEN "NakedOrOther"
  ELSE LET hedge == ack[CHOOSE v \in Venues : ack[Other(v)].res = "unsent"] IN
       IF LiveFill(hedge)        THEN "NakedOrOther"
       ELSE IF hedge.res = "ok"  THEN "CleanAbort"
                                 ELSE "AmbiguousAbort"

\* Every leg without a fill is known not to have filled, so the filled one may be sold.
UnfilledLegsKnown(ack) ==
  \A v \in Venues \ NakedVenues(ack) :
    IsErr(ack[v]) => ack[v].res = "unsent" \/ DefiniteNotFilled(ack[v])
=============================================================================
