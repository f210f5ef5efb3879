----------------------------- MODULE MCRefresh -----------------------------
(***************************************************************************)
(* Small values for the constants of Refresh.                              *)
(***************************************************************************)
EXTENDS Refresh

CONSTANTS s1, s2, t1, t2

\* One moneyline game with a Kalshi ticker for each team; pairs of one ticker each.
Game     == [s \in Slugs |-> Tickers]
TwoPairs == [s \in Slugs |-> IF s = s1 THEN {t1} ELSE {t2}]
============================================================================
