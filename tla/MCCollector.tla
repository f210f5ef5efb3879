---------------------------- MODULE MCCollector ----------------------------
(***************************************************************************)
(* Small values for the constants of Collector.                            *)
(***************************************************************************)
EXTENDS Collector, TLC

CONSTANTS game, bucket, t1, t2

\* A game on two tickers, and a market that claims one of them.
Shared == (game :> {t1, t2}) @@ (bucket :> {t2})
=============================================================================
