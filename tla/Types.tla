-------------------------------- MODULE Types --------------------------------
(***************************************************************************)
(* The vocabulary shared by every module (src/bot-rs/src/types.rs).        *)
(***************************************************************************)

Kalshi == "Kalshi"
Pmus   == "Pmus"
Venues == {Kalshi, Pmus}

Other(v) == IF v = Kalshi THEN Pmus ELSE Kalshi

\* PK buys YES at pmus, KP buys YES at Kalshi.
Dirs == {"PK", "KP"}
=============================================================================
