------------------------------- MODULE MCFires -------------------------------
(***************************************************************************)
(* Small values for the constants of GameBooks and Fires.                  *)
(***************************************************************************)
EXTENDS Fires

Side(a, b) == [p \in Rests |-> IF p = 44 THEN a ELSE IF p = 56 THEN b ELSE 0]
Book0 == [yes |-> Side(1, 0), no |-> Side(1, 0)]
FirstBooks == [t \in Teams |-> Book0]

Pm(bids, offers) == [bids |-> bids, offers |-> offers]

\* 1.0 - 0.56 - 0.42 and 1.0 - 0.56 - 0.44 are below 0.02 and 0.
FallShort == {<<56, 42>>, <<56, 44>>}

\* No edge; an edge on two levels; one the other way with an empty level; one side only; crossed; another team's.
SixBooks == {Pm(<<Level(44, 1)>>, <<Level(46, 1)>>), Pm(<<Level(40, 1)>>, <<Level(41, 1), Level(43, 2)>>),
             Pm(<<Level(60, 1), Level(59, 0), Level(58, 1)>>, <<Level(62, 1)>>), Pm(<<Level(60, 1), Level(58, 2)>>, <<>>),
             Pm(<<Level(50, 1)>>, <<Level(48, 1)>>), Pm(<<Level(8, 1)>>, <<Level(10, 1)>>)}

\* The books move, or fires are made.
BooksOrFires == {[changes |-> 2, frames |-> 1, losses |-> 1, fires |-> 0, deaths |-> 0],
                 [changes |-> 0, frames |-> 0, losses |-> 0, fires |-> 4, deaths |-> 0],
                 [changes |-> 0, frames |-> 0, losses |-> 0, fires |-> 3, deaths |-> 1]}

Moves == {-1, 1, 2}

Kinds == [m \in Slugs |-> IF m = "w" THEN "weather" ELSE "sports"]
Ends  == {[result |-> "lock", detail |-> "both"], [result |-> "recover", detail |-> "P"]}
=============================================================================
