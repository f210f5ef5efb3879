---------------------------- MODULE MCEpisodes ----------------------------
(***************************************************************************)
(* Small values for the constants of Episodes, Persistence and Latency.    *)
(***************************************************************************)
EXTENDS Latency

CONSTANTS m1, m2

Book(pb, pa, kb, ka, c0, c1, c2) ==
  [p_yb |-> pb, p_ya |-> pa, k_yb |-> kb, k_ya |-> ka, c0 |-> c0, c1 |-> c1, c2 |-> c2]

\* No edge; one on buying at P, that P has not moved for; a wider one, flat down the book; a narrow one on K.
FourBooks == {Book(48, 50, 49, 51, 0, 0, 0), Book(48, 50, 55, 57, 9, 7, 5),
              Book(40, 42, 55, 57, 5, 5, 5), Book(48, 50, 42, 44, None, None, 5)}

\* No edge; one on buying at P; and a thin one and a wider one on buying at K.
KBooks == {Book(48, 50, 49, 51, 0, 0, 0), Book(42, 44, 49, 51, 9, 7, 5),
           Book(48, 50, 38, 40, 0, 0, 0), Book(48, 50, 36, 38, 5, 5, 5)}

\* A market by itself, and one with another beside it that may outlive it, without a mark.
Bounds == {[time |-> 6, marks |-> 1, frames |-> (m1 :> 4 @@ m2 :> 0)],
           [time |-> 4, marks |-> 0, frames |-> (m1 :> 2 @@ m2 :> 1)]}
=============================================================================
