--------------------------- MODULE MCBookkeeping ---------------------------
(***************************************************************************)
(* Small values for the constants of Bookkeeping.                          *)
(***************************************************************************)
EXTENDS Bookkeeping, TLC

CONSTANTS s1, s2, c1

\* Slugs of one cluster.
SameCluster == [s \in Slugs |-> c1]

Alike == Permutations(Slugs)

E(n, d) == [net |-> n, dir |-> d]

\* One edge; edges of which some can stack, one at and one past the fat-edge knee.
OneEdge    == {E(4, "PK")}
Rising     == {E(4, "PK"), E(6, "PK"), E(9, "KP")}
============================================================================
