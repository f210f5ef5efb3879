------------------------------ MODULE MCTrades ------------------------------
EXTENDS Makers

Lad(pb, pa, kb, ka, qty) ==
  [px |-> [p_yb |-> pb, p_ya |-> pa, k_yb |-> kb, k_ya |-> ka], ka_qty |-> qty, kb_qty |-> qty, p_qty |-> 1]

\* No edge.
Nothing == Lad(44, 46, 44, 47, 0)

\* An edge, one that crosses what rests on the first, one in the other direction, and none.
FewLadders == {Lad(40, 42, 50, 53, 1), Lad(38, 39, 54, 57, 0), Lad(50, 53, 40, 42, 1), Nothing}

\* The poll across a restart and a relisting, a page that is too small, what a resting order meets, and the fees.
PollAndRest ==
  {[ticks |-> 5, trades |-> 2, restarts |-> 1, prunes |-> 0, frames |-> 0, fees |-> 0, fails |-> 1],
   [ticks |-> 5, trades |-> 2, restarts |-> 0, prunes |-> 1, frames |-> 0, fees |-> 0, fails |-> 0],
   [ticks |-> 3, trades |-> 3, restarts |-> 0, prunes |-> 0, frames |-> 0, fees |-> 0, fails |-> 0],
   [ticks |-> 3, trades |-> 1, restarts |-> 1, prunes |-> 0, frames |-> 2, fees |-> 0, fails |-> 0],
   [ticks |-> 6, trades |-> 0, restarts |-> 1, prunes |-> 0, frames |-> 0, fees |-> 2, fails |-> 1]}
=============================================================================
