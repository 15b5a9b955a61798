---------------------------- MODULE MCCalculation ----------------------------
(* A small instance of Calculation for TLC: fractions in hundredths, words of *)
(* eight bits, int32_t from -4 to 3.                                          *)
EXTENDS Calculation

MCMin == -4
MCOperand == {Encode(units) : units \in {-150, -100, -7, 0, 1, 50, 99, 230}}
MCDouble ==
  {[num |-> num, den |-> 32] : num \in {-140, -127, -48, -32, -1, 8, 63, 104}}
MCFactor == {-3, -2, -1, 0, 1, 3}
MCEdgeWord == {0, 1, 15, 16, 99, 100, 127, 128, 129, 255}
=============================================================================
