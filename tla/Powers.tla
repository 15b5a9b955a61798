------------------------------- MODULE Powers -------------------------------
(* Powers of a number, as a recursive function whose equations can be proved. *)
EXTENDS Integers

Power(base, n) ==
  LET to[i \in Nat] == IF i = 0 THEN 1 ELSE base * to[i - 1] IN to[n]
=============================================================================
