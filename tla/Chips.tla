------------------------------- MODULE Chips -------------------------------
(***************************************************************************)
(* Adding up what a numbered group of holders has: the reduce over seats   *)
(* in engine.js totalChips() and director.js totalChips().                 *)
(***************************************************************************)
EXTENDS Integers

\* The sum of f[1], ..., f[n]; 0 when n is 0.
Total(f, n) ==
  LET sum[i \in 0..n] == IF i = 0 THEN 0 ELSE sum[i - 1] + f[i]
  IN  sum[n]
=============================================================================
