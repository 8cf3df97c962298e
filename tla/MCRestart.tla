----------------------------- MODULE MCRestart -----------------------------
(* Small tournaments whose process dies, for TLC. *)
EXTENDS Restart

\* One level that never ends.
OneLevel == <<"play">>

WinnerOnly == [n \in 0..N |-> 1]
=============================================================================
