------------------------------ MODULE MCServer ------------------------------
(* A small server for TLC. *)
EXTENDS Server

CONSTANTS g1, g2, p1

\* One game under way when the older server was stopped, and the hands of one
\* that had ended.
Old == {g1}

SaidThere == [t \in Tables |-> IF t = 1 THEN <<[seq |-> 1, id |-> -1]>> ELSE <<>>]

Kept == [chat |-> (g1 :> SaidThere), history |-> (g1 :> 1) @@ (g2 :> 1)]
=============================================================================
