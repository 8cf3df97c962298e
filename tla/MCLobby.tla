------------------------------ MODULE MCLobby ------------------------------
(* A host with two tabs and a player with one, for TLC; or the host with   *)
(* one of them, that player, and a third who plays on to the end.          *)
EXTENDS Lobby, TLC

CONSTANTS ann, bea, cy, a1, a2, b1, c1, g1, g2

TabOwner == [s \in Tabs |-> CASE s = b1 -> bea [] s = c1 -> cy [] OTHER -> ann]
Makers == [g \in Games |-> IF g = g1 THEN ann ELSE bea]

\* Nothing tells one tab of a person from another.
SameTabs == Permutations({a1, a2})

\* cy comes first, enters g1 before it starts and stays bound to it but for a
\* restart, so that a game goes on when one of the others busts; meanwhile g2
\* is not made.  ann has a second tab only without cy and without forfeits.
CyPlaysOn ==
  LET r == game[g1]  q == game'[g1] IN
  /\ \A g \in Games : cy \notin DOMAIN game'[g].pend \cup DOMAIN game'[g].watch
  /\ \A g \in Games : cy # game'[g].host
  /\ cy \notin DOMAIN game'[g2].reg \cup q.leaving \cup q.ffs
  /\ cy \in DOMAIN q.reg => game'[g2].st = "none"
  /\ cy \in DOMAIN q.reg \ DOMAIN r.reg => q.st = "registering"
  /\ cy \in DOMAIN r.reg \ DOMAIN q.reg => q.st \in {"gone", "lost"}
  /\ {a1, a2} \subseteq online' => c1 \notin online' /\ q.ffs = {}
  /\ c1 \in online' \ online => online' = {c1}
  /\ c1 \in online \ online' => online' = {}
  /\ online = {} /\ cy \in DOMAIN r.reg => c1 \in online' \/ q.st # r.st
  /\ data[c1].game # None => data'[c1] \in {data[c1], NoData}
=============================================================================
