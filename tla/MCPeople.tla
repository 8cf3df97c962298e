------------------------------ MODULE MCPeople ------------------------------
(* A few people for TLC. *)
EXTENDS People, TLC

Alike == Permutations(Names) \cup Permutations(Sockets)

\* Two devices, or two passwords being hashed, but not both at once.
FewAtOnce == minted + Cardinality(Hashing) <= 3
=============================================================================
