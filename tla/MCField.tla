------------------------------ MODULE MCField ------------------------------
(* Small tournaments for TLC. *)
EXTENDS Field

\* One level that never ends; one level and the break after it.
OneLevel  == <<"play">>
PlayBreak == <<"play", "break">>

\* The ladder of the code for two to five entrants pays the winner only.  The
\* longer one is a payoutPct of the organiser's own, for a bubble that comes
\* while a small field is still spread over two tables.
WinnerOnly == [n \in 0..N |-> 1]
PayTwo     == [n \in 0..N |-> 2]

\* Nothing in the field tells one person from another, so entries and draws are
\* taken up to a renaming: whoever enters is the next person, and the draw is
\* dealt round the tables in turn.
EnteredInTurn ==
  /\ entrants' = 1..Cardinality(entrants')
  /\ status = "registering" /\ status' = "running" =>
       \A p \in entrants : at'[p] = ((p - 1) % opened') + 1

\* People ask for little out of turn: one re-entry, removal, move or dropped seat
\* in all; or two, but when everybody is in only the move.
Asked == extra + Cardinality(barred) + asked + Cardinality(rekeyed)
AskedOnce  == Asked' <= 1
AskedTwice == Asked' <= 2 /\ (Cardinality(entrants') = N => Asked' = asked')
=============================================================================
