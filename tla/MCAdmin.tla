------------------------------ MODULE MCAdmin ------------------------------
(* Two administrators for TLC. *)
EXTENDS Admin, TLC

\* Mail with one password and with another, and none.
TwoForms ==
  {[mode |-> "smtp", pass |-> "p", clear |-> FALSE],
   [mode |-> "smtp", pass |-> "", clear |-> FALSE],
   [mode |-> "off", pass |-> "", clear |-> TRUE]}

CONSTANTS g1, t1, ann

OneIssuer == [t \in Tokens |-> g1]
FirstHour == [t \in Tokens |-> MaxAge + 1]
OneHolder == [t \in Tokens |-> ann]

TwoAdmins == Permutations(Admins)

\* Three of what is bounded in any order within an hour, two within two.
ThreeInAll ==
  LET done == spent.presses + spent.faults + spent.crashes IN
  done <= 3 /\ done + now <= MaxAge + 5
=============================================================================
