----------------------------- MODULE Standings -----------------------------
(***************************************************************************)
(* What a tournament promises about places, and nothing else: people come  *)
(* in, go out one or several at a time, may buy their way back in, and the *)
(* last one in is the champion.  Whoever goes out holds the place that the *)
(* number still in and the number gone after them leave, at every moment.  *)
(***************************************************************************)
EXTENDS Integers, Sequences, FiniteSets

CONSTANTS
  People,  \* whoever may come
  NoOne    \* none of them

VARIABLES
  phase,    \* "entering", "playing" or "over"
  in,       \* who is in
  out,      \* who went out, in the order they went
  place,    \* the finishing place each person holds, 0 when none
  champion  \* who won

vars == <<phase, in, out, place, champion>>

\* The places that a set of people still in and a line of people gone imply.
Places(i, o) ==
  [p \in People |->
     IF \E k \in DOMAIN o : o[k] = p
     THEN Cardinality(i) + Len(o) + 1 - (CHOOSE k \in DOMAIN o : o[k] = p)
     ELSE 0]

Gone == {out[k] : k \in DOMAIN out}

\* The orders in which the people of a group may go out together.
Lines(S) == {s \in [1..Cardinality(S) -> S] : \A j, k \in DOMAIN s : s[j] = s[k] => j = k}

Init ==
  /\ phase = "entering" /\ in = {} /\ out = <<>>
  /\ place = Places({}, <<>>) /\ champion = NoOne

Come(p) ==
  /\ phase \in {"entering", "playing"}
  /\ p \notin in \union Gone
  /\ in' = in \union {p}
  /\ place' = Places(in', out)
  /\ UNCHANGED <<phase, out, champion>>

Withdraw(p) ==
  /\ phase = "entering" /\ p \in in
  /\ in' = in \ {p}
  /\ UNCHANGED <<phase, out, place, champion>>

Begin ==
  /\ phase = "entering" /\ Cardinality(in) >= 2
  /\ phase' = "playing"
  /\ UNCHANGED <<in, out, place, champion>>

\* A group goes out, in some order, and never everybody.
GoOut(S) ==
  /\ phase = "playing" /\ S # {} /\ S \subseteq in /\ S # in
  /\ \E s \in Lines(S) : out' = out \o s
  /\ in' = in \ S
  /\ place' = Places(in', out')
  /\ UNCHANGED <<phase, champion>>

\* Whoever comes back has not gone out: the line closes up behind them.
ComeBack(p) ==
  /\ phase = "playing"
  /\ \E k \in DOMAIN out :
       /\ out[k] = p
       /\ out' = [j \in 1..(Len(out) - 1) |-> IF j < k THEN out[j] ELSE out[j + 1]]
  /\ in' = in \union {p}
  /\ place' = Places(in', out')
  /\ UNCHANGED <<phase, champion>>

Crown(w) ==
  /\ phase = "playing" /\ in = {w}
  /\ phase' = "over" /\ champion' = w
  /\ place' = [place EXCEPT ![w] = 1]
  /\ UNCHANGED <<in, out>>

Next ==
  \/ Begin
  \/ \E p \in People : Come(p) \/ Withdraw(p) \/ ComeBack(p) \/ Crown(p)
  \/ \E S \in SUBSET People : GoOut(S)

Spec == Init /\ [][Next]_vars
=============================================================================
