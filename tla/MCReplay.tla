------------------------------ MODULE MCReplay ------------------------------
(* Small tables with people at them, and full ones of bots, for TLC. *)
EXTENDS Replay

C(v) == [value |-> v, suit |-> "clubs"]
D(v) == [value |-> v, suit |-> "diamonds"]
H(v) == [value |-> v, suit |-> "hearts"]
S(v) == [value |-> v, suit |-> "spades"]

\* A royal flush and what is nearly one; straights from the wheel up; a hand
\* of fours and threes; two pairs and the card beside them; lows that pair.
Royals == <<S(14), S(13), S(12), S(11), S(10), S(9), H(14), H(13), D(9),
            C(2), C(3), C(4), C(5), C(6), C(7), C(8), C(9)>>
Wheels == <<S(14), S(2), S(3), S(4), S(5), H(6), H(14), D(6), C(7),
            C(2), C(3), C(4), C(5), C(6), C(8), C(9), C(10)>>
Fours  == <<S(14), H(14), D(14), C(14), S(13), H(13), D(13), S(12), H(12),
            C(2), C(3), C(4), C(5), C(6), C(7), C(8), C(9)>>
Pairs  == <<S(13), H(13), S(12), H(12), D(11), C(10), S(2), H(2), D(3),
            C(2), C(3), C(4), C(5), C(6), C(7), C(8), C(9)>>

\* A stud hand of low cards, all of whose fives pair.
Eights == <<C(8), D(8), C(7), S(12), S(13), S(11), D(7), H(12), C(6), H(13), D(6), D(10),
            C(5), D(9)>>

\* A whole deck, one way round or another.
Shuffled(m) ==
  [k \in 1..52 |-> LET n == ((k * m) % 53) - 1
                   IN  [value |-> (n % 13) + 2, suit |-> SuitOrder[(n \div 13) + 1]]]

Small(key, level, seats, people, decks) ==
  [key |-> key, level |-> level, seats |-> seats, people |-> people, decks |-> decks,
   throws |-> 1, shows |-> 2, drops |-> 1]

Peopled ==
  {Small("holdem", 1, 3, {1, 2}, <<Royals, Pairs>>),
   Small("studhl", 1, 2, {1, 2}, <<Wheels>>),
   Small("pineapple", 1, 2, {1, 2}, <<Fours>>),
   [Small("draw", 1, 3, {1, 2}, <<SubSeq(Pairs, 1, 16)>>) EXCEPT !.drops = 0]}

Bots(key, level, m) == Small(key, level, SeatsOf(key), {}, <<Shuffled(m)>>)

Full ==
  {Bots(key, 1, m) : key \in DOMAIN GAMES, m \in {5, 7}} \cup
  {Bots("horse", level, 11) : level \in 1..7} \cup
  {Small("studhl", 1, 2, {}, <<Eights>>)}

Everywhere == Peopled \cup Full
=============================================================================
