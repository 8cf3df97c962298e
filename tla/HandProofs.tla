----------------------------- MODULE HandProofs -----------------------------
(***************************************************************************)
(* A hand for any number of seats, any stacks, any blinds and any game: it *)
(* keeps its types, no timer pays for an absent seat, and the pot is paid  *)
(* out to the last chip, side pots, split pots and halves for a low        *)
(* included.                                                               *)
(***************************************************************************)
EXTENDS Hand, ChipsProofs

Beats == {"none", "open", "run", "show", "now"}

HandSet ==
  [game : DOMAIN Rules, on : BOOLEAN, street : Nat \ {0}, beat : Beats, drawing : BOOLEAN,
   first : Seat \union {None}, chips : [Seat -> Nat], bet : [Seat -> Nat],
   total : [Seat -> Nat], ante : [Seat -> Nat], folded : SUBSET Seat,
   allIn : SUBSET Seat, acted : SUBSET Seat, cur : Seat, price : Nat,
   minRaise : Nat, raises : Nat, raiser : Seat, pot : Nat, staked : Nat]

\* What is in front of the seats does not exceed the price.
Matched(h) == \A i \in Seat : h.bet[i] <= h.price

\* The pot is what has gone in, and with what is left what the hand began with.
Whole(h) ==
  /\ h.pot = Total(h.total, N) + Total(h.ante, N)
  /\ Total(h.chips, N) + h.pot = h.staked

\* The streets there are, and another one after a beat that opens one.
InStreets(h) ==
  /\ h.street <= Len(Streets)
  /\ h.beat = "open" => h.street < Len(Streets)

-----------------------------------------------------------------------------
(* Seats *)

LEMMA Constants ==
  /\ N \in Nat \ {0, 1} /\ Button \in Seat /\ SmallBlind \in Nat \ {0} /\ BigBlind \in Nat \ {0}
  /\ SmallBlind <= BigBlind /\ Ranks \in Nat \ {0} /\ MaxOffers \in Nat
  BY HandAssumption

LEMMA GameIs ==
  ASSUME hand.game \in DOMAIN Rules
  PROVE  /\ Stacks \subseteq [Seat -> Nat \ {0}] /\ Ante \in Nat /\ Stud \in BOOLEAN
         /\ Streets \in Seq({"bet", "draw"}) /\ Len(Streets) \in Nat \ {0}
         /\ Streets[Len(Streets)] = "bet"
         /\ Limit \in {"no", "pot", "fixed"} /\ Lows \in Nat /\ Bots \subseteq Seat
<1>1. IsGame(Game)
  BY HandAssumption DEF Game
<1> QED
  BY <1>1 DEF IsGame, Stacks, Ante, Stud, Streets, Limit, Lows, Bots

LEMMA AfterIsSeat ==
  ASSUME NEW i \in Seat, NEW k \in Nat
  PROVE  After(i, k) \in Seat
<1>1. i - 1 + k \in Nat
  BY Constants DEF Seat
<1>2. (i - 1 + k) % N \in 0..(N - 1)
  BY <1>1, Constants
<1> QED
  BY <1>2, Constants DEF After, Seat

\* Once round the table everybody is passed, and twice round from the second
\* place on.
LEMMA AfterReaches ==
  ASSUME NEW i \in Seat, NEW j \in Seat
  PROVE  /\ \E k \in 1..N : After(i, k) = j
         /\ \E k \in 2..(N + 1) : After(i, k) = j
<1>0. N \in Nat \ {0, 1} /\ i \in 1..N /\ j \in 1..N
  BY Constants DEF Seat
<1>1. CASE j > i
  <2>1. (i - 1 + (j - i)) % N = j - 1 /\ (i - 1 + (j - i + N)) % N = j - 1
    BY <1>0, <1>1
  <2>2. After(i, j - i) = j /\ j - i \in 1..N
    BY <1>0, <1>1, <2>1 DEF After
  <2>3. j - i > 1 \/ j - i = 1
    BY <1>0, <1>1
  <2>4. After(i, j - i + N) = j /\ (j - i = 1 => j - i + N \in 2..(N + 1))
    BY <1>0, <1>1, <2>1 DEF After
  <2>5. j - i > 1 => j - i \in 2..(N + 1)
    BY <1>0, <1>1
  <2> QED
    BY <2>2, <2>3, <2>4, <2>5
<1>2. CASE j <= i
  <2>1. (i - 1 + (j - i + N)) % N = j - 1
    BY <1>0, <1>2
  <2>2. After(i, j - i + N) = j /\ j - i + N \in 1..N
    BY <1>0, <1>2, <2>1 DEF After
  <2>3. CASE j - i + N > 1
    <3>1. j - i + N \in 2..(N + 1)
      BY <1>0, <1>2, <2>3
    <3> QED
      BY <2>2, <3>1
  <2>4. CASE j - i + N = 1
    <3>1. i = N /\ j = 1
      BY <1>0, <1>2, <2>4
    <3>2. (N - 1 + (N + 1)) % N = 0
      <4>1. (N - 1 + (N + 1)) % N = (N + N) % N
        BY <1>0
      <4> QED
        BY <1>0, <4>1
    <3>3. After(i, N + 1) = j /\ N + 1 \in 2..(N + 1)
      BY <1>0, <3>1, <3>2 DEF After
    <3> QED
      BY <2>2, <3>3
  <2> QED
    BY <1>0, <1>2, <2>2, <2>3, <2>4
<1> QED
  BY <1>0, <1>1, <1>2

\* The first of a non-empty set of numbers.
LEMMA LeastExists ==
  ASSUME NEW S \in SUBSET Nat, S # {}
  PROVE  \E k \in S : \A y \in S : k <= y
<1> SUFFICES ASSUME \A k \in S : \E y \in S : ~(k <= y)
             PROVE  FALSE
  OBVIOUS
<1> DEFINE Below == {n \in Nat : \A y \in S : y > n}
<1>1. 0 \in Below
  <2>1. 0 \notin S
    OBVIOUS
  <2> QED
    BY <2>1
<1>2. ASSUME NEW n \in Nat, n \in Below
      PROVE  n + 1 \in Below
  <2>1. \A y \in S : y >= n + 1
    BY <1>2
  <2>2. n + 1 \notin S
    BY <2>1
  <2> QED
    BY <2>1, <2>2
<1>3. Nat \subseteq Below
  <2> HIDE DEF Below
  <2> QED
    BY <1>1, <1>2, SetInduction
<1>4. PICK y \in S : TRUE
  OBVIOUS
<1> QED
  BY <1>3, <1>4

LEMMA FirstOfIs ==
  ASSUME NEW S \in SUBSET Seat, NEW i \in Seat
  PROVE  /\ FirstOf(S, i) \in Seat
         /\ S # {} => FirstOf(S, i) \in S
<1>1. CASE S = {}
  BY <1>1, AfterIsSeat DEF FirstOf
<1>2. CASE S # {}
  <2> DEFINE K == {k \in 1..N : After(i, k) \in S}
             Is(k) == After(i, k) \in S /\ \A j \in 1..(k - 1) : After(i, j) \notin S
             c == CHOOSE k \in 1..N : Is(k)
  <2>1. K # {} /\ K \in SUBSET Nat
    BY <1>2, AfterReaches
  <2>2. PICK k \in K : \A y \in K : k <= y
    BY <2>1, LeastExists
  <2>3. \A j \in 1..(k - 1) : j \in 1..N /\ ~(k <= j)
    BY <2>2, Constants
  <2>4. k \in 1..N /\ Is(k)
    BY <2>2, <2>3
  <2>5. c \in 1..N /\ Is(c)
    BY <2>4
  <2>6. FirstOf(S, i) = After(i, c)
    BY <1>2 DEF FirstOf
  <2> QED
    BY <2>5, <2>6
<1> QED
  BY <1>1, <1>2

LEMMA SomeSeats ==
  ASSUME NEW h \in HandSet
  PROVE  /\ Live(h) \subseteq Seat /\ CanAct(h) \subseteq Live(h)
         /\ IsFiniteSet(Live(h)) /\ Cardinality(Live(h)) \in Nat
         /\ \A i \in Seat : NextActive(h, i) \in Seat /\ NextInHand(h, i) \in Seat
         /\ SmallSeat \in Seat /\ BigSeat \in Seat
<1>1. Live(h) \in SUBSET Seat /\ CanAct(h) \in SUBSET Seat /\ CanAct(h) \subseteq Live(h)
  BY DEF Live, CanAct
<1>2. IsFiniteSet(Seat)
  BY Constants, FS_Interval DEF Seat
<1>3. IsFiniteSet(Live(h)) /\ Cardinality(Live(h)) \in Nat
  BY <1>1, <1>2, FS_Subset, FS_CardinalityType
<1>4. SmallSeat \in Seat
  BY Constants, AfterIsSeat DEF SmallSeat
<1>5. BigSeat \in Seat
  BY <1>4, AfterIsSeat DEF BigSeat
<1> QED
  BY <1>1, <1>3, <1>4, <1>5, FirstOfIs DEF NextActive, NextInHand

\* The walk comes to a seat: at the latest, once round, to the last raiser.
LEMMA WalkStops ==
  ASSUME NEW h \in HandSet
  PROVE  WalkStop(h) \in Seat
<1> DEFINE stops(k) == \/ k <= N /\ After(h.cur, k) \in CanAct(h)
                       \/ k > 1 /\ After(h.cur, k) = h.raiser
           K == {k \in 1..(N + 1) : stops(k)}
           Is(k) == stops(k) /\ \A j \in 1..(k - 1) : ~stops(j)
           c == CHOOSE k \in 1..(N + 1) : Is(k)
<1>1. h.cur \in Seat /\ h.raiser \in Seat
  BY DEF HandSet
<1>2. PICK m \in 2..(N + 1) : After(h.cur, m) = h.raiser
  BY <1>1, AfterReaches
<1>3. m \in 1..(N + 1) /\ m > 1
  BY <1>2, Constants
<1>4. K # {} /\ K \in SUBSET Nat
  BY <1>2, <1>3
<1>5. PICK k \in K : \A y \in K : k <= y
  BY <1>4, LeastExists
<1>6. \A j \in 1..(k - 1) : j \in 1..(N + 1) /\ ~(k <= j)
  BY <1>5, Constants
<1>7. k \in 1..(N + 1) /\ Is(k)
  BY <1>5, <1>6
<1>8. c \in 1..(N + 1)
  BY <1>7
<1>9. WalkStop(h) = After(h.cur, c)
  BY DEF WalkStop
<1> HIDE DEF c
<1> QED
  BY <1>1, <1>8, <1>9, AfterIsSeat

-----------------------------------------------------------------------------
(* Chips going in *)

LEMMA Least ==
  ASSUME NEW a \in Int, NEW b \in Int
  PROVE  /\ Lesser(a, b) \in {a, b} /\ Lesser(a, b) <= a /\ Lesser(a, b) <= b
         /\ Greater(a, b) \in {a, b} /\ Greater(a, b) >= a /\ Greater(a, b) >= b
  BY DEF Lesser, Greater

LEMMA ZeroIs == Zero \in [Seat -> Nat] /\ Total(Zero, N) = 0
<1>1. Zero \in [1..N -> Nat] /\ \A i \in 1..N : Zero[i] = 0
  BY DEF Zero, Seat
<1>2. N \in Nat /\ N \in 0..N
  BY Constants
<1> QED
  BY <1>1, <1>2, TotalZero DEF Seat

\* A seat's entry changes by d.
LEMMA OneChanges ==
  ASSUME NEW f \in [Seat -> Nat], NEW i \in Seat, NEW v \in Nat
  PROVE  /\ Total([f EXCEPT ![i] = v], N) = Total(f, N) - f[i] + v
         /\ Total(f, N) \in Int
<1>1. N \in Nat /\ f \in [1..N -> Int] /\ i \in 1..N /\ v \in Int /\ N \in 0..N
  BY Constants DEF Seat
<1> QED
  BY <1>1, TotalUpdate, TotalType

\* What a hand is made of.
LEMMA HandIs ==
  ASSUME NEW h \in HandSet
  PROVE  /\ h.chips \in [Seat -> Nat] /\ h.bet \in [Seat -> Nat] /\ h.total \in [Seat -> Nat]
         /\ h.ante \in [Seat -> Nat] /\ h.pot \in Nat /\ h.staked \in Nat /\ h.price \in Nat
         /\ h.minRaise \in Nat /\ h.raises \in Nat /\ h.street \in Nat \ {0}
         /\ h.folded \subseteq Seat /\ h.allIn \subseteq Seat /\ h.acted \subseteq Seat
         /\ h.cur \in Seat /\ h.raiser \in Seat /\ h.first \in Seat \union {None}
         /\ h.on \in BOOLEAN /\ h.drawing \in BOOLEAN /\ h.beat \in Beats
         /\ h.game \in DOMAIN Rules
  BY DEF HandSet

\* A hand stays one when one of its fields takes another value of its type.
LEMMA OneField ==
  ASSUME NEW h \in HandSet
  PROVE  /\ \A v \in [Seat -> Nat] : [h EXCEPT !.chips = v] \in HandSet
         /\ \A v \in [Seat -> Nat] : [h EXCEPT !.bet = v] \in HandSet
         /\ \A v \in [Seat -> Nat] : [h EXCEPT !.total = v] \in HandSet
         /\ \A v \in [Seat -> Nat] : [h EXCEPT !.ante = v] \in HandSet
         /\ \A v \in Nat : [h EXCEPT !.pot = v] \in HandSet
         /\ \A v \in SUBSET Seat : [h EXCEPT !.allIn = v] \in HandSet
         /\ \A v \in SUBSET Seat : [h EXCEPT !.folded = v] \in HandSet
         /\ \A v \in SUBSET Seat : [h EXCEPT !.acted = v] \in HandSet
         /\ \A v \in Nat : [h EXCEPT !.price = v] \in HandSet
         /\ \A v \in Nat : [h EXCEPT !.minRaise = v] \in HandSet
         /\ \A v \in Nat : [h EXCEPT !.raises = v] \in HandSet
         /\ \A v \in Seat : [h EXCEPT !.raiser = v] \in HandSet
         /\ \A v \in Seat : [h EXCEPT !.cur = v] \in HandSet
         /\ \A v \in Seat \union {None} : [h EXCEPT !.first = v] \in HandSet
         /\ \A v \in BOOLEAN : [h EXCEPT !.drawing = v] \in HandSet
         /\ \A v \in BOOLEAN : [h EXCEPT !.on = v] \in HandSet
         /\ \A v \in Beats : [h EXCEPT !.beat = v] \in HandSet
         /\ \A v \in Nat \ {0} : [h EXCEPT !.street = v] \in HandSet
<1>1. \A v \in [Seat -> Nat] : [h EXCEPT !.chips = v] \in HandSet
  BY DEF HandSet
<1>2. \A v \in [Seat -> Nat] : [h EXCEPT !.bet = v] \in HandSet
  BY DEF HandSet
<1>3. \A v \in [Seat -> Nat] : [h EXCEPT !.total = v] \in HandSet
  BY DEF HandSet
<1>4. \A v \in [Seat -> Nat] : [h EXCEPT !.ante = v] \in HandSet
  BY DEF HandSet
<1>5. \A v \in Nat : [h EXCEPT !.pot = v] \in HandSet
  BY DEF HandSet
<1>6. \A v \in SUBSET Seat : [h EXCEPT !.allIn = v] \in HandSet
  BY DEF HandSet
<1>7. \A v \in SUBSET Seat : [h EXCEPT !.folded = v] \in HandSet
  BY DEF HandSet
<1>8. \A v \in SUBSET Seat : [h EXCEPT !.acted = v] \in HandSet
  BY DEF HandSet
<1>9. \A v \in Nat : [h EXCEPT !.price = v] \in HandSet
  BY DEF HandSet
<1>10. \A v \in Nat : [h EXCEPT !.minRaise = v] \in HandSet
  BY DEF HandSet
<1>11. \A v \in Nat : [h EXCEPT !.raises = v] \in HandSet
  BY DEF HandSet
<1>12. \A v \in Seat : [h EXCEPT !.raiser = v] \in HandSet
  BY DEF HandSet
<1>13. \A v \in Seat : [h EXCEPT !.cur = v] \in HandSet
  BY DEF HandSet
<1>14. \A v \in Seat \union {None} : [h EXCEPT !.first = v] \in HandSet
  BY DEF HandSet
<1>15. \A v \in BOOLEAN : [h EXCEPT !.drawing = v] \in HandSet
  BY DEF HandSet
<1>16. \A v \in BOOLEAN : [h EXCEPT !.on = v] \in HandSet
  BY DEF HandSet
<1>17. \A v \in Beats : [h EXCEPT !.beat = v] \in HandSet
  BY DEF HandSet
<1>18. \A v \in Nat \ {0} : [h EXCEPT !.street = v] \in HandSet
  BY DEF HandSet
<1> QED
  BY <1>1, <1>2, <1>3, <1>4, <1>5, <1>6, <1>7, <1>8, <1>9, <1>10, <1>11, <1>12, <1>13, <1>14, <1>15, <1>16, <1>17, <1>18


\* What money moves in leaves the rest of the hand alone.
SameHand(g, h) ==
  /\ g.game = h.game /\ g.on = h.on /\ g.street = h.street /\ g.beat = h.beat
  /\ g.drawing = h.drawing /\ g.first = h.first /\ g.staked = h.staked /\ g.cur = h.cur

LEMMA PutIs ==
  ASSUME NEW h \in HandSet, NEW i \in Seat, NEW n \in 0..h.chips[i]
  PROVE  /\ Put(h, i, n) \in HandSet /\ SameHand(Put(h, i, n), h)
         /\ Put(h, i, n).chips = [h.chips EXCEPT ![i] = h.chips[i] - n]
         /\ Put(h, i, n).bet = [h.bet EXCEPT ![i] = h.bet[i] + n]
         /\ Put(h, i, n).total = [h.total EXCEPT ![i] = h.total[i] + n]
         /\ Put(h, i, n).pot = h.pot + n
         /\ Put(h, i, n).ante = h.ante /\ Put(h, i, n).folded = h.folded
         /\ Put(h, i, n).acted = h.acted /\ Put(h, i, n).price = h.price
         /\ Put(h, i, n).minRaise = h.minRaise /\ Put(h, i, n).raises = h.raises
<1> DEFINE c == [h.chips EXCEPT ![i] = h.chips[i] - n]
           b == [h.bet EXCEPT ![i] = h.bet[i] + n]
           t == [h.total EXCEPT ![i] = h.total[i] + n]
           a == IF h.chips[i] = n THEN h.allIn \union {i} ELSE h.allIn
           p == h.pot + n
<1>1. h.chips[i] \in Nat /\ h.bet[i] \in Nat /\ h.total[i] \in Nat /\ h.pot \in Nat
  BY DEF HandSet
<1>2. n \in Nat /\ h.chips[i] - n \in Nat /\ p \in Nat
  BY <1>1
<1>3. c \in [Seat -> Nat] /\ b \in [Seat -> Nat] /\ t \in [Seat -> Nat] /\ a \subseteq Seat
  BY <1>1, <1>2 DEF HandSet
<1>4. Put(h, i, n) = [h EXCEPT !.chips = c, !.bet = b, !.total = t, !.pot = p, !.allIn = a]
  BY DEF Put
<1> HIDE DEF c, b, t, a, p
<1>5. Put(h, i, n) \in HandSet
  <2> DEFINE x == [[[h EXCEPT !.chips = c] EXCEPT !.bet = b] EXCEPT !.total = t]
  <2>1. x \in HandSet
    BY <1>3, OneField
  <2>2. [[x EXCEPT !.pot = p] EXCEPT !.allIn = a] \in HandSet
    <3> HIDE DEF x
    <3> QED
      BY <1>2, <1>3, <2>1, OneField
  <2>3. [h EXCEPT !.chips = c, !.bet = b, !.total = t, !.pot = p, !.allIn = a]
          = [[x EXCEPT !.pot = p] EXCEPT !.allIn = a]
    BY DEF HandSet
  <2> QED
    BY <1>4, <2>2, <2>3
<1>6. /\ Put(h, i, n).chips = c /\ Put(h, i, n).bet = b /\ Put(h, i, n).total = t
      /\ Put(h, i, n).pot = p
  BY <1>4 DEF HandSet
<1>7. /\ Put(h, i, n).ante = h.ante /\ Put(h, i, n).folded = h.folded
      /\ Put(h, i, n).acted = h.acted /\ Put(h, i, n).price = h.price
      /\ Put(h, i, n).minRaise = h.minRaise /\ Put(h, i, n).raises = h.raises
      /\ SameHand(Put(h, i, n), h)
  BY <1>4 DEF HandSet, SameHand
<1> QED
  BY <1>5, <1>6, <1>7 DEF c, b, t, p

LEMMA PutWhole ==
  ASSUME NEW h \in HandSet, NEW i \in Seat, NEW n \in 0..h.chips[i], Whole(h)
  PROVE  Whole(Put(h, i, n))
<1>0. /\ Put(h, i, n).chips = [h.chips EXCEPT ![i] = h.chips[i] - n]
      /\ Put(h, i, n).total = [h.total EXCEPT ![i] = h.total[i] + n]
      /\ Put(h, i, n).pot = h.pot + n /\ Put(h, i, n).ante = h.ante
      /\ SameHand(Put(h, i, n), h)
  BY PutIs, ZenonT(60)
<1> DEFINE g == Put(h, i, n)
<1>01. Put(h, i, n).staked = h.staked
  BY <1>0 DEF SameHand
<1>1. h.chips \in [Seat -> Nat] /\ h.total \in [Seat -> Nat] /\ h.ante \in [Seat -> Nat]
      /\ h.pot \in Nat /\ h.staked \in Nat
  BY DEF HandSet
<1>2. n \in Nat /\ h.chips[i] - n \in Nat /\ h.total[i] + n \in Nat /\ h.chips[i] \in Nat
      /\ h.total[i] \in Nat
  BY <1>1
<1>3. /\ g.chips = [h.chips EXCEPT ![i] = h.chips[i] - n] /\ g.ante = h.ante
      /\ g.total = [h.total EXCEPT ![i] = h.total[i] + n]
      /\ g.pot = h.pot + n /\ g.staked = h.staked
  BY <1>0, <1>01
<1> HIDE DEF g
<1>4. /\ Total(g.chips, N) = Total(h.chips, N) - n /\ Total(h.chips, N) \in Int
      /\ Total(g.total, N) = Total(h.total, N) + n /\ Total(h.total, N) \in Int
  <2> DEFINE c == h.chips[i] - n
             t == h.total[i] + n
  <2>1. c \in Nat /\ t \in Nat
    BY <1>2
  <2>2. g.chips = [h.chips EXCEPT ![i] = c] /\ g.total = [h.total EXCEPT ![i] = t]
    BY <1>3
  <2> HIDE DEF c, t
  <2>3. h.chips \in [Seat -> Nat] /\ h.total \in [Seat -> Nat]
    BY <1>1
  <2>4. /\ Total([h.chips EXCEPT ![i] = c], N) = Total(h.chips, N) - h.chips[i] + c
        /\ Total(h.chips, N) \in Int
    BY <2>1, <2>3, OneChanges
  <2>5. /\ Total([h.total EXCEPT ![i] = t], N) = Total(h.total, N) - h.total[i] + t
        /\ Total(h.total, N) \in Int
    BY <2>1, <2>3, OneChanges
  <2> QED
    BY <1>2, <2>2, <2>4, <2>5 DEF c, t
<1>5. Total(h.ante, N) \in Int
  BY <1>1, OneChanges, Constants
<1>6. h.pot = Total(h.total, N) + Total(h.ante, N) /\ Total(h.chips, N) + h.pot = h.staked
  BY DEF Whole
<1>7. Whole(g)
  <2> DEFINE A == Total(h.ante, N)
             T == Total(h.total, N)
             C == Total(h.chips, N)
  <2>1. g.pot = h.pot + n /\ Total(g.total, N) = T + n /\ Total(g.ante, N) = A
        /\ Total(g.chips, N) = C - n /\ g.staked = h.staked
    BY <1>3, <1>4
  <2>2. h.pot = T + A /\ C + h.pot = h.staked /\ A \in Int /\ T \in Int /\ C \in Int
    BY <1>4, <1>5, <1>6
  <2> HIDE DEF A, T, C
  <2> QED
    BY <1>1, <1>2, <2>1, <2>2 DEF Whole
<1> QED
  BY <1>7 DEF g

\* A forced bet.
LEMMA PostedIs ==
  ASSUME NEW h \in HandSet, NEW i \in Seat, NEW n \in Nat
  PROVE  \E m \in 0..h.chips[i] : Posted(h, i, n) = Put(h, i, m) /\ m <= n
<1>1. h.chips[i] \in Nat
  BY DEF HandSet
<1>2. Lesser(n, h.chips[i]) \in 0..h.chips[i] /\ Lesser(n, h.chips[i]) <= n
  BY <1>1, Least
<1> QED
  BY <1>2 DEF Posted

-----------------------------------------------------------------------------
(* The answers *)

LEMMA BetUnitIs ==
  ASSUME NEW h \in HandSet, hand.game \in DOMAIN Rules
  PROVE  BetUnit(h) \in Nat \ {0}
<1>1. Stud \in BOOLEAN /\ Limit \in {"no", "pot", "fixed"}
  BY GameIs
<1>2. 2 * BigBlind \in Nat \ {0} /\ BigBlind \in Nat \ {0}
  BY Constants
<1> QED
  BY <1>1, <1>2 DEF BetUnit

\* The least raise is above what the others have matched, and the most allowed
\* lets it be made.
LEMMA LimitsAre ==
  ASSUME NEW h \in HandSet, NEW i \in Seat, hand.game \in DOMAIN Rules, Matched(h)
  PROVE  /\ MinTo(h) \in Nat /\ MinTo(h) >= h.price /\ MaxTo(h, i) \in Nat
         /\ h.bet[i] + h.chips[i] >= MinTo(h) => MaxTo(h, i) >= MinTo(h)
<1>1. /\ h.price \in Nat /\ h.bet[i] \in Nat /\ h.chips[i] \in Nat /\ h.minRaise \in Nat
      /\ h.pot \in Nat /\ h.bet[i] <= h.price
  BY HandIs DEF Matched
<1>2. BetUnit(h) \in Nat \ {0} /\ Limit \in {"no", "pot", "fixed"}
  BY BetUnitIs, GameIs
<1>3. MinTo(h) \in Nat /\ MinTo(h) >= h.price
  <2>1. CASE Limit = "fixed"
    <3> DEFINE u == BetUnit(h)
               q == h.price \div u
               r == h.price % u
    <3>1. u \in Nat \ {0}
      BY <1>2
    <3> HIDE DEF u
    <3>2. q \in Nat /\ r \in 0..(u - 1) /\ h.price = u * q + r
      BY <1>1, <3>1
    <3>3. MinTo(h) = (q + 1) * u
      BY <2>1 DEF MinTo, u
    <3> HIDE DEF q, r
    <3>4. (q + 1) * u = u * q + u /\ u * q \in Nat
      BY <3>1, <3>2
    <3> QED
      BY <1>1, <3>1, <3>2, <3>3, <3>4
  <2>2. CASE Limit # "fixed"
    BY <1>1, <2>2 DEF MinTo
  <2> QED
    BY <2>1, <2>2
<1> DEFINE m == MinTo(h)
           all == h.bet[i] + h.chips[i]
           x == h.price + h.pot + Greater(0, ToCall(h, i))
<1>4. ToCall(h, i) \in Nat
  BY <1>1 DEF ToCall
<1>5. Greater(0, ToCall(h, i)) \in Nat
  BY <1>4, Least
<1>6. x \in Nat /\ all \in Nat /\ m \in Nat
  BY <1>1, <1>3, <1>5
<1>7. MaxTo(h, i) = CASE Limit = "fixed" -> m
                      [] Limit = "pot" -> Lesser(all, Greater(m, x))
                      [] Limit = "no" -> all
  BY DEF MaxTo
<1> HIDE DEF m, all, x
<1>8. MaxTo(h, i) \in Nat /\ (all >= m => MaxTo(h, i) >= m)
  BY <1>2, <1>6, <1>7 DEF Lesser, Greater
<1> QED
  BY <1>3, <1>8 DEF m, all

\* What i's answer leaves: a whole hand, in which only i's stack has moved.
Kept(g, h, i) ==
  /\ g \in HandSet /\ SameHand(g, h) /\ Whole(g) /\ Matched(g)
  /\ \A j \in Seat \ {i} : g.chips[j] = h.chips[j]

\* Chips up to the price.
LEMMA PutKept ==
  ASSUME NEW h \in HandSet, NEW i \in Seat, NEW n \in 0..h.chips[i],
         Whole(h), Matched(h), h.bet[i] + n <= h.price
  PROVE  Kept(Put(h, i, n), h, i)
<1>1. Whole(Put(h, i, n))
  BY PutWhole
<1>2. /\ Put(h, i, n) \in HandSet /\ SameHand(Put(h, i, n), h)
      /\ Put(h, i, n).chips = [h.chips EXCEPT ![i] = h.chips[i] - n]
      /\ Put(h, i, n).bet = [h.bet EXCEPT ![i] = h.bet[i] + n]
      /\ Put(h, i, n).price = h.price
  BY PutIs, ZenonT(60)
<1>3. h.chips \in [Seat -> Nat] /\ h.bet \in [Seat -> Nat]
  BY HandIs
<1>4. Matched(Put(h, i, n))
  BY <1>2, <1>3 DEF Matched
<1>5. \A j \in Seat \ {i} : Put(h, i, n).chips[j] = h.chips[j]
  BY <1>2, <1>3
<1> QED
  BY <1>1, <1>2, <1>4, <1>5 DEF Kept

\* Chips past the price, which moves with them.
LEMMA RaiseKept ==
  ASSUME NEW h \in HandSet, NEW i \in Seat, NEW n \in 0..h.chips[i],
         Whole(h), Matched(h), h.bet[i] + n >= h.price,
         NEW w \in Nat, NEW m \in Nat, NEW s \in Seat
  PROVE  Kept([Put(h, i, n) EXCEPT !.price = h.bet[i] + n, !.raiser = s, !.raises = w,
                                   !.minRaise = m], h, i)
<1>1. Whole(Put(h, i, n))
  BY PutWhole
<1>2. /\ Put(h, i, n) \in HandSet /\ SameHand(Put(h, i, n), h)
      /\ Put(h, i, n).chips = [h.chips EXCEPT ![i] = h.chips[i] - n]
      /\ Put(h, i, n).bet = [h.bet EXCEPT ![i] = h.bet[i] + n]
  BY PutIs, ZenonT(60)
<1>3. h.chips \in [Seat -> Nat] /\ h.bet \in [Seat -> Nat] /\ h.price \in Nat
  BY HandIs
<1> DEFINE g == Put(h, i, n)
           p == h.bet[i] + n
           f == [g EXCEPT !.price = p, !.raiser = s, !.raises = w, !.minRaise = m]
<1>4. g \in HandSet /\ p \in Nat /\ Whole(g) /\ SameHand(g, h)
  BY <1>1, <1>2, <1>3
<1>5. g.chips = [h.chips EXCEPT ![i] = h.chips[i] - n] /\ g.bet = [h.bet EXCEPT ![i] = p]
  BY <1>2
<1>6. \A j \in Seat : h.bet[j] <= p
  BY <1>3 DEF Matched
<1> HIDE DEF g, p
<1>7. f \in HandSet
  <2> DEFINE y == [[g EXCEPT !.price = p] EXCEPT !.raiser = s]
  <2>1. y \in HandSet
    BY <1>4, OneField
  <2>2. [[y EXCEPT !.raises = w] EXCEPT !.minRaise = m] \in HandSet
    <3> HIDE DEF y
    <3> QED
      BY <2>1, OneField
  <2>3. f = [[y EXCEPT !.raises = w] EXCEPT !.minRaise = m]
    BY <1>4 DEF HandSet
  <2> QED
    BY <2>2, <2>3
<1>8. /\ f.chips = g.chips /\ f.bet = g.bet /\ f.total = g.total /\ f.ante = g.ante
      /\ f.pot = g.pot /\ f.staked = g.staked /\ f.price = p
  BY <1>4 DEF HandSet
<1>9. SameHand(f, h)
  BY <1>4 DEF HandSet, SameHand
<1> HIDE DEF f
<1>10. Whole(f)
  BY <1>4, <1>8 DEF Whole
<1>11. Matched(f)
  BY <1>3, <1>4, <1>5, <1>6, <1>8 DEF Matched
<1>12. \A j \in Seat \ {i} : f.chips[j] = h.chips[j]
  BY <1>3, <1>5, <1>8
<1>13. Kept(f, h, i)
  BY <1>7, <1>9, <1>10, <1>11, <1>12 DEF Kept
<1> QED
  BY <1>13 DEF f, g, p

LEMMA CalledKept ==
  ASSUME NEW h \in HandSet, NEW i \in Seat, Whole(h), Matched(h)
  PROVE  Kept(Called(h, i), h, i)
<1>1. h.chips \in [Seat -> Nat] /\ h.bet \in [Seat -> Nat] /\ h.price \in Nat
  BY HandIs
<1>2. CASE ToCall(h, i) <= 0
  BY <1>2 DEF Called, Kept, SameHand
<1>3. CASE ~(ToCall(h, i) <= 0)
  <2> DEFINE n == Lesser(ToCall(h, i), h.chips[i])
  <2>1. ToCall(h, i) = h.price - h.bet[i] /\ ToCall(h, i) \in Nat /\ h.chips[i] \in Nat
        /\ h.bet[i] \in Nat
    BY <1>1, <1>3 DEF ToCall
  <2>2. n \in 0..h.chips[i] /\ h.bet[i] + n <= h.price
    BY <1>1, <2>1 DEF Lesser
  <2>3. Called(h, i) = Put(h, i, n)
    BY <1>3 DEF Called
  <2> HIDE DEF n
  <2> QED
    BY <2>2, <2>3, PutKept
<1> QED
  BY <1>2, <1>3

LEMMA ShovedKept ==
  ASSUME NEW h \in HandSet, NEW i \in Seat, Whole(h), Matched(h), hand.game \in DOMAIN Rules
  PROVE  Kept(Shoved(h, i), h, i)
<1>1. /\ h.chips \in [Seat -> Nat] /\ h.bet \in [Seat -> Nat] /\ h.price \in Nat
      /\ h.minRaise \in Nat
  BY HandIs
<1> DEFINE n == h.chips[i]
           p == h.bet[i] + n
           g == Put(h, i, n)
           more == p - h.price
           u == Greater(BetUnit(h), more)
<1>2. n \in 0..h.chips[i] /\ n \in Nat /\ p \in Nat
  BY <1>1
<1>3. g \in HandSet /\ g.bet = [h.bet EXCEPT ![i] = h.bet[i] + n]
  BY <1>2, PutIs, ZenonT(60)
<1>4. g.bet[i] = p /\ g.raiser \in Seat /\ g.raises \in Nat /\ g.minRaise \in Nat
  BY <1>1, <1>3, HandIs
<1>5. Shoved(h, i) = IF more <= 0 THEN g
                     ELSE IF more < h.minRaise THEN [g EXCEPT !.price = p]
                     ELSE [g EXCEPT !.price = p, !.raiser = i, !.minRaise = u]
  BY <1>4 DEF Shoved
<1>6. CASE more <= 0
  <2>1. h.bet[i] + n <= h.price
    BY <1>1, <1>2, <1>6
  <2> QED
    BY <1>2, <1>5, <1>6, <2>1, PutKept
<1>7. CASE ~(more <= 0)
  <2>1. h.bet[i] + n >= h.price /\ more \in Int
    BY <1>1, <1>2, <1>7
  <2>2. u \in Nat
    BY <2>1, <1>7, BetUnitIs, Least
  <2>3. CASE more < h.minRaise
    <3>1. Kept([Put(h, i, n) EXCEPT !.price = h.bet[i] + n, !.raiser = g.raiser,
                  !.raises = g.raises, !.minRaise = g.minRaise], h, i)
      BY <1>2, <1>4, <2>1, RaiseKept
    <3>2. [g EXCEPT !.price = p]
            = [g EXCEPT !.price = p, !.raiser = g.raiser, !.raises = g.raises,
                        !.minRaise = g.minRaise]
      <4> HIDE DEF g, p
      <4> QED
        BY <1>3 DEF HandSet
    <3> QED
      BY <1>5, <1>7, <2>3, <3>1, <3>2
  <2>4. CASE ~(more < h.minRaise)
    <3>1. Kept([Put(h, i, n) EXCEPT !.price = h.bet[i] + n, !.raiser = i,
                  !.raises = g.raises, !.minRaise = u], h, i)
      BY <1>2, <1>4, <2>1, <2>2, RaiseKept
    <3>2. [g EXCEPT !.price = p, !.raiser = i, !.minRaise = u]
            = [g EXCEPT !.price = p, !.raiser = i, !.raises = g.raises, !.minRaise = u]
      <4> HIDE DEF g, p, u
      <4> QED
        BY <1>3 DEF HandSet
    <3> QED
      BY <1>5, <1>7, <2>4, <3>1, <3>2
  <2> QED
    BY <2>3, <2>4
<1> QED
  BY <1>6, <1>7

LEMMA RaisedToKept ==
  ASSUME NEW h \in HandSet, NEW i \in Seat, NEW x \in Int, Whole(h), Matched(h),
         hand.game \in DOMAIN Rules
  PROVE  Kept(RaisedTo(h, i, x), h, i)
<1>1. /\ h.chips[i] \in Nat /\ h.bet[i] \in Nat /\ h.price \in Nat /\ h.raises \in Nat
      /\ h.bet[i] <= h.price
  BY HandIs DEF Matched
<1>2. /\ MinTo(h) \in Nat /\ MinTo(h) >= h.price /\ MaxTo(h, i) \in Nat
      /\ (h.bet[i] + h.chips[i] >= MinTo(h) => MaxTo(h, i) >= MinTo(h))
  BY LimitsAre
<1> DEFINE reach == h.bet[i] + h.chips[i]
           to == Lesser(Lesser(Greater(x, MinTo(h)), MaxTo(h, i)), reach)
           n == to - h.bet[i]
           g == Put(h, i, n)
           u == Greater(BetUnit(h), to - h.price)
<1>3. CASE Capped(h) \/ reach <= h.price
  <2>1. RaisedTo(h, i, x) = Called(h, i)
    BY <1>3 DEF RaisedTo
  <2> QED
    BY <2>1, CalledKept
<1>4. CASE ~(Capped(h) \/ reach <= h.price) /\ reach < MinTo(h)
  <2>1. RaisedTo(h, i, x) = Shoved(h, i)
    BY <1>4 DEF RaisedTo
  <2> QED
    BY <2>1, ShovedKept
<1>5. CASE ~(Capped(h) \/ reach <= h.price) /\ ~(reach < MinTo(h))
  <2>1. RaisedTo(h, i, x) = [g EXCEPT !.price = to, !.raiser = i, !.raises = @ + 1,
                                      !.minRaise = u]
    BY <1>5 DEF RaisedTo
  <2>2. to \in Nat /\ to >= MinTo(h) /\ to <= reach
    BY <1>1, <1>2, <1>5 DEF Lesser, Greater
  <2> HIDE DEF to
  <2>3. n \in 0..h.chips[i] /\ h.bet[i] + n = to /\ h.bet[i] + n >= h.price
    BY <1>1, <1>2, <2>2
  <2>4. BetUnit(h) \in Int /\ BetUnit(h) >= 0 /\ to - h.price \in Int
    BY <1>1, <2>2, BetUnitIs
  <2>5. u \in Nat
    BY <2>4, Least
  <2>6. g.raises = h.raises /\ g \in HandSet
    BY <2>3, PutIs
  <2>7. h.raises + 1 \in Nat
    BY <1>1
  <2>8. Kept([Put(h, i, n) EXCEPT !.price = h.bet[i] + n, !.raiser = i,
                !.raises = h.raises + 1, !.minRaise = u], h, i)
    BY <2>3, <2>5, <2>7, RaiseKept
  <2>9. RaisedTo(h, i, x) = [g EXCEPT !.price = to, !.raiser = i, !.raises = h.raises + 1,
                                      !.minRaise = u]
    BY <2>1, <2>6
  <2> QED
    BY <2>3, <2>8, <2>9
<1> QED
  BY <1>3, <1>4, <1>5

\* Whatever is answered, the hand stays whole and no other stack moves.
LEMMA AnswerKept ==
  ASSUME NEW h \in HandSet, NEW i \in Seat, NEW a \in Actions, NEW g \in Answers(h, i, a),
         Whole(h), Matched(h), hand.game \in DOMAIN Rules
  PROVE  Kept(g, h, i)
<1>1. MaxTo(h, i) \in Int /\ MinTo(h) \in Int
  BY LimitsAre
<1>2. Kept(AllIn(h, i), h, i)
  BY <1>1, RaisedToKept, ShovedKept DEF AllIn
<1>3. Kept(Called(h, i), h, i)
  BY CalledKept
<1>4. Kept(h, h, i)
  BY DEF Kept, SameHand
<1>5. Kept([h EXCEPT !.folded = h.folded \union {i}], h, i)
  <2> DEFINE F == h.folded \union {i}
             f == [h EXCEPT !.folded = F]
  <2>1. F \in SUBSET Seat
    BY HandIs
  <2> HIDE DEF F
  <2>2. f \in HandSet
    BY <2>1, OneField
  <2>3. /\ f.chips = h.chips /\ f.bet = h.bet /\ f.total = h.total /\ f.ante = h.ante
        /\ f.pot = h.pot /\ f.staked = h.staked /\ f.price = h.price /\ SameHand(f, h)
    BY DEF HandSet, SameHand
  <2> HIDE DEF f
  <2>4. Kept(f, h, i)
    BY <2>2, <2>3 DEF Kept, Whole, Matched
  <2> QED
    BY <2>4 DEF F, f
<1>6. \A x \in Int : Kept(RaisedTo(h, i, x), h, i)
  BY RaisedToKept
<1>7. CASE a = "fold"
  BY <1>5, <1>7 DEF Answers
<1>8. CASE a = "check"
  BY <1>4, <1>8 DEF Answers
<1>9. CASE a \notin {"fold", "check"} /\ g = Called(h, i)
  BY <1>3, <1>9
<1>10. CASE a \notin {"fold", "check"} /\ g # Called(h, i)
  <2>1. a \in {"allin", "raise"} /\ ~(CanAct(h) \subseteq {i})
    BY <1>10 DEF Answers, Actions
  <2>2. CASE a = "allin"
    BY <1>2, <2>1, <2>2 DEF Answers
  <2>3. CASE a = "raise"
    <3>1. PICK x \in MinTo(h)..Greater(MinTo(h), MaxTo(h, i)) : g = RaisedTo(h, i, x)
      BY <2>1, <2>3 DEF Answers
    <3>2. x \in Int
      OBVIOUS
    <3> QED
      BY <1>6, <3>1, <3>2
  <2> QED
    BY <2>1, <2>2, <2>3
<1> QED
  BY <1>7, <1>8, <1>9, <1>10

-----------------------------------------------------------------------------
(* Where the turn goes *)

\* A hand as it stands between two handlers, or while one of them runs.
Standing(h) ==
  /\ h \in HandSet /\ h.game = hand.game /\ InStreets(h)
  /\ h.on => Whole(h) /\ Matched(h)
  /\ ~h.on /\ ~Overfolded(h) => Total(h.chips, N) = h.staked

Richer(g, h) == \A i \in Seat : g.chips[i] >= h.chips[i]

LEMMA CurMoves ==
  ASSUME NEW h, Standing(h), NEW s \in Seat
  PROVE  Standing([h EXCEPT !.cur = s]) /\ Richer([h EXCEPT !.cur = s], h)
<1> DEFINE g == [h EXCEPT !.cur = s]
<1>1. h \in HandSet
  BY DEF Standing
<1>2. g \in HandSet
  BY <1>1, OneField
<1>3. /\ g.chips = h.chips /\ g.bet = h.bet /\ g.total = h.total /\ g.ante = h.ante
      /\ g.pot = h.pot /\ g.staked = h.staked /\ g.price = h.price /\ g.on = h.on
      /\ g.beat = h.beat /\ g.street = h.street /\ g.folded = h.folded /\ g.game = h.game
  BY <1>1 DEF HandSet
<1> HIDE DEF g
<1>4. Overfolded(g) <=> Overfolded(h)
  BY <1>3 DEF Overfolded, Live
<1>5. /\ (Whole(h) => Whole(g)) /\ (Matched(h) => Matched(g)) /\ (InStreets(h) => InStreets(g))
  BY <1>3 DEF Whole, Matched, InStreets
<1>6. Standing(g)
  BY <1>2, <1>3, <1>4, <1>5 DEF Standing
<1>7. \A i \in Seat : h.chips[i] \in Nat
  BY <1>1, HandIs
<1>8. Richer(g, h)
  BY <1>3, <1>7 DEF Richer
<1> QED
  BY <1>6, <1>8 DEF g

LEMMA PhaseEnds ==
  ASSUME NEW h, Standing(h), hand.game \in DOMAIN Rules
  PROVE  /\ Standing(NextPhase(h)) /\ Richer(NextPhase(h), h) /\ NextPhase(h).on = h.on
         /\ NextPhase(h).beat # "now"
<1> DEFINE b == IF h.street = Len(Streets) THEN "show" ELSE "open"
           g == [h EXCEPT !.beat = b]
<1>1. h \in HandSet /\ b \in Beats /\ b # "now"
  BY DEF Standing, Beats
<1>2. b = "open" => h.street # Len(Streets)
  OBVIOUS
<1>3. NextPhase(h) = g
  BY DEF NextPhase
<1> HIDE DEF b
<1>4. g \in HandSet
  BY <1>1, OneField
<1>5. /\ g.chips = h.chips /\ g.bet = h.bet /\ g.total = h.total /\ g.ante = h.ante
      /\ g.pot = h.pot /\ g.staked = h.staked /\ g.price = h.price /\ g.on = h.on
      /\ g.beat = b /\ g.street = h.street /\ g.folded = h.folded /\ g.game = h.game
  BY <1>1 DEF HandSet
<1> HIDE DEF g
<1>6. Overfolded(g) <=> Overfolded(h)
  BY <1>5 DEF Overfolded, Live
<1>7. (Whole(h) => Whole(g)) /\ (Matched(h) => Matched(g))
  BY <1>5 DEF Whole, Matched
<1>8. h.street \in Nat /\ Len(Streets) \in Nat
  BY <1>1, HandIs, GameIs
<1>9. InStreets(g)
  BY <1>2, <1>5, <1>8 DEF Standing, InStreets
<1>10. Standing(g)
  BY <1>4, <1>5, <1>6, <1>7, <1>9 DEF Standing
<1>11. \A i \in Seat : h.chips[i] \in Nat
  BY <1>1, HandIs
<1>12. Richer(g, h)
  BY <1>5, <1>11 DEF Richer
<1> QED
  BY <1>1, <1>3, <1>5, <1>10, <1>12

\* The last one in takes the pot.
LEMMA FoldedOutStands ==
  ASSUME NEW h, Standing(h), h.on, Cardinality(Live(h)) = 1
  PROVE  Standing(FoldedOut(h)) /\ Richer(FoldedOut(h), h) /\ ~FoldedOut(h).on
         /\ FoldedOut(h).beat = h.beat
<1> DEFINE c == [i \in Seat |-> IF i \in Live(h) THEN h.chips[i] + h.pot ELSE h.chips[i]]
           g == [h EXCEPT !.on = FALSE, !.pot = 0, !.chips = c]
<1>1. h \in HandSet /\ Whole(h)
  BY DEF Standing
<1>2. FoldedOut(h) = g
  BY DEF FoldedOut
<1>3. h.chips \in [Seat -> Nat] /\ h.pot \in Nat /\ h.staked \in Nat /\ h.total \in [Seat -> Nat]
      /\ h.ante \in [Seat -> Nat]
  BY <1>1, HandIs
<1>4. c \in [Seat -> Nat]
  BY <1>3
<1>5. PICK s : Live(h) = {s}
  BY <1>1, SomeSeats, FS_Singleton
<1>6. s \in Seat
  BY <1>5 DEF Live
<1>7. c = [h.chips EXCEPT ![s] = h.chips[s] + h.pot]
  BY <1>3, <1>5, <1>6
<1>8. h.chips[s] \in Nat /\ h.chips[s] + h.pot \in Nat
  BY <1>3, <1>6
<1>9. Total(c, N) = h.staked
  <2> DEFINE v == h.chips[s] + h.pot
  <2>1. v \in Nat /\ c = [h.chips EXCEPT ![s] = v]
    BY <1>7, <1>8
  <2> HIDE DEF v, c
  <2>2. Total(c, N) = Total(h.chips, N) - h.chips[s] + v /\ Total(h.chips, N) \in Int
    BY <1>3, <1>6, <2>1, OneChanges
  <2>3. Total(h.chips, N) + h.pot = h.staked
    BY <1>1 DEF Whole
  <2> QED
    BY <1>3, <1>8, <2>2, <2>3 DEF v
<1>10. Richer(g, h)
  BY <1>1, <1>3 DEF Richer, HandSet
<1> HIDE DEF c
<1>11. g \in HandSet
  <2>1. [[h EXCEPT !.pot = 0] EXCEPT !.chips = c] \in HandSet
    BY <1>1, <1>4, OneField
  <2>2. [[[h EXCEPT !.pot = 0] EXCEPT !.chips = c] EXCEPT !.on = FALSE] \in HandSet
    BY <2>1, OneField
  <2>3. g = [[[h EXCEPT !.pot = 0] EXCEPT !.chips = c] EXCEPT !.on = FALSE]
    BY <1>1 DEF HandSet
  <2> QED
    BY <2>2, <2>3
<1>12. /\ g.chips = c /\ g.staked = h.staked /\ g.on = FALSE /\ g.beat = h.beat
       /\ g.street = h.street /\ g.game = h.game
  BY <1>1 DEF HandSet
<1> HIDE DEF g
<1>13. InStreets(g)
  BY <1>12 DEF Standing, InStreets
<1>14. Standing(g)
  BY <1>9, <1>11, <1>12, <1>13 DEF Standing
<1> QED
  BY <1>2, <1>10, <1>12, <1>14

LEMMA AdvanceStands ==
  ASSUME NEW h, Standing(h), h.on, h.beat # "now", hand.game \in DOMAIN Rules
  PROVE  Standing(Advance(h)) /\ Richer(Advance(h), h) /\ Advance(h).beat # "now"
<1>1. h \in HandSet
  BY DEF Standing
<1>2. WalkStop(h) \in Seat
  BY <1>1, WalkStops
<1>3. CASE Cardinality(Live(h)) = 1
  BY <1>3, FoldedOutStands DEF Advance
<1>4. CASE Cardinality(Live(h)) # 1
  <2> DEFINE alone == \E i \in CanAct(h) : CanAct(h) = {i} /\ h.bet[i] >= h.price
             i == CHOOSE i \in CanAct(h) : TRUE
  <2>1. alone => i \in Seat
    BY <1>1, SomeSeats
  <2>2. Advance(h) \in {NextPhase(h), [h EXCEPT !.cur = WalkStop(h)]}
                         \union (IF alone THEN {[h EXCEPT !.cur = i]} ELSE {})
    BY <1>4 DEF Advance
  <2> HIDE DEF alone, i
  <2>3. CASE Advance(h) = NextPhase(h)
    BY <2>3, PhaseEnds
  <2>4. CASE Advance(h) = [h EXCEPT !.cur = WalkStop(h)]
    <3>1. [h EXCEPT !.cur = WalkStop(h)].beat = h.beat
      BY <1>1 DEF HandSet
    <3> QED
      BY <1>2, <2>4, <3>1, CurMoves
  <2>5. CASE alone /\ Advance(h) = [h EXCEPT !.cur = i]
    <3>1. [h EXCEPT !.cur = i].beat = h.beat
      BY <1>1 DEF HandSet
    <3> QED
      BY <2>1, <2>5, <3>1, CurMoves
  <2> QED
    BY <2>2, <2>3, <2>4, <2>5
<1> QED
  BY <1>3, <1>4

\* An answer, and then wherever the turn goes.
LEMMA AnsweredStands ==
  ASSUME NEW h, Standing(h), h.on, h.beat # "now", NEW i \in Seat, NEW g, Kept(g, h, i),
         hand.game \in DOMAIN Rules
  PROVE  Standing(Answered(g, i)) /\ Richer(Answered(g, i), g) /\ Answered(g, i).beat # "now"
<1> DEFINE A == g.acted \union {i}
           x == [g EXCEPT !.acted = A]
<1>1. g \in HandSet /\ SameHand(g, h) /\ Whole(g) /\ Matched(g)
  BY DEF Kept
<1>2. A \in SUBSET Seat
  BY <1>1, HandIs
<1>3. Answered(g, i) = Advance(x)
  BY DEF Answered
<1> HIDE DEF A
<1>4. x \in HandSet
  BY <1>1, <1>2, OneField
<1>5. /\ x.chips = g.chips /\ x.bet = g.bet /\ x.total = g.total /\ x.ante = g.ante
      /\ x.pot = g.pot /\ x.staked = g.staked /\ x.price = g.price /\ x.on = g.on
      /\ x.beat = g.beat /\ x.street = g.street /\ x.game = g.game
  BY <1>1 DEF HandSet
<1> HIDE DEF x
<1>6. x.on = h.on /\ x.beat = h.beat /\ x.street = h.street /\ x.game = h.game
  BY <1>1, <1>5 DEF SameHand
<1>7. Whole(x) /\ Matched(x)
  BY <1>1, <1>5 DEF Whole, Matched
<1>8. InStreets(x)
  BY <1>6 DEF Standing, InStreets
<1>9. Standing(x) /\ x.on /\ x.beat # "now"
  BY <1>4, <1>6, <1>7, <1>8 DEF Standing
<1>10. Standing(Advance(x)) /\ Richer(Advance(x), x) /\ Advance(x).beat # "now"
  BY <1>9, AdvanceStands
<1> QED
  BY <1>3, <1>5, <1>10 DEF Richer

\* Only the bets, whose turn it is and where the streets are: what leaves the
\* money alone.
SameMoney(g, h) ==
  /\ g.game = h.game /\ g.chips = h.chips /\ g.total = h.total /\ g.ante = h.ante
  /\ g.pot = h.pot /\ g.staked = h.staked /\ g.on = h.on /\ g.folded = h.folded

LEMMA MoneyStands ==
  ASSUME NEW g \in HandSet, NEW h, Standing(h), SameMoney(g, h), Matched(g), InStreets(g)
  PROVE  Standing(g) /\ Richer(g, h)
<1>1. h \in HandSet
  BY DEF Standing
<1>2. (Whole(h) => Whole(g)) /\ (Overfolded(h) <=> Overfolded(g))
  BY DEF SameMoney, Whole, Overfolded, Live
<1>3. Standing(g)
  BY <1>2 DEF Standing, SameMoney
<1>4. \A i \in Seat : h.chips[i] \in Nat
  BY <1>1, HandIs
<1> QED
  BY <1>3, <1>4 DEF Richer, SameMoney

LEMMA DrawStands ==
  ASSUME NEW h, Standing(h), h.on, h.beat # "now", hand.game \in DOMAIN Rules
  PROVE  Standing(AdvanceDraw(h)) /\ Richer(AdvanceDraw(h), h) /\ AdvanceDraw(h).beat # "now"
<1> DEFINE next == NextInHand(h, h.cur)
           g == [h EXCEPT !.drawing = FALSE, !.first = None]
<1>1. h \in HandSet /\ Matched(h) /\ InStreets(h)
  BY DEF Standing
<1>2. next \in Seat
  BY <1>1, HandIs, SomeSeats
<1>3. CASE next = h.first
  <2>1. g \in HandSet
    <3>1. [h EXCEPT !.drawing = FALSE] \in HandSet
      BY <1>1, OneField
    <3>2. [[h EXCEPT !.drawing = FALSE] EXCEPT !.first = None] \in HandSet
      BY <3>1, OneField
    <3>3. g = [[h EXCEPT !.drawing = FALSE] EXCEPT !.first = None]
      BY <1>1 DEF HandSet
    <3> QED
      BY <3>2, <3>3
  <2>2. SameMoney(g, h) /\ g.bet = h.bet /\ g.price = h.price /\ g.beat = h.beat
        /\ g.street = h.street
    BY <1>1 DEF HandSet, SameMoney
  <2>3. AdvanceDraw(h) = NextPhase(g)
    BY <1>3 DEF AdvanceDraw
  <2> HIDE DEF g
  <2>4. Matched(g) /\ InStreets(g)
    BY <1>1, <2>2 DEF Matched, InStreets
  <2>5. Standing(g) /\ Richer(g, h)
    BY <2>1, <2>2, <2>4, MoneyStands
  <2>6. Standing(NextPhase(g)) /\ Richer(NextPhase(g), g) /\ NextPhase(g).beat # "now"
    BY <2>5, PhaseEnds
  <2>7. g.chips = h.chips
    BY <2>2 DEF SameMoney
  <2> QED
    BY <2>3, <2>6, <2>7 DEF Richer
<1>4. CASE next # h.first
  <2>1. AdvanceDraw(h) = [h EXCEPT !.cur = next]
    BY <1>4 DEF AdvanceDraw
  <2>2. [h EXCEPT !.cur = next].beat = h.beat
    BY <1>1 DEF HandSet
  <2> HIDE DEF next
  <2> QED
    BY <1>2, <2>1, <2>2, CurMoves
<1> QED
  BY <1>3, <1>4

LEMMA StreetStands ==
  ASSUME NEW h, Standing(h), h.street < Len(Streets), NEW o \in OpenedStreets(h),
         hand.game \in DOMAIN Rules
  PROVE  Standing(o) /\ SameMoney(o, h) /\ o.beat # "open"
<1>1. h \in HandSet /\ h.street \in Nat \ {0} /\ Len(Streets) \in Nat
  BY HandIs, GameIs DEF Standing
<1> DEFINE k == h.street + 1
           g == [h EXCEPT !.beat = "none", !.bet = Zero, !.acted = {}, !.price = 0, !.raises = 0,
                          !.street = k]
           u == BetUnit(g)
           s == [g EXCEPT !.minRaise = u]
           OK(x) == /\ x \in HandSet /\ SameMoney(x, h) /\ x.bet = Zero /\ x.price = 0
                    /\ x.street = k
<1>2. k \in Nat \ {0} /\ k <= Len(Streets)
  BY <1>1
<1> HIDE DEF k
<1>3. g \in HandSet
  <2> DEFINE y == [[[h EXCEPT !.beat = "none"] EXCEPT !.bet = Zero] EXCEPT !.acted = {}]
  <2>1. y \in HandSet
    <3>1. "none" \in Beats /\ Zero \in [Seat -> Nat] /\ {} \in SUBSET Seat
      BY ZeroIs DEF Beats
    <3>2. [[h EXCEPT !.beat = "none"] EXCEPT !.bet = Zero] \in HandSet
      BY <1>1, <3>1, OneField
    <3> QED
      BY <3>1, <3>2, OneField
  <2>2. [[[y EXCEPT !.price = 0] EXCEPT !.raises = 0] EXCEPT !.street = k] \in HandSet
    <3> HIDE DEF y
    <3>1. [[y EXCEPT !.price = 0] EXCEPT !.raises = 0] \in HandSet
      BY <2>1, OneField
    <3> QED
      BY <1>2, <3>1, OneField
  <2>3. g = [[[y EXCEPT !.price = 0] EXCEPT !.raises = 0] EXCEPT !.street = k]
    BY <1>1 DEF HandSet
  <2> QED
    BY <2>2, <2>3
<1>4. g.bet = Zero /\ g.price = 0 /\ g.street = k /\ g.beat = "none"
  BY <1>1 DEF HandSet
<1>5. SameMoney(g, h)
  BY <1>1 DEF HandSet, SameMoney
<1>6. OpenedStreets(h) =
        IF Streets[s.street] = "draw" THEN {StartDraw(s)}
        ELSE {LET o1 == [s EXCEPT !.cur = c, !.raiser = c] IN
              IF Cardinality(CanAct(o1)) > 1 THEN o1
              ELSE IF o1.street < Len(Streets) THEN [o1 EXCEPT !.beat = "run"]
              ELSE [o1 EXCEPT !.beat = "now"] : c \in Openers(s, s.street)}
  BY DEF OpenedStreets, k
<1> HIDE DEF g
<1>7. u \in Nat
  BY <1>3, BetUnitIs
<1> HIDE DEF u
<1>8. OK(s) /\ s.beat = "none"
  <2>1. s \in HandSet
    BY <1>3, <1>7, OneField
  <2>2. s.bet = Zero /\ s.price = 0 /\ s.street = k /\ s.beat = "none"
    BY <1>3, <1>4 DEF HandSet
  <2>3. SameMoney(s, h)
    BY <1>3, <1>5 DEF HandSet, SameMoney
  <2> QED
    BY <2>1, <2>2, <2>3
<1> HIDE DEF s
<1>9. OK(o) /\ o.beat # "open"
  <2>1. CASE Streets[s.street] = "draw"
    <3> DEFINE f == NextInHand(s, Button)
               d == [s EXCEPT !.drawing = TRUE, !.first = f, !.cur = f, !.raiser = f]
    <3>1. f \in Seat
      BY <1>8, Constants, SomeSeats
    <3>2. o = d
      BY <1>6, <2>1 DEF StartDraw
    <3> HIDE DEF f
    <3>3. d \in HandSet
      <4>1. [[s EXCEPT !.drawing = TRUE] EXCEPT !.first = f] \in HandSet
        <5>1. [s EXCEPT !.drawing = TRUE] \in HandSet
          BY <1>8, OneField
        <5> QED
          BY <3>1, <5>1, OneField
      <4>2. [[[[s EXCEPT !.drawing = TRUE] EXCEPT !.first = f] EXCEPT !.cur = f]
                EXCEPT !.raiser = f] \in HandSet
        <5> DEFINE y == [[s EXCEPT !.drawing = TRUE] EXCEPT !.first = f]
        <5> HIDE DEF y
        <5>1. [[y EXCEPT !.cur = f] EXCEPT !.raiser = f] \in HandSet
          <6>1. [y EXCEPT !.cur = f] \in HandSet
            BY <3>1, <4>1, OneField DEF y
          <6> QED
            BY <3>1, <6>1, OneField
        <5> QED
          BY <5>1 DEF y
      <4>3. d = [[[[s EXCEPT !.drawing = TRUE] EXCEPT !.first = f] EXCEPT !.cur = f]
                EXCEPT !.raiser = f]
        BY <1>8 DEF HandSet
      <4> QED
        BY <4>2, <4>3
    <3>4. d.bet = Zero /\ d.price = 0 /\ d.street = k /\ d.beat = "none"
      BY <1>8 DEF HandSet
    <3>5. SameMoney(d, h)
      BY <1>8 DEF HandSet, SameMoney
    <3> QED
      BY <3>2, <3>3, <3>4, <3>5
  <2>2. CASE Streets[s.street] # "draw"
    <3> DEFINE p(c) == [s EXCEPT !.cur = c, !.raiser = c]
    <3> DEFINE shows(c) == IF Cardinality(CanAct(p(c))) > 1 THEN p(c)
                           ELSE IF p(c).street < Len(Streets) THEN [p(c) EXCEPT !.beat = "run"]
                           ELSE [p(c) EXCEPT !.beat = "now"]
    <3>0. OpenedStreets(h) = {shows(c) : c \in Openers(s, s.street)}
      BY <1>6, <2>2
    <3>01. \A c : shows(c) \in {p(c), [p(c) EXCEPT !.beat = "run"], [p(c) EXCEPT !.beat = "now"]}
      OBVIOUS
    <3>1. PICK c \in Openers(s, s.street) :
            o \in {p(c), [p(c) EXCEPT !.beat = "run"], [p(c) EXCEPT !.beat = "now"]}
      <4> HIDE DEF shows, p
      <4> QED
        BY <3>0, <3>01
    <3>2. c \in Seat
      <4>1. Live(s) \subseteq Seat /\ CanAct(s) \subseteq Seat
        BY <1>8, SomeSeats
      <4> QED
        BY <1>8, <4>1, Constants, SomeSeats DEF Openers
    <3> DEFINE q == p(c)
    <3>3. q \in HandSet
      <4>1. [s EXCEPT !.cur = c] \in HandSet
        BY <1>8, <3>2, OneField
      <4>2. [[s EXCEPT !.cur = c] EXCEPT !.raiser = c] \in HandSet
        BY <3>2, <4>1, OneField
      <4>3. q = [[s EXCEPT !.cur = c] EXCEPT !.raiser = c]
        BY <1>8 DEF HandSet
      <4> QED
        BY <4>2, <4>3
    <3>4. q.bet = Zero /\ q.price = 0 /\ q.street = k /\ q.beat = "none"
      BY <1>8 DEF HandSet
    <3>5. SameMoney(q, h)
      BY <1>8 DEF HandSet, SameMoney
    <3>6. o \in {q, [q EXCEPT !.beat = "run"], [q EXCEPT !.beat = "now"]}
      BY <3>1
    <3> HIDE DEF q
    <3>7. \A b \in {"run", "now"} : OK([q EXCEPT !.beat = b]) /\ [q EXCEPT !.beat = b].beat = b
      <4> TAKE b \in {"run", "now"}
      <4>1. [q EXCEPT !.beat = b] \in HandSet
        BY <3>3, OneField DEF Beats
      <4>2. [q EXCEPT !.beat = b].bet = Zero /\ [q EXCEPT !.beat = b].price = 0
            /\ [q EXCEPT !.beat = b].street = k /\ [q EXCEPT !.beat = b].beat = b
        BY <3>3, <3>4 DEF HandSet
      <4>3. SameMoney([q EXCEPT !.beat = b], h)
        BY <3>3, <3>5 DEF HandSet, SameMoney
      <4> QED
        BY <4>1, <4>2, <4>3
    <3> QED
      BY <3>3, <3>4, <3>5, <3>6, <3>7
  <2> QED
    BY <2>1, <2>2
<1>10. Matched(o)
  BY <1>9 DEF Matched, Zero
<1>11. InStreets(o)
  BY <1>2, <1>9 DEF InStreets
<1> QED
  BY <1>9, <1>10, <1>11, MoneyStands

-----------------------------------------------------------------------------
(* The deal *)

LEMMA TotalNat ==
  ASSUME NEW f \in [Seat -> Nat]
  PROVE  Total(f, N) \in Nat
<1> DEFINE S == {n \in Nat : n <= N => Total(f, n) \in Nat}
<1>1. 0 \in S
  BY TotalStep
<1>2. ASSUME NEW n \in Nat, n \in S
      PROVE  n + 1 \in S
  <2>1. n + 1 <= N => n + 1 \in Seat /\ n <= N
    BY Constants DEF Seat
  <2>2. Total(f, n + 1) = Total(f, n) + f[n + 1]
    BY TotalStep
  <2> QED
    BY <1>2, <2>1, <2>2
<1>3. Nat \subseteq S
  <2> HIDE DEF S
  <2> QED
    BY <1>1, <1>2, SetInduction
<1> QED
  BY <1>3, Constants

\* Two amounts a seat that come to as much as two others, seat by seat.
LEMMA HandBalance ==
  \A a, b, c, d \in [1..N -> Int] :
    Balances(a, b, c, d, N) => Total(a, N) + Total(b, N) = Total(c, N) + Total(d, N)
<1>1. N \in Nat
  BY Constants
<1> QED
  BY <1>1, TotalBalance

LEMMA SumsBalance ==
  ASSUME NEW a \in [Seat -> Int], NEW b \in [Seat -> Int], NEW c \in [Seat -> Int],
         NEW d \in [Seat -> Int], \A i \in Seat : a[i] + b[i] = c[i] + d[i]
  PROVE  Total(a, N) + Total(b, N) = Total(c, N) + Total(d, N)
<1>1. a \in [1..N -> Int] /\ b \in [1..N -> Int] /\ c \in [1..N -> Int] /\ d \in [1..N -> Int]
  BY DEF Seat
<1>2. Balances(a, b, c, d, N)
  BY DEF Balances, Seat
<1> QED
  BY <1>1, <1>2, HandBalance

\* Before anything is posted.
Untouched(h) == h.bet = Zero /\ h.ante = Zero /\ h.on /\ h.beat = "none" /\ h.street = 1

LEMMA FreshIs ==
  ASSUME NEW s \in [Seat -> Nat], NEW g \in DOMAIN Rules
  PROVE  /\ Fresh(g, s) \in HandSet /\ Whole(Fresh(g, s)) /\ Untouched(Fresh(g, s))
         /\ Fresh(g, s).game = g /\ Fresh(g, s).chips = s
         /\ Fresh(g, s).pot = 0 /\ Fresh(g, s).total = Zero /\ Fresh(g, s).staked = Total(s, N)
<1> DEFINE f == Fresh(g, s)
           T == Total(s, N)
<1>1. T \in Nat /\ Zero \in [Seat -> Nat] /\ Button \in Seat
  BY TotalNat, ZeroIs, Constants
<1>2. f = [game |-> g, on |-> TRUE, street |-> 1, beat |-> "none", drawing |-> FALSE,
           first |-> None, chips |-> s, bet |-> Zero, total |-> Zero, ante |-> Zero,
           folded |-> {}, allIn |-> {}, acted |-> {}, cur |-> Button, price |-> 0,
           minRaise |-> 0, raises |-> 0, raiser |-> Button, pot |-> 0, staked |-> T]
  BY DEF Fresh
<1>3. Total(Zero, N) = 0
  BY ZeroIs
<1> HIDE DEF T, f
<1>4. f \in HandSet
  BY <1>1, <1>2 DEF HandSet, Beats
<1>5. /\ f.pot = 0 /\ f.total = Zero /\ f.ante = Zero /\ f.chips = s /\ f.staked = T
      /\ f.game = g /\ f.bet = Zero /\ f.on /\ f.beat = "none" /\ f.street = 1
  BY <1>2
<1>6. Whole(f)
  BY <1>1, <1>3, <1>5 DEF Whole, T
<1>7. Untouched(f)
  BY <1>5 DEF Untouched
<1> QED
  BY <1>4, <1>5, <1>6, <1>7 DEF f, T

LEMMA AnteIs ==
  ASSUME NEW h \in HandSet, NEW i \in Seat, NEW n \in Nat, Whole(h), Untouched(h)
  PROVE  LET g == PostedAnte(h, i, n) IN
         g \in HandSet /\ Whole(g) /\ SameHand(g, h) /\ g.bet = Zero
<1> DEFINE a == Lesser(n, h.chips[i])
           c == [h.chips EXCEPT ![i] = h.chips[i] - a]
           d == [h.ante EXCEPT ![i] = a]
           p == h.pot + a
           l == IF h.chips[i] = a THEN h.allIn \union {i} ELSE h.allIn
           g == [h EXCEPT !.chips = c, !.ante = d, !.pot = p, !.allIn = l]
<1>1. /\ h.chips \in [Seat -> Nat] /\ h.ante \in [Seat -> Nat] /\ h.total \in [Seat -> Nat]
      /\ h.pot \in Nat /\ h.staked \in Nat /\ h.allIn \subseteq Seat
  BY HandIs
<1>2. h.chips[i] \in Nat /\ h.ante[i] = 0
  BY <1>1 DEF Untouched, Zero
<1>3. a \in 0..h.chips[i] /\ a \in Nat
  BY <1>2, Least
<1>4. PostedAnte(h, i, n) = g
  BY DEF PostedAnte
<1> HIDE DEF a
<1>5. h.chips[i] - a \in Nat /\ p \in Nat /\ l \in SUBSET Seat
  BY <1>1, <1>2, <1>3
<1>6. c \in [Seat -> Nat] /\ d \in [Seat -> Nat]
  BY <1>1, <1>3, <1>5
<1>7. /\ Total(c, N) = Total(h.chips, N) - a /\ Total(h.chips, N) \in Int
  <2> DEFINE v == h.chips[i] - a
  <2>1. v \in Nat /\ c = [h.chips EXCEPT ![i] = v]
    BY <1>5
  <2> HIDE DEF v, c
  <2>2. Total(c, N) = Total(h.chips, N) - h.chips[i] + v /\ Total(h.chips, N) \in Int
    BY <1>1, <2>1, OneChanges
  <2> QED
    BY <1>2, <1>3, <2>2 DEF v
<1>8. Total(d, N) = Total(h.ante, N) + a /\ Total(h.ante, N) \in Int
  <2> HIDE DEF d
  <2>1. d = [h.ante EXCEPT ![i] = a]
    BY DEF d
  <2>2. Total(d, N) = Total(h.ante, N) - h.ante[i] + a /\ Total(h.ante, N) \in Int
    BY <1>1, <1>3, <2>1, OneChanges
  <2> QED
    BY <1>2, <1>3, <2>2
<1>9. Total(h.total, N) \in Int
  BY <1>1, TotalNat
<1> HIDE DEF c, d, l
<1>10. p = h.pot + a
  OBVIOUS
<1> HIDE DEF p
<1>11. g \in HandSet
  <2> DEFINE y == [[h EXCEPT !.chips = c] EXCEPT !.ante = d]
  <2>1. y \in HandSet
    <3>1. [h EXCEPT !.chips = c] \in HandSet
      BY <1>6, OneField
    <3> QED
      BY <1>6, <3>1, OneField
  <2>2. [[y EXCEPT !.pot = p] EXCEPT !.allIn = l] \in HandSet
    <3> HIDE DEF y
    <3>1. [y EXCEPT !.pot = p] \in HandSet
      BY <1>5, <2>1, OneField
    <3> QED
      BY <1>5, <3>1, OneField
  <2>3. g = [[y EXCEPT !.pot = p] EXCEPT !.allIn = l]
    BY DEF HandSet
  <2> QED
    BY <2>2, <2>3
<1>12. g.chips = c /\ g.ante = d /\ g.pot = p /\ g.total = h.total /\ g.staked = h.staked
  BY DEF HandSet
<1>13. g.bet = h.bet /\ SameHand(g, h)
  BY DEF HandSet, SameHand
<1> HIDE DEF g
<1>14. Whole(g)
  BY <1>1, <1>3, <1>7, <1>8, <1>9, <1>10, <1>12 DEF Whole
<1> QED
  BY <1>4, <1>11, <1>13, <1>14 DEF Untouched

LEMMA PutBet ==
  ASSUME NEW h \in HandSet, NEW i \in Seat, NEW n \in 0..h.chips[i]
  PROVE  Put(h, i, n).bet = [h.bet EXCEPT ![i] = h.bet[i] + n]
  BY PutIs, ZenonT(60)

\* A forced bet of at most n by a seat with nothing on its bet line.
LEMMA PostedStands ==
  ASSUME NEW h \in HandSet, NEW i \in Seat, NEW n \in Nat, Whole(h), h.bet[i] = 0
  PROVE  /\ Posted(h, i, n) \in HandSet /\ Whole(Posted(h, i, n))
         /\ SameHand(Posted(h, i, n), h)
         /\ \E m \in 0..n : Posted(h, i, n).bet = [h.bet EXCEPT ![i] = m]
<1>1. PICK m \in 0..h.chips[i] : Posted(h, i, n) = Put(h, i, m) /\ m <= n
  BY PostedIs
<1>2. h.chips[i] \in Nat /\ h.bet \in [Seat -> Nat]
  BY HandIs
<1>3. m \in 0..n
  BY <1>1, <1>2
<1>4. m \in 0..h.chips[i]
  BY <1>1
<1>41. Put(h, i, m) \in HandSet
  BY <1>4, PutIs
<1>42. SameHand(Put(h, i, m), h)
  BY <1>4, PutIs
<1>43. Put(h, i, m).bet = [h.bet EXCEPT ![i] = h.bet[i] + m]
  BY <1>4, PutBet
<1>5. Whole(Put(h, i, m))
  BY <1>1, PutWhole
<1>6. h.bet[i] + m = m
  BY <1>3
<1>7. Put(h, i, m).bet = [h.bet EXCEPT ![i] = m]
  BY <1>43, <1>6
<1> QED
  BY <1>1, <1>3, <1>41, <1>42, <1>5, <1>7

\* The forced bets are in, and the price is at least each of them.
LEMMA Opening ==
  ASSUME NEW h \in HandSet, Whole(h), h.on, h.beat = "none", h.street = 1, h.game = hand.game,
         hand.game \in DOMAIN Rules,
         NEW p \in Nat, \A i \in Seat : h.bet[i] <= p,
         NEW r \in Seat, NEW m \in Nat, NEW c \in Seat, NEW w \in Nat, NEW g,
         g = [h EXCEPT !.price = p, !.raiser = r, !.raises = w, !.minRaise = m, !.cur = c]
  PROVE  Standing(g) /\ g.on /\ g.beat = "none"
<1> DEFINE y == [[h EXCEPT !.price = p] EXCEPT !.raiser = r]
<1>1. y \in HandSet
  <2>1. [h EXCEPT !.price = p] \in HandSet
    BY OneField
  <2> QED
    BY <2>1, OneField
<1>2. [[[y EXCEPT !.raises = w] EXCEPT !.minRaise = m] EXCEPT !.cur = c] \in HandSet
  <2> HIDE DEF y
  <2>1. [[y EXCEPT !.raises = w] EXCEPT !.minRaise = m] \in HandSet
    <3>1. [y EXCEPT !.raises = w] \in HandSet
      BY <1>1, OneField
    <3> QED
      BY <3>1, OneField
  <2> QED
    BY <2>1, OneField
<1>3. g = [[[y EXCEPT !.raises = w] EXCEPT !.minRaise = m] EXCEPT !.cur = c]
  BY DEF HandSet
<1>4. g \in HandSet
  BY <1>2, <1>3
<1>5. /\ g.chips = h.chips /\ g.bet = h.bet /\ g.total = h.total /\ g.ante = h.ante
      /\ g.pot = h.pot /\ g.staked = h.staked /\ g.price = p /\ g.on = h.on
      /\ g.beat = h.beat /\ g.street = h.street /\ g.game = h.game
  BY DEF HandSet
<1>6. Whole(g) /\ Matched(g)
  BY <1>5 DEF Whole, Matched
<1>7. InStreets(g)
  <2>1. Len(Streets) \in Nat \ {0}
    BY GameIs
  <2> QED
    BY <1>5, <2>1 DEF InStreets
<1>8. Standing(g)
  BY <1>4, <1>5, <1>6, <1>7 DEF Standing
<1> QED
  BY <1>5, <1>8

LEMMA TwoBlinds == SmallSeat \in Seat /\ BigSeat \in Seat /\ SmallSeat # BigSeat
<1>1. N \in Nat \ {0, 1} /\ Button \in 1..N
  BY Constants DEF Seat
<1>2. SmallSeat \in Seat
  BY <1>1, AfterIsSeat DEF SmallSeat, Seat
<1>3. BigSeat \in Seat
  BY <1>2, AfterIsSeat DEF BigSeat
<1>4. \A i \in 1..N : ((i - 1 + 1) % N) + 1 # i
  <2> TAKE i \in 1..N
  <2>1. CASE i < N
    <3>1. (i - 1 + 1) % N = i
      BY <1>1, <2>1
    <3> QED
      BY <3>1
  <2>2. CASE i = N
    <3>1. (i - 1 + 1) % N = 0
      BY <1>1, <2>2
    <3> QED
      BY <1>1, <2>2, <3>1
  <2> QED
    BY <1>1, <2>1, <2>2
<1>5. BigSeat # SmallSeat
  BY <1>2, <1>4 DEF BigSeat, After, Seat
<1> QED
  BY <1>2, <1>3, <1>5

LEMMA BlindsStand ==
  ASSUME NEW s \in [Seat -> Nat], hand.game \in DOMAIN Rules
  PROVE  Standing(BlindsPosted(s)) /\ BlindsPosted(s).on /\ BlindsPosted(s).beat = "none"
<1> DEFINE f == Fresh(hand.game, s)
           a == PostedAnte(f, BigSeat, Ante)
           b == Posted(a, SmallSeat, SmallBlind)
           h == Posted(b, BigSeat, BigBlind)
<1>1. SmallSeat \in Seat /\ BigSeat \in Seat /\ SmallSeat # BigSeat /\ Ante \in Nat
  BY TwoBlinds, GameIs
<1>2. SmallBlind \in Nat /\ BigBlind \in Nat /\ SmallBlind <= BigBlind
  BY Constants
<1>3. f \in HandSet /\ Whole(f) /\ Untouched(f) /\ f.game = hand.game
  BY FreshIs
<1>4. BlindsPosted(s) = [h EXCEPT !.price = BigBlind, !.raiser = BigSeat, !.raises = 1,
                !.minRaise = BetUnit(h),
                !.cur = IF N = 2 THEN SmallSeat ELSE NextActive(h, BigSeat)]
  BY DEF BlindsPosted
<1> HIDE DEF f
<1>5. a \in HandSet /\ Whole(a) /\ SameHand(a, f) /\ a.bet = Zero
  BY <1>1, <1>3, AnteIs
<1> HIDE DEF a
<1>6. a.bet[SmallSeat] = 0 /\ a.bet[BigSeat] = 0
  BY <1>1, <1>5 DEF Zero
<1>7. /\ b \in HandSet /\ Whole(b) /\ SameHand(b, a)
      /\ \E m \in 0..SmallBlind : b.bet = [a.bet EXCEPT ![SmallSeat] = m]
  BY <1>1, <1>2, <1>5, <1>6, PostedStands, ZenonT(60)
<1> HIDE DEF b
<1>71. b \in HandSet /\ Whole(b)
  BY <1>7
<1>8. b.bet[BigSeat] = 0
  BY <1>1, <1>5, <1>6, <1>7 DEF Zero
<1>9. /\ h \in HandSet /\ Whole(h) /\ SameHand(h, b)
      /\ \E m \in 0..BigBlind : h.bet = [b.bet EXCEPT ![BigSeat] = m]
  BY <1>1, <1>2, <1>71, <1>8, PostedStands, ZenonT(60)
<1> HIDE DEF h
<1>10. \A i \in Seat : h.bet[i] <= BigBlind
  <2>1. PICK m \in 0..SmallBlind : b.bet = [a.bet EXCEPT ![SmallSeat] = m]
    BY <1>7
  <2>2. PICK n \in 0..BigBlind : h.bet = [b.bet EXCEPT ![BigSeat] = n]
    BY <1>9
  <2>3. \A i \in Seat : b.bet[i] \in 0..SmallBlind
    BY <1>2, <1>5, <2>1 DEF Zero
  <2>4. \A i \in Seat : h.bet[i] \in {b.bet[i], n}
    BY <1>7, <2>2 DEF HandSet
  <2> QED
    BY <1>2, <2>3, <2>4
<1>11. h.on /\ h.beat = "none" /\ h.street = 1 /\ h.game = hand.game
  BY <1>3, <1>5, <1>7, <1>9 DEF SameHand, Untouched
<1>12. BetUnit(h) \in Nat
  BY <1>9, BetUnitIs
<1>91. h \in HandSet /\ Whole(h)
  BY <1>9
<1> DEFINE c == IF N = 2 THEN SmallSeat ELSE NextActive(h, BigSeat)
           u == BetUnit(h)
<1>13. c \in Seat /\ u \in Nat
  BY <1>1, <1>9, <1>12, SomeSeats
<1>14. BlindsPosted(s) = [h EXCEPT !.price = BigBlind, !.raiser = BigSeat, !.raises = 1,
                                   !.minRaise = u, !.cur = c]
  BY <1>4
<1> HIDE DEF c, u
<1> DEFINE g == BlindsPosted(s)
           p == BigBlind
           r == BigSeat
           w == 1
<1>15. g = [h EXCEPT !.price = p, !.raiser = r, !.raises = w, !.minRaise = u, !.cur = c]
  BY <1>14
<1>17. p \in Nat /\ r \in Seat /\ w \in Nat /\ \A i \in Seat : h.bet[i] <= p
  BY <1>1, <1>2, <1>10
<1> HIDE DEF g, p, r, w
<1>16. Standing(g) /\ g.on /\ g.beat = "none"
  BY <1>91, <1>11, <1>13, <1>15, <1>17, Opening
<1> QED
  BY <1>16 DEF g

LEMMA AntedIs ==
  ASSUME NEW s \in [Seat -> Nat], hand.game \in DOMAIN Rules
  PROVE  /\ Anted(s) \in HandSet /\ Whole(Anted(s)) /\ Anted(s).bet = Zero
         /\ SameHand(Anted(s), Fresh(hand.game, s))
<1> DEFINE f == Fresh(hand.game, s)
           paid == [i \in Seat |-> Lesser(StudAnte, s[i])]
           p == Total(paid, N)
           c == [i \in Seat |-> s[i] - paid[i]]
           l == {i \in Seat : s[i] = paid[i]}
           g == [f EXCEPT !.ante = paid, !.pot = p, !.chips = c, !.allIn = l]
<1>1. f \in HandSet /\ Untouched(f) /\ f.total = Zero /\ f.staked = Total(s, N)
  BY FreshIs
<1>2. StudAnte \in Nat
  <2>1. (SmallBlind + 1) \div 2 \in Nat
    BY Constants
  <2> QED
    BY <2>1, Least DEF StudAnte
<1>3. \A i \in Seat : s[i] \in Nat /\ paid[i] \in 0..s[i]
  BY <1>2, Least
<1>4. paid \in [Seat -> Nat] /\ c \in [Seat -> Nat] /\ l \in SUBSET Seat
  BY <1>3
<1>5. p \in Nat /\ Total(c, N) \in Nat /\ Total(s, N) \in Nat /\ Total(Zero, N) = 0
  BY <1>4, TotalNat, ZeroIs
<1>6. Anted(s) = g
  BY DEF Anted
<1>7. \A i \in Seat : c[i] + paid[i] = s[i] + Zero[i]
  BY <1>3 DEF Zero
<1> HIDE DEF f, paid, c, l
<1>8. Total(c, N) + p = Total(s, N)
  <2>1. c \in [Seat -> Int] /\ paid \in [Seat -> Int] /\ s \in [Seat -> Int]
        /\ Zero \in [Seat -> Int]
    BY <1>4, ZeroIs
  <2>3. Total(c, N) + Total(paid, N) = Total(s, N) + Total(Zero, N)
    BY <1>7, <2>1, SumsBalance
  <2> QED
    BY <1>5, <2>3
<1>9. p = Total(paid, N)
  OBVIOUS
<1> HIDE DEF p
<1>10. g \in HandSet
  <2> DEFINE y == [[f EXCEPT !.ante = paid] EXCEPT !.pot = p]
  <2>1. y \in HandSet
    <3>1. [f EXCEPT !.ante = paid] \in HandSet
      BY <1>1, <1>4, OneField
    <3> QED
      BY <1>5, <3>1, OneField
  <2>2. [[y EXCEPT !.chips = c] EXCEPT !.allIn = l] \in HandSet
    <3> HIDE DEF y
    <3>1. [y EXCEPT !.chips = c] \in HandSet
      BY <1>4, <2>1, OneField
    <3> QED
      BY <1>4, <3>1, OneField
  <2>3. g = [[y EXCEPT !.chips = c] EXCEPT !.allIn = l]
    BY <1>1 DEF HandSet
  <2> QED
    BY <2>2, <2>3
<1>11. g.chips = c /\ g.ante = paid /\ g.pot = p /\ g.total = f.total /\ g.staked = f.staked
       /\ g.bet = f.bet
  BY <1>1 DEF HandSet
<1>12. SameHand(g, f)
  BY <1>1 DEF HandSet, SameHand
<1> HIDE DEF g
<1>13. Whole(g)
  BY <1>1, <1>5, <1>8, <1>9, <1>11 DEF Whole
<1> QED
  BY <1>1, <1>6, <1>10, <1>11, <1>12, <1>13 DEF Untouched, f

LEMMA BringInStands ==
  ASSUME NEW s \in [Seat -> Nat], NEW b \in Seat, hand.game \in DOMAIN Rules
  PROVE  Standing(BroughtIn(s, b)) /\ BroughtIn(s, b).on /\ BroughtIn(s, b).beat = "none"
<1> DEFINE a == Anted(s)
           h == Posted(a, b, SmallBlind)
           f == Fresh(hand.game, s)
           m == Greater(1, BigBlind - SmallBlind)
<1>1. SmallBlind \in Nat /\ BigBlind \in Nat
  BY Constants
<1>2. m \in Nat
  BY Constants, Least
<1>3. a \in HandSet /\ Whole(a) /\ a.bet = Zero /\ SameHand(a, f)
  BY AntedIs
<1>4. Untouched(f) /\ f.game = hand.game
  BY FreshIs
<1>5. BroughtIn(s, b) = [h EXCEPT !.price = SmallBlind, !.raiser = b, !.minRaise = m,
                                  !.cur = NextActive(h, b)]
  BY DEF BroughtIn
<1> HIDE DEF a, f, m
<1>6. a.bet[b] = 0
  BY <1>3 DEF Zero
<1>7. /\ h \in HandSet /\ Whole(h) /\ SameHand(h, a)
      /\ \E n \in 0..SmallBlind : h.bet = [a.bet EXCEPT ![b] = n]
  BY <1>1, <1>3, <1>6, PostedStands
<1> HIDE DEF h
<1>8. \A i \in Seat : h.bet[i] <= SmallBlind
  BY <1>1, <1>3, <1>7 DEF Zero
<1>9. h.on /\ h.beat = "none" /\ h.street = 1 /\ h.game = hand.game
  BY <1>3, <1>4, <1>7 DEF SameHand, Untouched
<1> DEFINE c == NextActive(h, b)
           w == h.raises
<1>10. c \in Seat /\ w \in Nat
  BY <1>7, SomeSeats, HandIs
<1>11. BroughtIn(s, b) = [h EXCEPT !.price = SmallBlind, !.raiser = b, !.raises = w,
                                   !.minRaise = m, !.cur = c]
  <2>1. BroughtIn(s, b) = [h EXCEPT !.price = SmallBlind, !.raiser = b, !.minRaise = m,
                                    !.cur = c]
    BY <1>5
  <2> HIDE DEF c
  <2> QED
    BY <1>7, <2>1 DEF HandSet
<1> HIDE DEF c, w
<1> DEFINE g == BroughtIn(s, b)
<1>12. g = [h EXCEPT !.price = SmallBlind, !.raiser = b, !.raises = w, !.minRaise = m, !.cur = c]
  BY <1>11
<1> HIDE DEF g
<1>13. Standing(g) /\ g.on /\ g.beat = "none"
  BY <1>1, <1>2, <1>7, <1>8, <1>9, <1>10, <1>12, Opening
<1> QED
  BY <1>13 DEF g

LEMMA DealtStands ==
  ASSUME NEW s \in Stacks, NEW h \in Dealt(s), hand.game \in DOMAIN Rules
  PROVE  Standing(h) /\ h.on /\ h.beat = "none"
<1>1. s \in [Seat -> Nat]
  BY GameIs
<1> QED
  BY <1>1, BlindsStand, BringInStands DEF Dealt

-----------------------------------------------------------------------------
(* Sums over seats *)

LEMMA TotalInt ==
  ASSUME NEW f \in [Seat -> Int]
  PROVE  \A n \in 0..N : Total(f, n) \in Int
<1>1. N \in Nat /\ f \in [1..N -> Int]
  BY Constants DEF Seat
<1> QED
  BY <1>1, TotalType

LEMMA TotalPlus ==
  ASSUME NEW a \in [Seat -> Int], NEW b \in [Seat -> Int]
  PROVE  Total([i \in Seat |-> a[i] + b[i]], N) = Total(a, N) + Total(b, N)
<1> DEFINE c == [i \in Seat |-> a[i] + b[i]]
<1>1. c \in [Seat -> Int] /\ Zero \in [Seat -> Int] /\ Total(Zero, N) = 0
  BY ZeroIs
<1>2. \A i \in Seat : a[i] + b[i] = c[i] + Zero[i]
  BY DEF Zero
<1> HIDE DEF c
<1>3. Total(a, N) + Total(b, N) = Total(c, N) + Total(Zero, N)
  BY <1>1, <1>2, SumsBalance
<1>4. N \in 0..N
  BY Constants
<1>5. Total(c, N) \in Int
  BY <1>1, <1>4, TotalInt
<1>6. Total(c, N) = Total(a, N) + Total(b, N)
  BY <1>1, <1>3, <1>5
<1> QED
  BY <1>6 DEF c

LEMMA TotalNothing ==
  ASSUME NEW f, \A i \in Seat : f[i] = 0
  PROVE  Total(f, N) = 0
<1>1. N \in Nat /\ \A i \in 1..N : f[i] = 0
  BY Constants DEF Seat
<1>2. N \in 0..N
  BY <1>1
<1> QED
  BY <1>1, <1>2, TotalZero

\* Adding up by rows or by columns.
LEMMA TotalExchange ==
  ASSUME NEW F \in [Seat -> [Seat -> Int]]
  PROVE  Total([i \in Seat |-> Total([q \in Seat |-> F[q][i]], N)], N)
           = Total([q \in Seat |-> Total(F[q], N)], N)
<1> DEFINE col(i) == [q \in Seat |-> F[q][i]]
           cols == [i \in Seat |-> Total(col(i), N)]
           rows(n) == [q \in Seat |-> Total(F[q], n)]
           S == {n \in Nat : n <= N => Total(cols, n) = Total(rows(n), N)}
<1>0. N \in Nat /\ N \in 0..N
  BY Constants
<1>1. 0 \in S
  <2>1. \A q \in Seat : rows(0)[q] = 0
    BY TotalStep
  <2> HIDE DEF cols, rows
  <2>2. Total(cols, 0) = 0 /\ Total(rows(0), N) = 0
    BY <2>1, TotalStep, TotalNothing
  <2> QED
    BY <2>2
<1>2. ASSUME NEW n \in Nat, n \in S
      PROVE  n + 1 \in S
  <2> SUFFICES ASSUME n + 1 <= N
               PROVE  Total(cols, n + 1) = Total(rows(n + 1), N)
    OBVIOUS
  <2>1. n + 1 \in Seat /\ n \in 0..N /\ n <= N
    BY <1>0 DEF Seat
  <2>2. Total(cols, n + 1) = Total(cols, n) + cols[n + 1]
    <3> HIDE DEF cols
    <3> QED
      BY TotalStep
  <2>3. cols[n + 1] = Total(col(n + 1), N)
    BY <2>1
  <2>4. Total(cols, n) = Total(rows(n), N)
    BY <1>2, <2>1
  <2>5. \A q \in Seat : F[q] \in [Seat -> Int]
    OBVIOUS
  <2>6. rows(n) \in [Seat -> Int] /\ col(n + 1) \in [Seat -> Int]
    <3>1. \A q \in Seat : Total(F[q], n) \in Int /\ F[q][n + 1] \in Int
      BY <2>1, <2>5, TotalInt
    <3> QED
      BY <3>1
  <2>7. rows(n + 1) = [q \in Seat |-> rows(n)[q] + col(n + 1)[q]]
    <3>1. \A q \in Seat : Total(F[q], n + 1) = Total(F[q], n) + F[q][n + 1]
      BY TotalStep
    <3> QED
      BY <3>1
  <2> HIDE DEF rows, col, cols
  <2>8. Total(rows(n + 1), N) = Total(rows(n), N) + Total(col(n + 1), N)
    BY <2>6, <2>7, TotalPlus
  <2> QED
    BY <2>2, <2>3, <2>4, <2>8
<1>3. Nat \subseteq S
  <2> HIDE DEF S
  <2> QED
    BY <1>1, <1>2, SetInduction
<1>4. Total(cols, N) = Total(rows(N), N)
  <2> HIDE DEF cols, rows
  <2>1. N \in S
    BY <1>0, <1>3
  <2> QED
    BY <1>0, <2>1
<1> QED
  BY <1>4

-----------------------------------------------------------------------------
(* Sharing a pot *)

LEMMA SeatsFinite ==
  ASSUME NEW W \in SUBSET Seat
  PROVE  IsFiniteSet(W) /\ Cardinality(W) \in Nat
<1>1. IsFiniteSet(Seat)
  BY Constants, FS_Interval DEF Seat
<1> QED
  BY <1>1, FS_Subset, FS_CardinalityType

\* Who comes before i when odd chips are given out.
Before(W, r, i) == {j \in W : r[j] > r[i] \/ (r[j] = r[i] /\ j < i)}

LEMMA BestExists ==
  ASSUME NEW W \in SUBSET Seat, W # {}, NEW M \in Nat, NEW r \in [Seat -> 0..M]
  PROVE  \E x \in W : \A j \in W : r[j] <= r[x]
<1> DEFINE K == {M - r[j] : j \in W}
<1>1. K \in SUBSET Nat /\ K # {}
  OBVIOUS
<1>2. PICK k \in K : \A y \in K : k <= y
  BY <1>1, LeastExists
<1>3. PICK x \in W : k = M - r[x]
  BY <1>2
<1>4. \A j \in W : M - r[x] <= M - r[j]
  BY <1>2, <1>3
<1>5. \A j \in W : r[j] \in Int /\ r[x] \in Int
  OBVIOUS
<1> QED
  BY <1>3, <1>4, <1>5

LEMMA FirstExists ==
  ASSUME NEW W \in SUBSET Seat, W # {}, NEW M \in Nat, NEW r \in [Seat -> 0..M]
  PROVE  \E x \in W : Before(W, r, x) = {}
<1>1. PICK b \in W : \A j \in W : r[j] <= r[b]
  BY BestExists
<1> DEFINE K == {j \in W : r[j] = r[b]}
<1>2. K \in SUBSET Nat /\ K # {}
  <2>1. b \in K
    BY <1>1
  <2>2. \A j \in W : j \in Nat
    BY Constants DEF Seat
  <2> QED
    BY <2>1, <2>2
<1>3. PICK x \in K : \A y \in K : x <= y
  BY <1>2, LeastExists
<1>4. \A j \in W : r[j] \in Nat /\ j \in Nat /\ r[x] \in Nat /\ x \in Nat /\ r[b] \in Nat
  BY <1>1, <1>3 DEF Seat
<1>5. \A j \in W : ~(r[j] > r[x] \/ (r[j] = r[x] /\ j < x))
  BY <1>1, <1>3, <1>4
<1> QED
  BY <1>3, <1>5 DEF Before

\* The order gives every place from 0 on to one of them.
LEMMA PlacesFilled ==
  ASSUME NEW W \in SUBSET Seat, NEW M \in Nat, NEW r \in [Seat -> 0..M]
  PROVE  \A m \in 0..Cardinality(W) :
           Cardinality({i \in W : Cardinality(Before(W, r, i)) < m}) = m
<1> DEFINE A(m) == {i \in W : Cardinality(Before(W, r, i)) < m}
           S == {m \in Nat : m <= Cardinality(W) => Cardinality(A(m)) = m}
<1>0. IsFiniteSet(W) /\ Cardinality(W) \in Nat
  BY SeatsFinite
<1>1. \A i \in W : /\ Before(W, r, i) \in SUBSET W /\ i \notin Before(W, r, i)
                   /\ IsFiniteSet(Before(W, r, i)) /\ Cardinality(Before(W, r, i)) \in Nat
  <2> TAKE i \in W
  <2>1. Before(W, r, i) \in SUBSET W /\ i \notin Before(W, r, i)
    <3>1. r[i] \in Nat /\ i \in Nat
      BY DEF Seat
    <3> QED
      BY <3>1 DEF Before
  <2> QED
    BY <2>1, SeatsFinite
<1>2. 0 \in S
  <2>1. A(0) = {}
    BY <1>1
  <2> QED
    BY <2>1, FS_EmptySet
<1>3. ASSUME NEW m \in Nat, m \in S
      PROVE  m + 1 \in S
  <2> SUFFICES ASSUME m + 1 <= Cardinality(W)
               PROVE  Cardinality(A(m + 1)) = m + 1
    OBVIOUS
  <2>1. A(m) \in SUBSET W /\ IsFiniteSet(A(m)) /\ Cardinality(A(m)) = m
    <3>1. m <= Cardinality(W)
      BY <1>0
    <3> QED
      BY <1>3, <3>1, SeatsFinite
  <2>2. W \ A(m) \in SUBSET Seat /\ W \ A(m) # {}
    <3>1. W # A(m)
      BY <1>0, <2>1
    <3> QED
      BY <2>1, <3>1
  <2>3. PICK x \in W \ A(m) : Before(W \ A(m), r, x) = {}
    BY <2>2, FirstExists
  <2>4. Before(W, r, x) \subseteq A(m)
    BY <2>3 DEF Before
  <2>5. Cardinality(Before(W, r, x)) <= m
    BY <2>1, <2>4, FS_Subset
  <2>6. Cardinality(Before(W, r, x)) = m
    BY <1>1, <2>3, <2>5
  <2>7. \A y \in W : Cardinality(Before(W, r, y)) = m => y = x
    <3> SUFFICES ASSUME NEW y \in W, Cardinality(Before(W, r, y)) = m, y # x
                 PROVE  FALSE
      OBVIOUS
    <3>1. r[x] \in Nat /\ r[y] \in Nat /\ x \in Nat /\ y \in Nat /\ x \in W
      BY <2>3 DEF Seat
    <3>2. CASE x \in Before(W, r, y)
      <4>1. Before(W, r, x) \subseteq Before(W, r, y)
        <5> SUFFICES ASSUME NEW j \in Before(W, r, x)
                     PROVE  j \in Before(W, r, y)
          OBVIOUS
        <5>1. r[j] > r[x] \/ (r[j] = r[x] /\ j < x)
          BY DEF Before
        <5>2. r[x] > r[y] \/ (r[x] = r[y] /\ x < y)
          BY <3>2 DEF Before
        <5>3. j \in W /\ j \in Seat
          BY DEF Before
        <5>4. r[j] \in Nat /\ j \in Nat
          BY <5>3, Constants DEF Seat
        <5>5. r[j] > r[y] \/ (r[j] = r[y] /\ j < y)
          BY <3>1, <5>1, <5>2, <5>4
        <5> QED
          BY <5>3, <5>5 DEF Before
      <4>2. x \notin Before(W, r, x)
        BY <1>1, <3>1
      <4>3. Before(W, r, x) = Before(W, r, y)
        BY <1>1, <2>6, <4>1, FS_Subset
      <4> QED
        BY <3>2, <4>2, <4>3
    <3>3. CASE x \notin Before(W, r, y)
      <4>1. y \in Before(W, r, x)
        BY <3>1, <3>3 DEF Before
      <4>2. y \in A(m)
        BY <2>4, <4>1
      <4> QED
        BY <4>2
    <3> QED
      BY <3>2, <3>3
  <2>8. A(m + 1) = A(m) \union {x}
    <3>1. \A y \in W : Cardinality(Before(W, r, y)) < m + 1
                         <=> (Cardinality(Before(W, r, y)) < m \/ y = x)
      BY <1>1, <2>6, <2>7
    <3> QED
      BY <2>3, <3>1
  <2>9. x \notin A(m)
    BY <2>3
  <2> HIDE DEF A
  <2> QED
    BY <2>1, <2>8, <2>9, FS_AddElement
<1>4. Nat \subseteq S
  <2> HIDE DEF S
  <2> QED
    BY <1>2, <1>3, SetInduction
<1> QED
  BY <1>0, <1>4

\* Equal shares with the odd chips come to the whole.
LEMMA SharesSum ==
  ASSUME NEW W \in SUBSET Seat, W # {}, NEW n \in Nat, NEW M \in Nat, NEW r \in [Seat -> 0..M]
  PROVE  /\ [i \in Seat |-> ShareOf(i, W, n, r)] \in [Seat -> Nat]
         /\ Total([i \in Seat |-> ShareOf(i, W, n, r)], N) = n
<1> DEFINE c == Cardinality(W)
           q == n \div c
           m == n % c
           G == {i \in W : Cardinality(Before(W, r, i)) < m}
           a == [i \in Seat |-> IF i \in W THEN q ELSE 0]
           b == [i \in Seat |-> IF i \in G THEN 1 ELSE 0]
           f == [i \in Seat |-> ShareOf(i, W, n, r)]
<1>1. IsFiniteSet(W) /\ c \in Nat /\ c # 0
  BY SeatsFinite, FS_EmptySet
<1>2. \A i \in Seat : f[i] = a[i] + b[i]
  <2> TAKE i \in Seat
  <2>1. CASE i \notin W
    BY <2>1 DEF ShareOf
  <2>2. CASE i \in W
    <3>1. f[i] = q + (IF Cardinality(Before(W, r, i)) < m THEN 1 ELSE 0)
      BY <2>2 DEF ShareOf, Before
    <3> QED
      BY <2>2, <3>1
  <2> QED
    BY <2>1, <2>2
<1> HIDE DEF c
<1>3. q \in Nat /\ m \in 0..(c - 1) /\ n = c * q + m
  BY <1>1
<1> HIDE DEF q, m
<1>4. Cardinality(G) = m
  <2>1. m \in 0..c
    BY <1>1, <1>3
  <2> QED
    BY <2>1, PlacesFilled DEF c
<1>5. N \in Nat /\ W \in SUBSET (1..N) /\ G \in SUBSET (1..N) /\ q \in Int /\ 1 \in Int
  <2>1. G \subseteq W
    OBVIOUS
  <2> HIDE DEF G
  <2> QED
    BY <1>3, <2>1, Constants DEF Seat
<1>6. Total(a, N) = q * c
  BY <1>5, TotalShare DEF Seat, c
<1>7. Total(b, N) = m
  <2> HIDE DEF G
  <2>1. Total(b, N) = 1 * Cardinality(G)
    BY <1>5, TotalShare DEF Seat
  <2> QED
    BY <1>3, <1>4, <2>1
<1>8. a \in [Seat -> Nat] /\ b \in [Seat -> Nat]
  BY <1>3
<1>9. f \in [Seat -> Nat]
  BY <1>2, <1>8
<1>10. f = [i \in Seat |-> a[i] + b[i]]
  BY <1>2
<1> HIDE DEF f, a, b
<1>11. Total(f, N) = Total(a, N) + Total(b, N)
  BY <1>8, <1>10, TotalPlus
<1>12. q * c + m = n
  BY <1>1, <1>3
<1> QED
  BY <1>6, <1>7, <1>9, <1>11, <1>12 DEF f

-----------------------------------------------------------------------------
(* The slices of a pot *)

\* What the seats put in up to l, in all.
UpTo(h, l) == Total([p \in Seat |-> Lesser(h.total[p], l)], N)

LEMMA UpToIs ==
  ASSUME NEW h \in HandSet, NEW l \in Nat
  PROVE  [p \in Seat |-> Lesser(h.total[p], l)] \in [Seat -> Nat] /\ UpTo(h, l) \in Nat
<1> DEFINE f == [p \in Seat |-> Lesser(h.total[p], l)]
<1>1. \A p \in Seat : h.total[p] \in Nat
  BY HandIs
<1>2. f \in [Seat -> Nat]
  BY <1>1, Least
<1> HIDE DEF f
<1>3. Total(f, N) \in Nat
  BY <1>2, TotalNat
<1> QED
  BY <1>2, <1>3 DEF f, UpTo

\* The level under l is the highest that somebody still in has below it.
LEMMA UnderIs ==
  ASSUME NEW h \in HandSet, NEW l \in Nat
  PROVE  /\ Under(h, l) \in Nat /\ Under(h, l) <= l
         /\ \A j \in Live(h) : h.total[j] < l => h.total[j] <= Under(h, l)
         /\ Under(h, l) = 0 \/ \E j \in Live(h) : h.total[j] < l /\ Under(h, l) = h.total[j]
<1> DEFINE lower == {0} \union {h.total[i] : i \in {j \in Live(h) : h.total[j] < l}}
           K == {l - k : k \in lower}
           top(m) == \A k \in lower : k <= m
           u == CHOOSE m \in lower : top(m)
<1>1. \A j \in Live(h) : h.total[j] \in Nat
  BY HandIs, SomeSeats
<1>2. \A k \in lower : k \in Nat /\ k <= l
  BY <1>1
<1>3. 0 \in lower
  OBVIOUS
<1>4. \A j \in Live(h) : h.total[j] < l => h.total[j] \in lower
  OBVIOUS
<1>5. \A k \in lower : k = 0 \/ \E j \in Live(h) : h.total[j] < l /\ k = h.total[j]
  OBVIOUS
<1>6. Under(h, l) = u
  BY DEF Under
<1> HIDE DEF lower
<1>7. K \in SUBSET Nat /\ K # {}
  BY <1>2, <1>3
<1>8. PICK k \in K : \A y \in K : k <= y
  BY <1>7, LeastExists
<1>9. PICK m \in lower : k = l - m
  BY <1>8
<1>10. \A y \in lower : l - m <= l - y
  BY <1>8, <1>9
<1>11. top(m)
  BY <1>2, <1>9, <1>10
<1>12. u \in lower /\ top(u)
  BY <1>9, <1>11
<1> HIDE DEF u
<1> QED
  BY <1>2, <1>4, <1>5, <1>6, <1>12

LEMMA UnderNext ==
  ASSUME NEW h \in HandSet, NEW l \in Nat
  PROVE  /\ (\E j \in Live(h) : h.total[j] = l) => Under(h, l + 1) = l
         /\ (\A j \in Live(h) : h.total[j] # l) => Under(h, l + 1) = Under(h, l)
<1>1. \A j \in Live(h) : h.total[j] \in Nat
  BY HandIs, SomeSeats
<1>2. l + 1 \in Nat
  OBVIOUS
<1> DEFINE u == Under(h, l)
           v == Under(h, l + 1)
<1>3. /\ u \in Nat /\ u <= l /\ \A j \in Live(h) : h.total[j] < l => h.total[j] <= u
      /\ u = 0 \/ \E j \in Live(h) : h.total[j] < l /\ u = h.total[j]
  BY UnderIs
<1>4. /\ v \in Nat /\ v <= l + 1 /\ \A j \in Live(h) : h.total[j] < l + 1 => h.total[j] <= v
      /\ v = 0 \/ \E j \in Live(h) : h.total[j] < l + 1 /\ v = h.total[j]
  BY <1>2, UnderIs
<1> HIDE DEF u, v
<1>5. ASSUME NEW j \in Live(h), h.total[j] = l
      PROVE  v = l
  <2>1. l <= v
    BY <1>4, <1>5
  <2> QED
    BY <1>1, <1>4, <2>1
<1>6. ASSUME \A j \in Live(h) : h.total[j] # l
      PROVE  v = u
  <2>1. \A j \in Live(h) : h.total[j] < l + 1 <=> h.total[j] < l
    BY <1>1, <1>6
  <2>2. u <= v
    <3>1. CASE u = 0
      BY <1>4, <3>1
    <3>2. CASE \E j \in Live(h) : h.total[j] < l /\ u = h.total[j]
      BY <1>4, <2>1, <3>2
    <3> QED
      BY <1>3, <3>1, <3>2
  <2>3. v <= u
    <3>1. CASE v = 0
      BY <1>3, <3>1
    <3>2. CASE \E j \in Live(h) : h.total[j] < l + 1 /\ v = h.total[j]
      BY <1>3, <2>1, <3>2
    <3> QED
      BY <1>4, <3>1, <3>2
  <2> QED
    BY <1>3, <1>4, <2>2, <2>3
<1> QED
  BY <1>5, <1>6 DEF u, v

LEMMA DeadIs ==
  ASSUME NEW h \in HandSet
  PROVE  Dead(h) \in Nat
<1>1. h.ante \in [Seat -> Nat]
  BY HandIs
<1> QED
  BY <1>1, TotalNat DEF Dead

\* A slice is what was put in between two levels, and the antes if it is the
\* lowest.
LEMMA SliceIs ==
  ASSUME NEW h \in HandSet, NEW l \in Nat
  PROVE  /\ Slice(h, l) \in Nat
         /\ Slice(h, l) + UpTo(h, Under(h, l))
              = UpTo(h, l) + (IF \A i \in Live(h) : l <= h.total[i] THEN Dead(h) ELSE 0)
<1> DEFINE u == Under(h, l)
           a == [p \in Seat |-> Lesser(h.total[p], l)]
           b == [p \in Seat |-> Lesser(h.total[p], u)]
           c == [p \in Seat |-> Lesser(h.total[p], l) - Lesser(h.total[p], u)]
           d == IF \A i \in Live(h) : l <= h.total[i] THEN Dead(h) ELSE 0
<1>1. u \in Nat /\ u <= l
  BY UnderIs
<1>2. Slice(h, l) = Total(c, N) + d
  BY DEF Slice
<1>3. UpTo(h, l) = Total(a, N) /\ UpTo(h, u) = Total(b, N)
  BY DEF UpTo
<1> HIDE DEF u
<1>4. a \in [Seat -> Nat] /\ b \in [Seat -> Nat] /\ Total(a, N) \in Nat /\ Total(b, N) \in Nat
  BY <1>1, UpToIs DEF UpTo
<1>5. \A p \in Seat : b[p] <= a[p]
  <2>1. \A p \in Seat : h.total[p] \in Nat
    BY HandIs
  <2> QED
    BY <1>1, <2>1 DEF Lesser
<1>6. c = [p \in Seat |-> a[p] - b[p]]
  OBVIOUS
<1> HIDE DEF a, b, c
<1>7. c \in [Seat -> Nat]
  BY <1>4, <1>5, <1>6
<1>8. a = [p \in Seat |-> c[p] + b[p]]
  BY <1>4, <1>6
<1>9. Total(a, N) = Total(c, N) + Total(b, N)
  BY <1>4, <1>7, <1>8, TotalPlus
<1>10. Total(c, N) \in Nat
  BY <1>7, TotalNat
<1>11. d \in Nat
  BY DeadIs
<1> HIDE DEF d
<1>12. Slice(h, l) \in Nat /\ Slice(h, l) + UpTo(h, u) = UpTo(h, l) + d
  BY <1>2, <1>3, <1>4, <1>9, <1>10, <1>11
<1> QED
  BY <1>12 DEF u, d

\* One seat leads every level that somebody still in has.
LEMMA OneLeads ==
  ASSUME NEW h \in HandSet, NEW j \in Live(h)
  PROVE  \E q \in Leaders(h) : /\ h.total[q] = h.total[j]
                               /\ \A p \in Leaders(h) : h.total[p] = h.total[j] => p = q
<1> DEFINE K == {i \in Live(h) : h.total[i] = h.total[j]}
<1>1. Live(h) \subseteq Seat
  BY SomeSeats
<1>2. K \in SUBSET Nat /\ j \in K
  BY <1>1 DEF Seat
<1>3. PICK q \in K : \A y \in K : q <= y
  BY <1>2, LeastExists
<1>4. q \in Leaders(h)
  BY <1>3 DEF Leaders
<1>5. ASSUME NEW p \in Leaders(h), h.total[p] = h.total[j]
      PROVE  p = q
  <2>1. p \in K /\ \A y \in K : p <= y
    BY <1>5 DEF Leaders
  <2>2. p \in Nat /\ q \in Nat
    BY <1>2, <1>3, <2>1
  <2> QED
    BY <1>3, <2>1, <2>2
<1> QED
  BY <1>3, <1>4, <1>5

\* The slices led by a level below l.
SlicesTo(h, l) ==
  [q \in Seat |-> IF q \in Leaders(h) /\ h.total[q] < l THEN Slice(h, h.total[q]) ELSE 0]

LEMMA SlicesToIs ==
  ASSUME NEW h \in HandSet, NEW l
  PROVE  SlicesTo(h, l) \in [Seat -> Nat]
<1>1. \A q \in Seat : h.total[q] \in Nat
  BY HandIs
<1>2. \A q \in Seat : Slice(h, h.total[q]) \in Nat
  BY <1>1, SliceIs
<1> QED
  BY <1>2 DEF SlicesTo

\* Level by level, the slices come to what was put in so far, and the antes
\* once the lowest level is among them.
LEMMA SlicesTelescope ==
  ASSUME NEW h \in HandSet
  PROVE  \A l \in Nat : Total(SlicesTo(h, l), N)
           = UpTo(h, Under(h, l)) + (IF \E i \in Live(h) : h.total[i] < l THEN Dead(h) ELSE 0)
<1> DEFINE dead(l) == IF \E i \in Live(h) : h.total[i] < l THEN Dead(h) ELSE 0
           S == {l \in Nat : Total(SlicesTo(h, l), N) = UpTo(h, Under(h, l)) + dead(l)}
<1>0. /\ \A j \in Live(h) : j \in Seat /\ h.total[j] \in Nat
      /\ \A q \in Leaders(h) : q \in Live(h) /\ q \in Seat /\ h.total[q] \in Nat
      /\ \A p \in Seat : h.total[p] \in Nat
  BY HandIs, SomeSeats DEF Leaders
<1>1. 0 \in S
  <2>1. \A q \in Seat : SlicesTo(h, 0)[q] = 0
    BY <1>0 DEF SlicesTo
  <2>2. Total(SlicesTo(h, 0), N) = 0
    BY <2>1, TotalNothing
  <2>3. Under(h, 0) \in Nat /\ Under(h, 0) <= 0
    BY UnderIs
  <2>4. \A p \in Seat : [s \in Seat |-> Lesser(h.total[s], 0)][p] = 0
    BY <1>0 DEF Lesser
  <2>5. UpTo(h, 0) = 0
    BY <2>4, TotalNothing DEF UpTo
  <2>6. dead(0) = 0
    BY <1>0
  <2>7. Under(h, 0) = 0
    BY <2>3
  <2> QED
    BY <2>2, <2>5, <2>6, <2>7
<1>2. ASSUME NEW l \in Nat, l \in S
      PROVE  l + 1 \in S
  <2>1. Total(SlicesTo(h, l), N) = UpTo(h, Under(h, l)) + dead(l)
    BY <1>2
  <2>2. CASE \A j \in Live(h) : h.total[j] # l
    <3>1. \A j \in Live(h) : h.total[j] < l + 1 <=> h.total[j] < l
      BY <1>0, <2>2
    <3>2. \A q \in Leaders(h) : h.total[q] < l + 1 <=> h.total[q] < l
      BY <1>0, <3>1
    <3>3. SlicesTo(h, l + 1) = SlicesTo(h, l)
      BY <3>2 DEF SlicesTo
    <3>4. Under(h, l + 1) = Under(h, l)
      BY <2>2, UnderNext
    <3>5. dead(l + 1) = dead(l)
      BY <3>1
    <3> HIDE DEF dead
    <3>6. Total(SlicesTo(h, l + 1), N) = UpTo(h, Under(h, l + 1)) + dead(l + 1)
      BY <2>1, <3>3, <3>4, <3>5
    <3> QED
      BY <3>6
  <2>3. CASE \E j \in Live(h) : h.total[j] = l
    <3>1. PICK j \in Live(h) : h.total[j] = l
      BY <2>3
    <3>2. PICK q \in Leaders(h) : h.total[q] = l /\ \A p \in Leaders(h) : h.total[p] = l => p = q
      BY <3>1, OneLeads
    <3> DEFINE s == Slice(h, l)
               f == SlicesTo(h, l)
    <3>3. s \in Nat /\ f \in [Seat -> Nat] /\ q \in Seat
      BY <1>0, SliceIs, SlicesToIs
    <3>4. f[q] = 0
      BY <1>0, <3>2 DEF SlicesTo
    <3>5. \A p \in Leaders(h) : h.total[p] < l + 1 <=> (h.total[p] < l \/ p = q)
      BY <1>0, <3>2
    <3>6. SlicesTo(h, l + 1) = [f EXCEPT ![q] = s]
      <4>1. \A p \in Seat : SlicesTo(h, l + 1)[p] = IF p = q THEN s ELSE f[p]
        BY <3>2, <3>5 DEF SlicesTo
      <4>2. SlicesTo(h, l + 1) = [p \in Seat |-> SlicesTo(h, l + 1)[p]]
        BY DEF SlicesTo
      <4> HIDE DEF f, s
      <4> QED
        BY <3>3, <4>1, <4>2
    <3>7. Under(h, l + 1) = l
      BY <3>1, UnderNext
    <3> DEFINE d == IF \A i \in Live(h) : l <= h.total[i] THEN Dead(h) ELSE 0
    <3>8. s + UpTo(h, Under(h, l)) = UpTo(h, l) + d
      BY SliceIs
    <3>9. dead(l) + d = Dead(h) /\ dead(l + 1) = Dead(h) /\ d \in Nat /\ dead(l) \in Nat
      <4>1. Dead(h) \in Nat
        BY DeadIs
      <4>2. (\A i \in Live(h) : l <= h.total[i]) <=> ~(\E i \in Live(h) : h.total[i] < l)
        BY <1>0
      <4>3. h.total[j] < l + 1
        BY <3>1
      <4> QED
        BY <3>1, <4>1, <4>2, <4>3
    <3>10. UpTo(h, Under(h, l)) \in Nat /\ UpTo(h, l) \in Nat
      <4>1. Under(h, l) \in Nat
        BY UnderIs
      <4> QED
        BY <4>1, UpToIs
    <3> HIDE DEF dead, d, s, f
    <3>11. Total(SlicesTo(h, l + 1), N) = Total(f, N) - f[q] + s
      BY <3>3, <3>6, OneChanges
    <3>12. Total(f, N) = UpTo(h, Under(h, l)) + dead(l)
      BY <2>1 DEF f
    <3>13. Total(SlicesTo(h, l + 1), N) = UpTo(h, l) + dead(l + 1)
      BY <3>3, <3>4, <3>8, <3>9, <3>10, <3>11, <3>12
    <3> QED
      BY <3>7, <3>13
  <2> QED
    BY <2>2, <2>3
<1>3. Nat \subseteq S
  <2> HIDE DEF S
  <2> QED
    BY <1>1, <1>2, SetInduction
<1> HIDE DEF dead
<1>4. \A l \in Nat : Total(SlicesTo(h, l), N) = UpTo(h, Under(h, l)) + dead(l)
  BY <1>3
<1> QED
  BY <1>4 DEF dead

LEMMA SomeBound ==
  ASSUME NEW f \in [Seat -> Nat]
  PROVE  \E M \in Nat : f \in [Seat -> 0..M]
<1> DEFINE S == {n \in Nat : n <= N => \E M \in Nat : \A i \in 1..n : f[i] <= M}
<1>0. N \in Nat /\ Seat = 1..N
  BY Constants DEF Seat
<1>1. 0 \in S
  OBVIOUS
<1>2. ASSUME NEW n \in Nat, n \in S
      PROVE  n + 1 \in S
  <2> SUFFICES ASSUME n + 1 <= N
               PROVE  \E M \in Nat : \A i \in 1..(n + 1) : f[i] <= M
    OBVIOUS
  <2>1. PICK M \in Nat : \A i \in 1..n : f[i] <= M
    BY <1>0, <1>2
  <2>2. f[n + 1] \in Nat
    BY <1>0
  <2>3. \A i \in 1..(n + 1) : f[i] \in Nat /\ (i \in 1..n \/ i = n + 1)
    BY <1>0
  <2>4. \A i \in 1..(n + 1) : f[i] <= M + f[n + 1]
    BY <2>1, <2>2, <2>3
  <2> QED
    BY <2>2, <2>4
<1>3. Nat \subseteq S
  <2> HIDE DEF S
  <2> QED
    BY <1>1, <1>2, SetInduction
<1>4. \E M \in Nat : \A i \in 1..N : f[i] <= M
  <2>1. N \in S
    <3> HIDE DEF S
    <3> QED
      BY <1>0, <1>3
  <2> QED
    BY <2>1, <1>0
<1>41. PICK M \in Nat : \A i \in 1..N : f[i] <= M
  BY <1>4
<1>5. \A i \in Seat : f[i] \in 0..M
  BY <1>0, <1>41
<1> QED
  BY <1>5

\* All the slices together are the pot, when nobody still in was outbid.
LEMMA SlicesAreThePot ==
  ASSUME NEW h \in HandSet, Whole(h), ~Overfolded(h)
  PROVE  Total([q \in Seat |-> IF q \in Leaders(h) THEN Slice(h, h.total[q]) ELSE 0], N) = h.pot
<1>1. Live(h) \in SUBSET Seat /\ h.total \in [Seat -> Nat] /\ h.folded \subseteq Seat
  BY HandIs, SomeSeats
<1>2. Live(h) # {}
  <2> SUFFICES ASSUME Live(h) = {}
               PROVE  FALSE
    OBVIOUS
  <2>1. 1 \in Seat
    BY Constants DEF Seat
  <2>2. 1 \in h.folded
    BY <2>1 DEF Live
  <2> QED
    BY <2>2 DEF Overfolded
<1>3. PICK M \in Nat : h.total \in [Seat -> 0..M]
  BY <1>1, SomeBound
<1>4. PICK x \in Live(h) : \A j \in Live(h) : h.total[j] <= h.total[x]
  BY <1>1, <1>2, <1>3, BestExists
<1> DEFINE m == h.total[x]
           g == [q \in Seat |-> IF q \in Leaders(h) THEN Slice(h, h.total[q]) ELSE 0]
<1>5. m \in Nat
  BY <1>1
<1>6. \A p \in Seat : h.total[p] \in Nat /\ h.total[p] <= m
  <2> TAKE p \in Seat
  <2>1. h.total[p] \in Nat /\ \A i \in Live(h) : h.total[i] \in Nat
    BY <1>1
  <2>2. CASE p \in Live(h)
    BY <1>4, <2>1, <2>2
  <2>3. CASE p \notin Live(h)
    <3>1. p \in h.folded
      BY <2>3 DEF Live
    <3>2. PICK i \in Live(h) : ~(h.total[i] < h.total[p])
      BY <3>1 DEF Overfolded
    <3> QED
      BY <1>4, <1>5, <2>1, <3>2
  <2> QED
    BY <2>2, <2>3
<1>7. Under(h, m + 1) = m
  BY <1>5, UnderNext
<1>8. UpTo(h, m) = Total(h.total, N)
  <2>1. [p \in Seat |-> Lesser(h.total[p], m)] = h.total
    <3>1. \A p \in Seat : Lesser(h.total[p], m) = h.total[p]
      BY <1>5, <1>6 DEF Lesser
    <3> QED
      BY <1>1, <3>1
  <2> QED
    BY <2>1 DEF UpTo
<1>9. SlicesTo(h, m + 1) = g
  <2>1. \A q \in Seat : h.total[q] < m + 1
    BY <1>5, <1>6
  <2> QED
    BY <2>1 DEF SlicesTo
<1>10. \E i \in Live(h) : h.total[i] < m + 1
  BY <1>5
<1>11. m + 1 \in Nat
  BY <1>5
<1> HIDE DEF m, g
<1>12. Total(SlicesTo(h, m + 1), N) = UpTo(h, Under(h, m + 1)) + Dead(h)
  BY <1>10, <1>11, SlicesTelescope
<1>13. Total(g, N) = Total(h.total, N) + Total(h.ante, N)
  BY <1>7, <1>8, <1>9, <1>12 DEF Dead
<1>14. Total(g, N) = h.pot
  BY <1>13 DEF Whole
<1> QED
  BY <1>14 DEF g

\* One slice is given out to the last chip, to seats still in.
LEMMA SliceGiven ==
  ASSUME NEW h \in HandSet, NEW q \in Live(h), NEW M \in Nat, NEW r \in [Seat -> 0..M],
         NEW K \in Nat, NEW lo \in [Seat -> 0..K]
  PROVE  /\ [i \in Seat |-> FromSlice(h, h.total[q], i, r, lo)] \in [Seat -> Nat]
         /\ Total([i \in Seat |-> FromSlice(h, h.total[q], i, r, lo)], N) = Slice(h, h.total[q])
         /\ \A i \in Seat \ Live(h) : FromSlice(h, h.total[q], i, r, lo) = 0
<1> DEFINE l == h.total[q]
           s == Slice(h, l)
           H == Highs(h, l, r)
           L == LowsAt(h, l, lo)
           n1 == Halves(s, L # {})[1]
           n2 == Halves(s, L # {})[2]
           a == [i \in Seat |-> ShareOf(i, H, n1, r)]
           b == [i \in Seat |-> ShareOf(i, L, n2, r)]
           f == [i \in Seat |-> FromSlice(h, l, i, r, lo)]
<1>1. Live(h) \subseteq Seat /\ \A i \in Seat : h.total[i] \in Nat
  BY HandIs, SomeSeats
<1>2. l \in Nat /\ q \in Eligible(h, l) /\ Eligible(h, l) \subseteq Live(h)
  BY <1>1 DEF Eligible
<1>3. s \in Nat
  BY <1>2, SliceIs
<1>4. H \subseteq Live(h) /\ L \subseteq Live(h)
  BY <1>2 DEF Highs, LowsAt, BestOf
<1>5. H # {}
  <2>1. Eligible(h, l) \in SUBSET Seat /\ Eligible(h, l) # {}
    BY <1>1, <1>2
  <2>2. PICK x \in Eligible(h, l) : \A j \in Eligible(h, l) : r[j] <= r[x]
    BY <2>1, BestExists
  <2> QED
    BY <2>2 DEF Highs, BestOf
<1>6. n1 \in Nat /\ n2 \in Nat /\ n1 + n2 = s /\ (L = {} => n2 = 0)
  <2> HIDE DEF s, L
  <2>1. s \div 2 \in Nat /\ s \div 2 <= s
    BY <1>3
  <2>2. CASE L = {}
    <3>1. Halves(s, L # {}) = <<s, 0>>
      BY <2>2 DEF Halves
    <3> QED
      BY <1>3, <2>2, <3>1
  <2>3. CASE L # {}
    <3>1. Halves(s, L # {}) = <<s - s \div 2, s \div 2>>
      BY <2>3 DEF Halves
    <3>2. n1 = s - s \div 2 /\ n2 = s \div 2
      BY <3>1
    <3> QED
      BY <1>3, <2>1, <2>3, <3>2
  <2> QED
    BY <2>2, <2>3
<1>7. f = [i \in Seat |-> a[i] + b[i]]
  BY DEF FromSlice
<1>8. \A i \in Seat : /\ i \notin H => a[i] = 0
                      /\ i \notin L => b[i] = 0
  BY DEF ShareOf
<1> HIDE DEF n1, n2, s, f
<1>9. a \in [Seat -> Nat] /\ Total(a, N) = n1
  <2> HIDE DEF H
  <2>1. H \in SUBSET Seat
    BY <1>1, <1>4
  <2> QED
    BY <1>5, <1>6, <2>1, SharesSum
<1>10. b \in [Seat -> Nat] /\ Total(b, N) = n2
  <2>1. CASE L = {}
    <3>1. \A i \in Seat : b[i] = 0
      BY <1>8, <2>1
    <3>2. b = [i \in Seat |-> b[i]]
      OBVIOUS
    <3> HIDE DEF b
    <3>3. Total(b, N) = 0
      BY <3>1, TotalNothing
    <3> QED
      BY <1>6, <2>1, <3>1, <3>2, <3>3
  <2>2. CASE L # {}
    <3> HIDE DEF L
    <3>1. L \in SUBSET Seat
      BY <1>1, <1>4
    <3> QED
      BY <1>6, <2>2, <3>1, SharesSum
  <2> QED
    BY <2>1, <2>2
<1> HIDE DEF a, b, H, L
<1>11. Total(f, N) = s
  <2>1. Total(f, N) = Total(a, N) + Total(b, N)
    BY <1>7, <1>9, <1>10, TotalPlus
  <2> QED
    BY <1>6, <1>9, <1>10, <2>1
<1>12. f \in [Seat -> Nat]
  BY <1>7, <1>9, <1>10
<1>13. \A i \in Seat \ Live(h) : f[i] = 0
  BY <1>4, <1>7, <1>8
<1>14. \A i \in Seat : f[i] = FromSlice(h, l, i, r, lo)
  BY DEF f
<1> QED
  BY <1>11, <1>12, <1>13, <1>14 DEF f, s

LEMMA NothingUnreached ==
  ASSUME NEW h \in HandSet
  PROVE  Unreached(h) \in Nat /\ (~Overfolded(h) => Unreached(h) = 0)
<1> DEFINE f == [p \in Seat |-> IF \A i \in Live(h) : h.total[i] < h.total[p]
                                THEN h.total[p] - Under(h, h.total[p]) ELSE 0]
<1>1. \A p \in Seat : h.total[p] \in Nat
  BY HandIs
<1>2. \A p \in Seat : Under(h, h.total[p]) \in Nat /\ Under(h, h.total[p]) <= h.total[p]
  BY <1>1, UnderIs
<1>3. f \in [Seat -> Nat]
  BY <1>1, <1>2
<1>4. Unreached(h) = Total(f, N)
  BY DEF Unreached
<1>5. ASSUME ~Overfolded(h)
      PROVE  \A p \in Seat : f[p] = 0
  <2> TAKE p \in Seat
  <2>1. CASE p \in Live(h)
    <3>1. ~(h.total[p] < h.total[p])
      BY <1>1
    <3> QED
      BY <2>1, <3>1
  <2>2. CASE p \notin Live(h)
    <3>1. p \in h.folded
      BY <2>2 DEF Live
    <3>2. ~(\A i \in Live(h) : h.total[i] < h.total[p])
      BY <1>5, <3>1 DEF Overfolded
    <3> QED
      BY <3>2
  <2> QED
    BY <2>1, <2>2
<1> HIDE DEF f
<1> QED
  BY <1>3, <1>4, <1>5, TotalNat, TotalNothing

\* What is won is chips, and it is the pot when nobody still in was outbid.
LEMMA WonIsThePot ==
  ASSUME NEW h \in HandSet, Whole(h), NEW M \in Nat, NEW r \in [Seat -> 0..M],
         NEW K \in Nat, NEW lo \in [Seat -> 0..K]
  PROVE  /\ Won(h, r, lo) \in [Seat -> Nat]
         /\ ~Overfolded(h) => Total(Won(h, r, lo), N) = h.pot
<1> DEFINE F == [q \in Seat |-> [i \in Seat |-> IF q \in Leaders(h)
                                                THEN FromSlice(h, h.total[q], i, r, lo) ELSE 0]]
           g == [q \in Seat |-> IF q \in Leaders(h) THEN Slice(h, h.total[q]) ELSE 0]
           w == [i \in Seat |-> FromSlices(h, i, r, lo)]
           left == [i \in Seat |-> Leftover(h, i, r)]
<1>1. Leaders(h) \subseteq Live(h) /\ Live(h) \subseteq Seat
  BY SomeSeats DEF Leaders
<1>2. \A q \in Leaders(h) :
        /\ [i \in Seat |-> FromSlice(h, h.total[q], i, r, lo)] \in [Seat -> Nat]
        /\ Total([i \in Seat |-> FromSlice(h, h.total[q], i, r, lo)], N) = Slice(h, h.total[q])
        /\ \A i \in Seat \ Live(h) : FromSlice(h, h.total[q], i, r, lo) = 0
  BY <1>1, SliceGiven
<1>3. \A q \in Seat : F[q] \in [Seat -> Nat] /\ Total(F[q], N) = g[q]
                      /\ \A i \in Seat \ Live(h) : F[q][i] = 0
  <2> TAKE q \in Seat
  <2>1. CASE q \in Leaders(h)
    <3>1. F[q] = [i \in Seat |-> FromSlice(h, h.total[q], i, r, lo)]
      BY <2>1
    <3>2. g[q] = Slice(h, h.total[q])
      BY <2>1
    <3>3. \A i \in Seat : F[q][i] = FromSlice(h, h.total[q], i, r, lo)
      BY <2>1
    <3> HIDE DEF F, g
    <3> QED
      BY <1>2, <2>1, <3>1, <3>2, <3>3
  <2>2. CASE q \notin Leaders(h)
    <3>1. \A i \in Seat : F[q][i] = 0
      BY <2>2
    <3>2. F[q] = [i \in Seat |-> 0]
      BY <2>2
    <3>3. g[q] = 0
      BY <2>2
    <3> HIDE DEF F, g
    <3>4. Total(F[q], N) = 0
      BY <3>1, TotalNothing
    <3> QED
      BY <3>1, <3>2, <3>3, <3>4
  <2> QED
    BY <2>1, <2>2
<1>4. F = [q \in Seat |-> F[q]] /\ g = [q \in Seat |-> g[q]]
  OBVIOUS
<1>5. \A i \in Seat : w[i] = Total([q \in Seat |-> F[q][i]], N)
  <2> TAKE i \in Seat
  <2>1. w[i] = Total([q \in Seat |-> IF q \in Leaders(h)
                                     THEN FromSlice(h, h.total[q], i, r, lo) ELSE 0], N)
    BY DEF FromSlices
  <2>2. \A q \in Seat : F[q][i] = IF q \in Leaders(h)
                                  THEN FromSlice(h, h.total[q], i, r, lo) ELSE 0
    OBVIOUS
  <2>3. [q \in Seat |-> IF q \in Leaders(h) THEN FromSlice(h, h.total[q], i, r, lo) ELSE 0]
          = [q \in Seat |-> F[q][i]]
    BY <2>2
  <2> QED
    BY <2>1, <2>3
<1>6. w = [i \in Seat |-> w[i]]
  OBVIOUS
<1>7. Won(h, r, lo) = [i \in Seat |-> IF i \in Live(h) THEN w[i] + left[i] ELSE 0]
  BY <1>1 DEF Won
<1>8. \A i \in Seat : left[i] \in Nat /\ (~Overfolded(h) => left[i] = 0)
  <2>1. Unreached(h) \in Nat /\ (~Overfolded(h) => Unreached(h) = 0)
    BY NothingUnreached
  <2> QED
    BY <2>1 DEF Leftover
<1> HIDE DEF F, g, w, left
<1>9. F \in [Seat -> [Seat -> Int]]
  <2>1. \A q \in Seat : F[q] \in [Seat -> Int]
    BY <1>3
  <2> QED
    BY <1>4, <2>1
<1>10. \A i \in Seat : w[i] \in Nat /\ (i \notin Live(h) => w[i] = 0)
  <2> TAKE i \in Seat
  <2> DEFINE c == [q \in Seat |-> F[q][i]]
  <2>1. c \in [Seat -> Nat]
    BY <1>3
  <2>2. i \notin Live(h) => \A q \in Seat : c[q] = 0
    BY <1>3
  <2>3. w[i] = Total(c, N)
    BY <1>5
  <2> HIDE DEF c
  <2> QED
    BY <2>1, <2>2, <2>3, TotalNat, TotalNothing
<1>11. Won(h, r, lo) \in [Seat -> Nat]
  BY <1>7, <1>8, <1>10
<1>12. ASSUME ~Overfolded(h)
       PROVE  Total(Won(h, r, lo), N) = h.pot
  <2>1. Won(h, r, lo) = [i \in Seat |-> Total([q \in Seat |-> F[q][i]], N)]
    <3>1. \A i \in Seat : (IF i \in Live(h) THEN w[i] + left[i] ELSE 0) = w[i]
      BY <1>8, <1>10, <1>12
    <3>2. Won(h, r, lo) = [i \in Seat |-> w[i]]
      BY <1>7, <3>1
    <3> QED
      BY <1>5, <3>2
  <2>2. Total(Won(h, r, lo), N) = Total([q \in Seat |-> Total(F[q], N)], N)
    BY <1>9, <2>1, TotalExchange
  <2>3. [q \in Seat |-> Total(F[q], N)] = g
    BY <1>3, <1>4
  <2>4. Total(g, N) = h.pot
    BY <1>12, SlicesAreThePot DEF g
  <2> QED
    BY <2>2, <2>3, <2>4
<1> QED
  BY <1>11, <1>12

-----------------------------------------------------------------------------
(* The invariant *)

HandStands == Standing(hand) /\ hand.game \in DOMAIN Rules /\ hand.beat # "now"

Timer == [seat : Seat \union {None}, armed : BOOLEAN]

\* The conjuncts of TypeOK about what is not in the hand.
PeopleTyped ==
  /\ requested \subseteq autoPlay /\ autoPlay \subseteq Seat /\ away \subseteq Seat
  /\ strikes \in [Seat -> 0..2]
  /\ arm \in [Seat -> Line]
  /\ clock \in Seat \union {None}
  /\ timer \in Timer
  /\ shown \in [rank : [Seat -> Nat], low : [Seat -> Nat]] /\ won \in [Seat -> Nat]
  /\ offered \in 0..MaxOffers

\* The clock runs in a hand only; then its answers are answers to a hand.
ClockInHand == clock # None => hand.on

IInv == HandStands /\ PeopleTyped /\ ClockInHand

LEMMA HandStandsNext ==
  ASSUME HandStands, NEW h, Standing(h), h.beat # "now", hand' = h
  PROVE  HandStands'
<1>1. hand'.game = hand.game
  BY DEF Standing
<1>2. Len(Streets)' = Len(Streets)
  BY <1>1 DEF Streets, Game
<1>3. hand' \in HandSet
  BY DEF Standing
<1>4. InStreets(hand)'
  BY <1>2 DEF Standing, InStreets
<1>5. (hand.on => Whole(hand) /\ Matched(hand))'
  BY DEF Standing, Whole, Matched
<1>6. (~hand.on /\ ~Overfolded(hand) => Total(hand.chips, N) = hand.staked)'
  BY DEF Standing, Overfolded, Live
<1>7. Standing(hand)'
  BY <1>3, <1>4, <1>5, <1>6 DEF Standing
<1> QED
  BY <1>1, <1>7 DEF HandStands

LEMMA Lined == NoLine \in Line /\ NoTimer \in Timer
  BY DEF NoLine, Line, NoTimer, Timer, None

LEMMA NothingIsShown ==
  NothingShown \in [rank : [Seat -> Nat], low : [Seat -> Nat]] /\ Zero \in [Seat -> Nat]
<1>1. Zero \in [Seat -> Nat]
  BY ZeroIs
<1> QED
  BY <1>1 DEF NothingShown

\* A turn that opens sets one clock or one timer, for the seat it is put to.
LEMMA TurnTyped ==
  ASSUME NEW h, h.cur \in Seat, NEW auto, NEW lines, NEW t \in Timer, TurnOpens(h, auto, lines, t)
  PROVE  clock' \in Seat \union {None} /\ timer' \in Timer
<1> DEFINE i == h.cur
           idle == i \in h.folded \/ (i \in h.allIn /\ ~h.drawing)
           armed == /\ lines[i] # NoLine /\ ~h.drawing
                    /\ i \notin h.folded \union h.allIn
<1>1. [seat |-> i, armed |-> FALSE] \in Timer /\ [seat |-> i, armed |-> TRUE] \in Timer
  BY DEF Timer
<1>2. CASE Automated(i, auto)
  <2>1. clock' = None /\ timer' \in {t, [seat |-> i, armed |-> FALSE]}
    BY <1>2 DEF TurnOpens
  <2> QED
    BY <1>1, <2>1
<1>3. CASE ~Automated(i, auto) /\ armed
  <2>1. clock' = None /\ timer' = [seat |-> i, armed |-> TRUE]
    BY <1>3 DEF TurnOpens
  <2> QED
    BY <1>1, <2>1
<1>4. CASE ~Automated(i, auto) /\ ~armed
  <2>1. clock' \in {None, i} /\ timer' = t
    BY <1>4 DEF TurnOpens
  <2> QED
    BY <2>1
<1> QED
  BY <1>2, <1>3, <1>4

LEMMA MovesStand ==
  ASSUME HandStands, NEW h, Standing(h), h.beat # "now", NEW lines \in [Seat -> Line],
         NEW t \in Timer, MovesTo(h, lines, t)
  PROVE  /\ hand' = h /\ HandStands' /\ ClockInHand'
         /\ arm' \in [Seat -> Line] /\ clock' \in Seat \union {None} /\ timer' \in Timer
<1>1. hand' = h /\ arm' = lines
  BY DEF MovesTo
<1>2. HandStands'
  BY <1>1, HandStandsNext
<1>3. h \in HandSet
  BY DEF Standing
<1>4. h.cur \in Seat
  BY <1>3, HandIs
<1>5. CASE h.on /\ h.beat = "none"
  <2>1. TurnOpens(h, autoPlay, lines, t)
    BY <1>5 DEF MovesTo
  <2>2. clock' \in Seat \union {None} /\ timer' \in Timer
    BY <1>4, <2>1, TurnTyped
  <2>3. ClockInHand'
    BY <1>1, <1>5 DEF ClockInHand
  <2> QED
    BY <1>1, <1>2, <2>2, <2>3
<1>6. CASE ~(h.on /\ h.beat = "none")
  <2>1. clock' = None /\ timer' = t
    BY <1>6 DEF MovesTo
  <2> QED
    BY <1>1, <1>2, <2>1 DEF ClockInHand
<1> QED
  BY <1>5, <1>6

\* The showdown pays out the pot it finds.
LEMMA ShowdownStands ==
  ASSUME HandStands, NEW h, Standing(h), h.on, Showdown(h)
  PROVE  /\ HandStands' /\ clock' = None /\ Richer(hand', h)
         /\ shown' \in [rank : [Seat -> Nat], low : [Seat -> Nat]] /\ won' \in [Seat -> Nat]
<1>1. PICK r \in Shown(h, Ranks), lo \in Shown(h, Lows) :
         /\ shown' = [rank |-> r, low |-> lo]
         /\ won' = Won(h, r, lo)
         /\ hand' = [h EXCEPT !.on = FALSE, !.beat = "none", !.pot = 0,
                              !.chips = [i \in Seat |-> h.chips[i] + won'[i]]]
         /\ clock' = None
  BY DEF Showdown
<1>2. Ranks \in Nat /\ Lows \in Nat
  BY Constants, GameIs DEF HandStands
<1>3. r \in [Seat -> 0..Ranks] /\ lo \in [Seat -> 0..Lows]
  BY DEF Shown
<1>4. h \in HandSet /\ Whole(h)
  BY DEF Standing
<1> DEFINE w == Won(h, r, lo)
           c == [i \in Seat |-> h.chips[i] + w[i]]
           g == [h EXCEPT !.on = FALSE, !.beat = "none", !.pot = 0, !.chips = c]
<1>5. w \in [Seat -> Nat] /\ (~Overfolded(h) => Total(w, N) = h.pot)
  BY <1>2, <1>3, <1>4, WonIsThePot
<1>6. hand' = g /\ won' = w
  BY <1>1
<1> HIDE DEF w
<1>7. h.chips \in [Seat -> Nat] /\ h.pot \in Nat /\ h.staked \in Nat
  BY <1>4, HandIs
<1>8. c \in [Seat -> Nat] /\ \A i \in Seat : c[i] >= h.chips[i]
  BY <1>5, <1>7
<1>9. Total(c, N) = Total(h.chips, N) + Total(w, N)
  <2>1. h.chips \in [Seat -> Int] /\ w \in [Seat -> Int]
    BY <1>5, <1>7
  <2> QED
    BY <2>1, TotalPlus
<1>10. Total(h.chips, N) + h.pot = h.staked
  BY <1>4 DEF Whole
<1> HIDE DEF c
<1>11. g \in HandSet
  <2> DEFINE y == [[h EXCEPT !.on = FALSE] EXCEPT !.beat = "none"]
  <2>1. y \in HandSet
    <3>1. [h EXCEPT !.on = FALSE] \in HandSet
      BY <1>4, OneField
    <3> QED
      BY <3>1, OneField DEF Beats
  <2>2. [[y EXCEPT !.pot = 0] EXCEPT !.chips = c] \in HandSet
    <3> HIDE DEF y
    <3>1. [y EXCEPT !.pot = 0] \in HandSet
      BY <2>1, OneField
    <3> QED
      BY <1>8, <3>1, OneField
  <2>3. g = [[y EXCEPT !.pot = 0] EXCEPT !.chips = c]
    BY <1>4 DEF HandSet
  <2> QED
    BY <2>2, <2>3
<1>12. /\ g.chips = c /\ g.staked = h.staked /\ g.on = FALSE /\ g.beat = "none"
       /\ g.street = h.street /\ g.game = h.game /\ g.folded = h.folded /\ g.total = h.total
  BY <1>4 DEF HandSet
<1> HIDE DEF g
<1>13. InStreets(g)
  BY <1>12 DEF Standing, InStreets
<1>14. Overfolded(g) <=> Overfolded(h)
  BY <1>12 DEF Overfolded, Live
<1>15. ~Overfolded(g) => Total(g.chips, N) = g.staked
  BY <1>5, <1>9, <1>10, <1>12, <1>14
<1>16. Standing(g)
  BY <1>11, <1>12, <1>13, <1>15 DEF Standing
<1>17. HandStands'
  BY <1>6, <1>12, <1>16, HandStandsNext
<1>18. Richer(hand', h)
  BY <1>6, <1>8, <1>12 DEF Richer
<1>19. r \in [Seat -> Nat] /\ lo \in [Seat -> Nat]
  <2>1. \A i \in Seat : r[i] \in Nat /\ lo[i] \in Nat
    BY <1>2, <1>3
  <2> QED
    BY <1>3, <2>1
<1>20. shown' \in [rank : [Seat -> Nat], low : [Seat -> Nat]]
  BY <1>1, <1>19
<1> QED
  BY <1>1, <1>5, <1>6, <1>17, <1>18, <1>20

\* What every handler that moves the hand on leaves behind.
Arrived ==
  /\ HandStands' /\ ClockInHand'
  /\ arm' \in [Seat -> Line] /\ clock' \in Seat \union {None} /\ timer' \in Timer

LEMMA LinesTyped ==
  ASSUME arm \in [Seat -> Line], NEW g, NEW i
  PROVE  LinesLeft(g, i) \in [Seat -> Line]
  BY Lined DEF LinesLeft

LEMMA HandOf ==
  ASSUME HandStands
  PROVE  /\ Standing(hand) /\ hand \in HandSet /\ hand.game \in DOMAIN Rules /\ hand.beat # "now"
         /\ hand.cur \in Seat /\ hand.chips \in [Seat -> Nat] /\ hand.bet \in [Seat -> Nat]
         /\ hand.price \in Nat /\ hand.minRaise \in Nat /\ hand.pot \in Nat
         /\ hand.on => Whole(hand) /\ Matched(hand)
<1>1. hand \in HandSet
  BY DEF HandStands, Standing
<1> QED
  BY <1>1, HandIs DEF HandStands, Standing

\* An answer moves no chips but the seat's own, and none when it folds or checks.
LEMMA AnswerHandled ==
  ASSUME HandStands, arm \in [Seat -> Line], hand.on, NEW i \in Seat, NEW t \in Timer,
         NEW g, Kept(g, hand, i), MovesTo(Answered(g, i), LinesLeft(g, i), t)
  PROVE  /\ Arrived /\ \A j \in Seat \ {i} : hand'.chips[j] >= hand.chips[j]
         /\ g.chips = hand.chips => Richer(hand', hand)
<1>1. Standing(hand) /\ hand.beat # "now" /\ hand.game \in DOMAIN Rules
      /\ hand.chips \in [Seat -> Nat]
  BY HandOf
<1> DEFINE h == Answered(g, i)
           lines == LinesLeft(g, i)
<1>2. Standing(h) /\ Richer(h, g) /\ h.beat # "now"
  BY <1>1, AnsweredStands
<1>3. lines \in [Seat -> Line]
  BY LinesTyped
<1> HIDE DEF h, lines
<1>4. MovesTo(h, lines, t)
  BY DEF h, lines
<1>5. hand' = h /\ Arrived
  BY <1>2, <1>3, <1>4, MovesStand DEF Arrived
<1>6. \A j \in Seat \ {i} : g.chips[j] = hand.chips[j]
  BY DEF Kept
<1>7. \A j \in Seat : h.chips[j] >= g.chips[j]
  BY <1>2 DEF Richer
<1> QED
  BY <1>5, <1>6, <1>7 DEF Richer

LEMMA HandleStands ==
  ASSUME HandStands, arm \in [Seat -> Line], hand.on, NEW i \in Seat, NEW t \in Timer,
         NEW a \in Actions, HandleAction(i, a, t)
  PROVE  /\ Arrived /\ \A j \in Seat \ {i} : hand'.chips[j] >= hand.chips[j]
         /\ a \in {"fold", "check"} => Richer(hand', hand)
<1>1. hand \in HandSet /\ hand.game \in DOMAIN Rules /\ Whole(hand) /\ Matched(hand)
  BY HandOf
<1>2. PICK g \in Answers(hand, i, a) : MovesTo(Answered(g, i), LinesLeft(g, i), t)
  BY DEF HandleAction
<1>3. Kept(g, hand, i)
  BY <1>1, AnswerKept
<1>4. /\ Arrived /\ \A j \in Seat \ {i} : hand'.chips[j] >= hand.chips[j]
      /\ g.chips = hand.chips => Richer(hand', hand)
  BY <1>2, <1>3, AnswerHandled
<1>5. CASE a = "fold"
  <2> DEFINE F == hand.folded \union {i}
  <2>1. g = [hand EXCEPT !.folded = F]
    BY <1>2, <1>5 DEF Answers
  <2> HIDE DEF F
  <2>2. g.chips = hand.chips
    BY <1>1, <2>1 DEF HandSet
  <2> QED
    BY <1>4, <2>2
<1>6. CASE a = "check"
  <2>1. g = hand
    BY <1>2, <1>6 DEF Answers
  <2> QED
    BY <1>4, <2>1
<1> QED
  BY <1>4, <1>5, <1>6

LEMMA DrawHandled ==
  ASSUME HandStands, arm \in [Seat -> Line], hand.on, NEW i \in Seat, NEW t \in Timer,
         HandleDraw(i, t)
  PROVE  Arrived /\ Richer(hand', hand)
<1>1. Standing(hand) /\ hand.beat # "now" /\ hand.game \in DOMAIN Rules
  BY HandOf
<1> DEFINE h == AdvanceDraw(hand)
<1>2. Standing(h) /\ Richer(h, hand) /\ h.beat # "now"
  BY <1>1, DrawStands
<1> HIDE DEF h
<1>3. MovesTo(h, arm, t)
  BY DEF h, HandleDraw
<1> QED
  BY <1>2, <1>3, MovesStand DEF Arrived

LEMMA StrikesTyped ==
  ASSUME strikes \in [Seat -> 0..2], NEW i, NEW n \in 0..2
  PROVE  [strikes EXCEPT ![i] = n] \in [Seat -> 0..2]
  OBVIOUS

\* An arrival, and what else a handler may have changed.
LEMMA ArrivedKeeps ==
  ASSUME IInv, Arrived, autoPlay' = autoPlay, strikes' \in [Seat -> 0..2],
         requested' = requested, away' = away, offered' = offered,
         shown' \in [rank : [Seat -> Nat], low : [Seat -> Nat]], won' \in [Seat -> Nat]
  PROVE  IInv'
  BY DEF IInv, Arrived, PeopleTyped

LEMMA DealKeeps ==
  ASSUME IInv, Deal
  PROVE  IInv'
<1>1. HandStands /\ timer \in Timer /\ hand.game \in DOMAIN Rules
  BY DEF IInv, PeopleTyped, HandStands
<1>2. PICK s \in Stacks : \E h \in Dealt(s) : MovesTo(h, [i \in Seat |-> NoLine], timer)
  BY DEF Deal
<1>3. PICK h \in Dealt(s) : MovesTo(h, [i \in Seat |-> NoLine], timer)
  BY <1>2
<1>4. Standing(h) /\ h.beat # "now"
  <2>1. Standing(h) /\ h.beat = "none"
    BY <1>1, DealtStands
  <2> QED
    BY <2>1
<1>5. [i \in Seat |-> NoLine] \in [Seat -> Line]
  BY Lined
<1>6. Arrived
  BY <1>1, <1>3, <1>4, <1>5, MovesStand DEF Arrived
<1>7. shown' = NothingShown /\ won' = Zero /\ autoPlay' = autoPlay /\ strikes' = strikes
      /\ requested' = requested /\ away' = away /\ offered' = offered
  BY DEF Deal, NotOffered
<1>8. strikes \in [Seat -> 0..2]
  BY DEF IInv, PeopleTyped
<1> QED
  BY <1>6, <1>7, <1>8, NothingIsShown, ArrivedKeeps

LEMMA ActKeeps ==
  ASSUME IInv, NEW i \in Seat, Act(i)
  PROVE  IInv'
<1>1. HandStands /\ arm \in [Seat -> Line] /\ timer \in Timer /\ strikes \in [Seat -> 0..2]
      /\ shown \in [rank : [Seat -> Nat], low : [Seat -> Nat]] /\ won \in [Seat -> Nat]
  BY DEF IInv, PeopleTyped
<1>2. hand.on /\ strikes' = [strikes EXCEPT ![i] = 0] /\ autoPlay' = autoPlay /\ shown' = shown
      /\ won' = won /\ requested' = requested /\ away' = away /\ offered' = offered
  BY DEF Act, NotOffered, result
<1>3. (\E a \in Actions : HandleAction(i, a, timer)) \/ HandleDraw(i, timer)
  BY DEF Act
<1>4. Arrived
  <2>1. CASE \E a \in Actions : HandleAction(i, a, timer)
    BY <1>1, <1>2, <2>1, HandleStands
  <2>2. CASE HandleDraw(i, timer)
    BY <1>1, <1>2, <2>2, DrawHandled
  <2> QED
    BY <1>3, <2>1, <2>2
<1>5. strikes' \in [Seat -> 0..2]
  BY <1>1, <1>2, StrikesTyped
<1> QED
  BY <1>1, <1>2, <1>4, <1>5, ArrivedKeeps

\* Whoever is sat out or plays on gets nothing taken.
PaysNothing == \A i \in autoPlay \ Bots : hand'.chips[i] >= hand.chips[i]

LEMMA RicherPaysNothing ==
  ASSUME PeopleTyped, Richer(hand', hand)
  PROVE  PaysNothing
  BY DEF PaysNothing, Richer, PeopleTyped

LEMMA ClockActsKeeps ==
  ASSUME IInv, ClockActs
  PROVE  IInv' /\ PaysNothing
<1>1. /\ HandStands /\ PeopleTyped /\ arm \in [Seat -> Line] /\ timer \in Timer
      /\ clock \in Seat \union {None}
      /\ strikes \in [Seat -> 0..2] /\ shown \in [rank : [Seat -> Nat], low : [Seat -> Nat]]
      /\ won \in [Seat -> Nat]
  BY DEF IInv, PeopleTyped
<1>2. clock # None /\ strikes' = [strikes EXCEPT ![clock] = 1] /\ autoPlay' = autoPlay
      /\ shown' = shown /\ won' = won /\ requested' = requested /\ away' = away
      /\ offered' = offered
  BY DEF ClockActs, NotOffered, result
<1>3. clock \in Seat /\ hand.on
  BY <1>1, <1>2 DEF IInv, ClockInHand
<1>4. strikes' \in [Seat -> 0..2]
  BY <1>1, <1>2, StrikesTyped
<1>5. Arrived /\ Richer(hand', hand)
  <2> DEFINE a == IF ToCall(hand, clock) <= 0 THEN "check" ELSE "fold"
  <2>1. CASE HandleAction(clock, a, timer)
    <3>1. a \in Actions /\ a \in {"fold", "check"}
      BY DEF Actions
    <3> HIDE DEF a
    <3> QED
      BY <1>1, <1>3, <2>1, <3>1, HandleStands
  <2>2. CASE HandleDraw(clock, timer)
    BY <1>1, <1>3, <2>2, DrawHandled
  <2>3. CASE clock' = None /\ UNCHANGED <<hand, arm, timer>>
    <3>1. Standing(hand) /\ hand.beat # "now" /\ \A i \in Seat : hand.chips[i] \in Nat
      BY <1>1, HandOf
    <3>2. HandStands' /\ ClockInHand' /\ Richer(hand', hand)
      BY <1>1, <2>3, <3>1, HandStandsNext DEF ClockInHand, Richer
    <3> QED
      BY <1>1, <2>3, <3>2 DEF Arrived
  <2> QED
    BY <2>1, <2>2, <2>3 DEF ClockActs
<1>6. IInv'
  BY <1>1, <1>2, <1>4, <1>5, ArrivedKeeps
<1> QED
  BY <1>1, <1>5, <1>6, RicherPaysNothing

\* The hand untouched and standing as it stood.
LEMMA HandRests ==
  ASSUME IInv, hand' = hand
  PROVE  HandStands' /\ PaysNothing
<1>1. HandStands /\ Standing(hand) /\ hand.beat # "now" /\ \A i \in Seat : hand.chips[i] \in Nat
  BY HandOf DEF IInv
<1>2. PaysNothing
  BY <1>1 DEF PaysNothing, IInv, PeopleTyped
<1> QED
  BY <1>1, <1>2, HandStandsNext

LEMMA ClockSitsOutKeeps ==
  ASSUME IInv, ClockSitsOut
  PROVE  IInv' /\ PaysNothing
<1>1. /\ clock # None /\ autoPlay' = autoPlay \union {clock} /\ clock' = None
      /\ strikes' = [strikes EXCEPT ![clock] = 2]
      /\ timer' = [seat |-> clock, armed |-> FALSE]
      /\ hand' = hand /\ arm' = arm /\ shown' = shown /\ won' = won
      /\ requested' = requested /\ away' = away /\ offered' = offered
  BY DEF ClockSitsOut, NotOffered, result
<1>2. PeopleTyped /\ clock \in Seat
  BY <1>1 DEF IInv, PeopleTyped
<1>3. timer' \in Timer
  BY <1>1, <1>2 DEF Timer
<1>4. strikes' \in [Seat -> 0..2]
  BY <1>1, <1>2, StrikesTyped DEF PeopleTyped
<1>5. PeopleTyped'
  BY <1>1, <1>2, <1>3, <1>4 DEF PeopleTyped
<1>6. ClockInHand'
  BY <1>1 DEF ClockInHand
<1> QED
  BY <1>1, <1>5, <1>6, HandRests DEF IInv

\* An automated seat that is no bot gives its hand up; a bot pays for itself.
LEMMA TimerActsKeeps ==
  ASSUME IInv, TimerActs
  PROVE  IInv' /\ PaysNothing
<1>1. /\ HandStands /\ PeopleTyped /\ arm \in [Seat -> Line] /\ timer \in Timer
      /\ strikes \in [Seat -> 0..2] /\ shown \in [rank : [Seat -> Nat], low : [Seat -> Nat]]
      /\ won \in [Seat -> Nat] /\ autoPlay \subseteq Seat
  BY DEF IInv, PeopleTyped
<1> DEFINE i == timer.seat
<1>2. strikes' = [strikes EXCEPT ![i] = 0] /\ autoPlay' = autoPlay
      /\ shown' = shown /\ won' = won /\ requested' = requested /\ away' = away
      /\ offered' = offered /\ TimerStands(i) /\ AutoTurn(i)
  BY DEF TimerActs, NotOffered, result
<1> HIDE DEF i
<1>3. hand.on /\ i = hand.cur /\ i \in Seat
  BY <1>1, <1>2, HandOf DEF TimerStands
<1>4. strikes' \in [Seat -> 0..2]
  BY <1>1, <1>2, StrikesTyped
<1>5. NoTimer \in Timer
  BY Lined
<1>6. Arrived /\ PaysNothing
  <2>1. CASE HandleDraw(i, NoTimer)
    BY <1>1, <1>3, <1>5, <2>1, DrawHandled, RicherPaysNothing
  <2>2. CASE \E a \in Automatic(i) \ {"raise"} : HandleAction(i, a, NoTimer)
    <3>1. PICK a \in Automatic(i) \ {"raise"} : HandleAction(i, a, NoTimer)
      BY <2>2
    <3>2. a \in {"fold", "check", "call"} /\ (i \notin Bots => a \in {"fold", "check"})
      BY <3>1 DEF Automatic
    <3>3. a \in Actions
      BY <3>2 DEF Actions
    <3>4. /\ Arrived /\ \A j \in Seat \ {i} : hand'.chips[j] >= hand.chips[j]
          /\ a \in {"fold", "check"} => Richer(hand', hand)
      BY <1>1, <1>3, <1>5, <3>1, <3>3, HandleStands
    <3>5. CASE i \notin Bots
      BY <1>1, <3>2, <3>4, <3>5, RicherPaysNothing
    <3>6. CASE i \in Bots
      BY <1>1, <3>4, <3>6 DEF PaysNothing
    <3> QED
      BY <3>4, <3>5, <3>6
  <2>3. CASE /\ "raise" \in Automatic(i)
             /\ MayAnswer(hand, i)
             /\ LET g == RaisedTo(hand, i, BotRaise) IN
                MovesTo(Answered(g, i), LinesLeft(g, i), NoTimer)
    <3>1. i \in Bots
      BY <2>3 DEF Automatic
    <3> DEFINE g == RaisedTo(hand, i, BotRaise)
    <3>2. hand \in HandSet /\ hand.game \in DOMAIN Rules /\ Whole(hand) /\ Matched(hand)
          /\ hand.price \in Nat /\ hand.minRaise \in Nat /\ hand.pot \in Nat
      BY <1>1, <1>3, HandOf
    <3>3. BotRaise \in Int
      <4>1. (hand.pot + 1) \div 2 \in Nat
        BY <3>2
      <4>2. Greater(hand.minRaise, (hand.pot + 1) \div 2) \in Nat
        BY <3>2, <4>1, Least
      <4> QED
        BY <3>2, <4>2 DEF BotRaise
    <3>4. Kept(g, hand, i)
      BY <1>3, <3>2, <3>3, RaisedToKept
    <3>5. MovesTo(Answered(g, i), LinesLeft(g, i), NoTimer)
      BY <2>3
    <3> HIDE DEF g
    <3>6. Arrived /\ \A j \in Seat \ {i} : hand'.chips[j] >= hand.chips[j]
      BY <1>1, <1>3, <1>5, <3>4, <3>5, AnswerHandled
    <3> QED
      BY <1>1, <3>1, <3>6 DEF PaysNothing
  <2> QED
    BY <1>2, <2>1, <2>2, <2>3 DEF AutoTurn
<1> QED
  BY <1>1, <1>2, <1>4, <1>6, ArrivedKeeps

LEMMA TimerLapsesKeeps ==
  ASSUME IInv, TimerLapses
  PROVE  IInv' /\ PaysNothing
<1>1. /\ timer' = NoTimer /\ hand' = hand /\ autoPlay' = autoPlay /\ strikes' = strikes
      /\ arm' = arm /\ clock' = clock /\ shown' = shown /\ won' = won
      /\ requested' = requested /\ away' = away /\ offered' = offered
  BY DEF TimerLapses, NotOffered, result
<1>2. PeopleTyped'
  BY <1>1, Lined DEF IInv, PeopleTyped
<1>3. ClockInHand'
  BY <1>1 DEF IInv, ClockInHand
<1> QED
  BY <1>1, <1>2, <1>3, HandRests DEF IInv

\* A line is played for a seat that is there, and a call at the price it was
\* armed against.
LEMMA LinePlayedKeeps ==
  ASSUME IInv, LinePlayed
  PROVE  /\ IInv' /\ PaysNothing
         /\ arm[timer.seat].kind = "call" => arm[timer.seat].cost = ToCall(hand, timer.seat)
<1>1. /\ HandStands /\ PeopleTyped /\ arm \in [Seat -> Line] /\ timer \in Timer
      /\ strikes \in [Seat -> 0..2] /\ shown \in [rank : [Seat -> Nat], low : [Seat -> Nat]]
      /\ won \in [Seat -> Nat] /\ autoPlay \subseteq Seat
  BY DEF IInv, PeopleTyped
<1> DEFINE i == timer.seat
<1>2. strikes' = [strikes EXCEPT ![i] = 0] /\ autoPlay' = autoPlay
      /\ shown' = shown /\ won' = won /\ requested' = requested /\ away' = away
      /\ offered' = offered /\ LineStands(i)
  BY DEF LinePlayed, NotOffered, result
<1>3. PICK a \in Resolved(i) : HandleAction(i, a, NoTimer)
  BY DEF LinePlayed
<1> HIDE DEF i
<1>4. hand.on /\ i = hand.cur /\ i \in Seat /\ i \notin autoPlay
  BY <1>1, <1>2, HandOf DEF LineStands, Automated
<1>5. strikes' \in [Seat -> 0..2]
  BY <1>1, <1>2, StrikesTyped
<1>6. NoTimer \in Timer
  BY Lined
<1>7. a \in {"check", "fold", "call"}
  <2>1. Resolved(i) \subseteq {"check", "fold", "call"}
    BY DEF Resolved
  <2> QED
    BY <2>1
<1>8. a \in Actions
  BY <1>7 DEF Actions
<1>9. Arrived /\ \A j \in Seat \ {i} : hand'.chips[j] >= hand.chips[j]
  BY <1>1, <1>3, <1>4, <1>6, <1>8, HandleStands
<1>10. PaysNothing
  BY <1>1, <1>4, <1>9 DEF PaysNothing
<1>11. arm[i].kind = "call" => arm[i].cost = ToCall(hand, i)
  BY <1>3 DEF Resolved
<1>12. IInv'
  BY <1>1, <1>2, <1>5, <1>9, ArrivedKeeps
<1> QED
  BY <1>10, <1>11, <1>12 DEF i

LEMMA LineVoidKeeps ==
  ASSUME IInv, LineVoid
  PROVE  IInv' /\ PaysNothing
<1>1. /\ arm' = [arm EXCEPT ![timer.seat] = NoLine] /\ timer' = NoTimer
      /\ clock' \in {None, timer.seat} /\ LineStands(timer.seat)
      /\ hand' = hand /\ autoPlay' = autoPlay /\ strikes' = strikes
      /\ shown' = shown /\ won' = won
      /\ requested' = requested /\ away' = away /\ offered' = offered
  BY DEF LineVoid, NotOffered, result
<1>2. PeopleTyped /\ timer.seat \in Seat \union {None}
  BY DEF IInv, PeopleTyped, Timer
<1>3. arm' \in [Seat -> Line]
  BY <1>1, <1>2, Lined DEF PeopleTyped
<1>4. PeopleTyped'
  BY <1>1, <1>2, <1>3, Lined DEF PeopleTyped
<1>5. ClockInHand'
  BY <1>1 DEF ClockInHand, LineStands
<1> QED
  BY <1>1, <1>4, <1>5, HandRests DEF IInv

\* A beat between streets ends in a turn, another beat, or the showdown.
LEMMA BeatStands ==
  ASSUME IInv, NEW h, Standing(h), h.on, arm' \in [Seat -> Line], BeatLeadsTo(h)
  PROVE  /\ Arrived
         /\ shown' \in [rank : [Seat -> Nat], low : [Seat -> Nat]] /\ won' \in [Seat -> Nat]
<1>1. /\ HandStands /\ timer \in Timer /\ clock \in Seat \union {None}
      /\ shown \in [rank : [Seat -> Nat], low : [Seat -> Nat]] /\ won \in [Seat -> Nat]
  BY DEF IInv, PeopleTyped
<1>2. CASE h.beat = "now"
  <2>1. Showdown(h) /\ timer' = timer
    BY <1>2 DEF BeatLeadsTo
  <2>2. /\ HandStands' /\ clock' = None
        /\ shown' \in [rank : [Seat -> Nat], low : [Seat -> Nat]] /\ won' \in [Seat -> Nat]
    BY <1>1, <2>1, ShowdownStands
  <2>3. ClockInHand'
    BY <2>2 DEF ClockInHand
  <2> QED
    BY <1>1, <2>1, <2>2, <2>3 DEF Arrived
<1>3. CASE h.beat # "now"
  <2>1. hand' = h /\ shown' = shown /\ won' = won
    BY <1>3 DEF BeatLeadsTo, result
  <2>2. HandStands'
    BY <1>1, <1>3, <2>1, HandStandsNext
  <2>3. ClockInHand'
    BY <2>1 DEF ClockInHand
  <2>4. clock' \in Seat \union {None} /\ timer' \in Timer
    <3>1. CASE h.beat = "none"
      <4>1. TurnOpens(h, autoPlay, arm', timer)
        BY <1>3, <3>1 DEF BeatLeadsTo
      <4>2. h.cur \in Seat
        BY HandIs DEF Standing
      <4> QED
        BY <1>1, <4>1, <4>2, TurnTyped
    <3>2. CASE h.beat # "none"
      BY <1>1, <1>3, <3>2 DEF BeatLeadsTo, timers
    <3> QED
      BY <3>1, <3>2
  <2> QED
    BY <1>1, <2>1, <2>2, <2>3, <2>4 DEF Arrived
<1> QED
  BY <1>2, <1>3

LEMMA NowStands ==
  ASSUME NEW h, Standing(h), h.on
  PROVE  Standing([h EXCEPT !.beat = "now"]) /\ [h EXCEPT !.beat = "now"].on = h.on
<1> DEFINE g == [h EXCEPT !.beat = "now"]
<1>1. h \in HandSet /\ Matched(h) /\ InStreets(h)
  BY DEF Standing
<1>2. g \in HandSet
  BY <1>1, OneField DEF Beats
<1>3. SameMoney(g, h) /\ g.bet = h.bet /\ g.price = h.price /\ g.beat = "now"
      /\ g.street = h.street /\ g.on = h.on
  BY <1>1 DEF HandSet, SameMoney
<1> HIDE DEF g
<1>4. Matched(g) /\ InStreets(g)
  BY <1>1, <1>3 DEF Matched, InStreets
<1> QED
  BY <1>2, <1>3, <1>4, MoneyStands DEF g

\* A beat that is over leads to a hand that stands.
LEMMA BeatsLead ==
  ASSUME IInv, BeatEnds
  PROVE  \E h : Standing(h) /\ h.on /\ arm' \in [Seat -> Line] /\ BeatLeadsTo(h)
<1>1. hand.on /\ autoPlay' = autoPlay /\ strikes' = strikes /\ requested' = requested
      /\ away' = away /\ offered' = offered
  BY DEF BeatEnds, OpenStreet, RunOutStreet, ShowHands, NotOffered
<1>2. HandStands /\ Standing(hand) /\ hand \in HandSet /\ hand.game \in DOMAIN Rules
      /\ Matched(hand) /\ InStreets(hand) /\ arm \in [Seat -> Line]
      /\ strikes \in [Seat -> 0..2]
  BY <1>1 DEF IInv, PeopleTyped, HandStands, Standing
<1>3. hand.street \in Nat \ {0} /\ Len(Streets) \in Nat /\ hand.beat \in Beats
  BY <1>2, HandIs, GameIs
<1>4. \E h : Standing(h) /\ h.on /\ arm' \in [Seat -> Line] /\ BeatLeadsTo(h)
  <2>1. CASE OpenStreet
    <3>1. PICK o \in OpenedStreets(hand) : BeatLeadsTo(o)
      BY <2>1 DEF OpenStreet
    <3>2. hand.street < Len(Streets)
      BY <1>2, <2>1 DEF OpenStreet, DrawsNext, InStreets
    <3>3. Standing(o) /\ SameMoney(o, hand)
      BY <1>2, <3>2, StreetStands
    <3>4. arm' \in [Seat -> Line]
      BY <2>1, Lined DEF OpenStreet
    <3> QED
      BY <1>1, <3>1, <3>3, <3>4 DEF SameMoney
  <2>2. CASE RunOutStreet
    <3> DEFINE o == RunOut(hand)
    <3>1. Standing(o) /\ o.on
      <4>1. CASE hand.street = Len(Streets)
        BY <1>2, <1>1, <4>1, NowStands DEF RunOut
      <4>2. CASE hand.street # Len(Streets)
        <5> DEFINE k == hand.street + 1
                   g == [hand EXCEPT !.street = k]
        <5>1. o = g
          BY <4>2 DEF RunOut
        <5>2. k \in Nat \ {0} /\ k <= Len(Streets)
          BY <1>2, <1>3, <4>2 DEF InStreets
        <5> HIDE DEF k, o
        <5>3. g \in HandSet
          BY <1>2, <5>2, OneField
        <5>4. SameMoney(g, hand) /\ g.bet = hand.bet /\ g.price = hand.price
              /\ g.beat = hand.beat /\ g.street = k
          BY <1>2 DEF HandSet, SameMoney
        <5> HIDE DEF g
        <5>5. hand.beat = "run"
          BY <2>2 DEF RunOutStreet
        <5>6. Matched(g) /\ InStreets(g)
          BY <1>2, <5>2, <5>4, <5>5 DEF Matched, InStreets
        <5>7. Standing(g) /\ g.on
          BY <1>2, <1>1, <5>3, <5>4, <5>6, MoneyStands DEF SameMoney
        <5> QED
          BY <5>1, <5>7
      <4> QED
        BY <4>1, <4>2
    <3> HIDE DEF o
    <3>2. arm' = arm /\ BeatLeadsTo(o)
      BY <2>2 DEF RunOutStreet, o
    <3> QED
      BY <1>2, <3>1, <3>2
  <2>3. CASE ShowHands
    <3>1. arm' = arm /\ BeatLeadsTo([hand EXCEPT !.beat = "now"])
      BY <2>3 DEF ShowHands
    <3> QED
      BY <1>2, <1>1, <3>1, NowStands
  <2> QED
    BY <2>1, <2>2, <2>3 DEF BeatEnds
<1> QED
  BY <1>4

LEMMA BeatsKeep ==
  ASSUME IInv, BeatEnds
  PROVE  IInv'
<1>1. hand.on /\ autoPlay' = autoPlay /\ strikes' = strikes /\ requested' = requested
      /\ away' = away /\ offered' = offered
  BY DEF BeatEnds, OpenStreet, RunOutStreet, ShowHands, NotOffered
<1>2. arm \in [Seat -> Line] /\ strikes \in [Seat -> 0..2]
  BY DEF IInv, PeopleTyped
<1>3. PICK h : Standing(h) /\ h.on /\ arm' \in [Seat -> Line] /\ BeatLeadsTo(h)
  BY BeatsLead
<1>4. /\ Arrived
      /\ shown' \in [rank : [Seat -> Nat], low : [Seat -> Nat]] /\ won' \in [Seat -> Nat]
  BY <1>3, BeatStands
<1> QED
  BY <1>2, <1>1, <1>4, ArrivedKeeps

\* The turn put to a seat again is a turn of the hand that is running.
LEMMA AgainKeeps ==
  ASSUME IInv, NEW i, NEW auto, NEW lines, hand' = hand,
         TurnAgain(i, auto, lines) \/ UNCHANGED timers
  PROVE  ClockInHand' /\ clock' \in Seat \union {None} /\ timer' \in Timer
<1>1. HandStands /\ timer \in Timer /\ clock \in Seat \union {None} /\ ClockInHand
      /\ hand.cur \in Seat
  BY HandOf DEF IInv, PeopleTyped
<1>2. CASE hand.on /\ TurnOpens(hand, auto, lines, timer)
  <2>1. clock' \in Seat \union {None} /\ timer' \in Timer
    BY <1>1, <1>2, TurnTyped
  <2>2. ClockInHand'
    BY <1>2 DEF ClockInHand
  <2> QED
    BY <2>1, <2>2
<1>3. CASE clock' = clock /\ timer' = timer
  BY <1>1, <1>3 DEF ClockInHand
<1>4. (hand.on /\ TurnOpens(hand, auto, lines, timer)) \/ (clock' = clock /\ timer' = timer)
  BY DEF TurnAgain, timers
<1> QED
  BY <1>2, <1>3, <1>4

\* What people do out of turn, as long as the rest of their state is typed.
LEMMA OfferedKeeps ==
  ASSUME IInv, NEW what, Offered(what), requested' \subseteq autoPlay', autoPlay' \subseteq Seat,
         away' \subseteq Seat, arm' \in [Seat -> Line], NEW i, NEW auto, NEW lines,
         TurnAgain(i, auto, lines) \/ UNCHANGED timers
  PROVE  IInv'
<1>1. /\ hand' = hand /\ strikes' = strikes /\ shown' = shown /\ won' = won
      /\ offered < MaxOffers /\ offered' = offered + 1
  BY DEF Offered, result
<1>2. HandStands'
  BY <1>1, HandRests
<1>3. ClockInHand' /\ clock' \in Seat \union {None} /\ timer' \in Timer
  BY <1>1, AgainKeeps
<1>4. offered' \in 0..MaxOffers
  BY <1>1, Constants DEF IInv, PeopleTyped
<1>5. PeopleTyped'
  BY <1>1, <1>3, <1>4 DEF IInv, PeopleTyped
<1> QED
  BY <1>2, <1>3, <1>5 DEF IInv

LEMMA LinesArmed ==
  ASSUME IInv, NEW i \in Seat, NEW line \in Lines(i) \union {NoLine}
  PROVE  [arm EXCEPT ![i] = line] \in [Seat -> Line]
<1>1. arm \in [Seat -> Line] /\ hand.bet[i] \in Nat /\ hand.price \in Nat
  BY HandOf DEF IInv, PeopleTyped
<1>2. ASSUME NEW p \in (hand.bet[i] + 1)..hand.price
      PROVE  [kind |-> "call", at |-> p, cost |-> p - hand.bet[i]] \in Line
  <2>1. p \in Nat /\ p - hand.bet[i] \in Nat
    BY <1>1
  <2> QED
    BY <2>1 DEF Line
<1>3. \A k \in {"checkfold", "check", "callany"} : [kind |-> k, at |-> 0, cost |-> 0] \in Line
  BY DEF Line
<1>4. line \in Line
  BY <1>2, <1>3, Lined DEF Lines
<1> QED
  BY <1>1, <1>4

LEMMA PeopleKeep ==
  ASSUME IInv, NEW i \in Seat, Drop(i) \/ Return(i) \/ SitOut(i) \/ SitIn(i) \/ Arm(i)
  PROVE  IInv'
<1>1. requested \subseteq autoPlay /\ autoPlay \subseteq Seat /\ away \subseteq Seat
      /\ arm \in [Seat -> Line]
  BY DEF IInv, PeopleTyped
<1>2. CASE Drop(i)
  <2>1. Offered("drop") /\ requested' = requested /\ arm' = arm /\ away' = away \union {i}
        /\ autoPlay' \in {autoPlay, autoPlay \union {i}}
        /\ (TurnAgain(i, autoPlay', arm) \/ UNCHANGED timers)
    BY <1>2 DEF Drop
  <2> QED
    BY <1>1, <2>1, OfferedKeeps
<1>3. CASE Return(i)
  <2>1. Offered("drop") /\ requested' = requested /\ arm' = arm /\ away' = away \ {i}
        /\ (autoPlay' = autoPlay \/ (i \notin requested /\ autoPlay' = autoPlay \ {i}))
        /\ (TurnAgain(i, autoPlay', arm) \/ UNCHANGED timers)
    BY <1>3 DEF Return
  <2> QED
    BY <1>1, <2>1, OfferedKeeps
<1>4. CASE SitOut(i)
  <2>1. Offered("sitOut") /\ requested' = requested \union {i} /\ away' = away
        /\ autoPlay' = autoPlay \union {i} /\ arm' = [arm EXCEPT ![i] = NoLine]
        /\ TurnAgain(i, autoPlay', arm')
    BY <1>4 DEF SitOut
  <2>2. arm' \in [Seat -> Line]
    BY <1>1, <2>1, Lined
  <2> QED
    BY <1>1, <2>1, <2>2, OfferedKeeps
<1>5. CASE SitIn(i)
  <2>1. Offered("sitIn") /\ requested' = requested \ {i} /\ away' = away
        /\ autoPlay' = autoPlay \ {i} /\ arm' = arm /\ UNCHANGED timers
    BY <1>5 DEF SitIn
  <2> QED
    BY <1>1, <2>1, OfferedKeeps
<1>6. CASE Arm(i)
  <2>1. Offered("arm") /\ requested' = requested /\ away' = away /\ autoPlay' = autoPlay
        /\ UNCHANGED timers
        /\ \E line \in Lines(i) \union {NoLine} : arm' = [arm EXCEPT ![i] = line]
    BY <1>6 DEF Arm
  <2>2. arm' \in [Seat -> Line]
    BY <2>1, LinesArmed
  <2> QED
    BY <1>1, <2>1, <2>2, OfferedKeeps
<1> QED
  BY <1>2, <1>3, <1>4, <1>5, <1>6

-----------------------------------------------------------------------------
(* The showdown pays by strength *)

LEMMA TotalLeast ==
  ASSUME NEW a \in [Seat -> Int], NEW b \in [Seat -> Int], \A i \in Seat : a[i] <= b[i]
  PROVE  Total(a, N) <= Total(b, N)
<1> DEFINE c == [i \in Seat |-> b[i] - a[i]]
<1>1. c \in [Seat -> Nat]
  OBVIOUS
<1>2. b = [i \in Seat |-> a[i] + c[i]]
  OBVIOUS
<1> HIDE DEF c
<1>3. Total(b, N) = Total(a, N) + Total(c, N)
  BY <1>1, <1>2, TotalPlus
<1>4. Total(c, N) \in Nat
  BY <1>1, TotalNat
<1>5. N \in 0..N
  BY Constants
<1>6. Total(a, N) \in Int
  BY <1>5, TotalInt
<1> QED
  BY <1>3, <1>4, <1>6

LEMMA PartOf ==
  ASSUME NEW f \in [Seat -> Nat], NEW i \in Seat
  PROVE  f[i] <= Total(f, N)
<1> DEFINE g == [f EXCEPT ![i] = 0]
<1>1. g \in [Seat -> Nat]
  OBVIOUS
<1>2. Total(g, N) = Total(f, N) - f[i] + 0 /\ Total(f, N) \in Int
  BY OneChanges
<1> HIDE DEF g
<1>3. Total(g, N) \in Nat
  BY <1>1, TotalNat
<1> QED
  BY <1>2, <1>3

\* A seat wins nothing of a slice above what it put in, nor more of another
\* than there is.
LEMMA SliceWithin ==
  ASSUME NEW h \in HandSet, NEW q \in Live(h), NEW M \in Nat, NEW r \in [Seat -> 0..M],
         NEW K \in Nat, NEW lo \in [Seat -> 0..K], NEW i \in Seat
  PROVE  LET l == h.total[q]
             f == FromSlice(h, l, i, r, lo)
         IN  /\ f \in Nat /\ f <= Slice(h, l)
             /\ (h.total[i] < l => f = 0)
<1> DEFINE l == h.total[q]
           f == [x \in Seat |-> FromSlice(h, l, x, r, lo)]
<1>1. f \in [Seat -> Nat] /\ Total(f, N) = Slice(h, l)
  BY SliceGiven
<1>2. f[i] <= Total(f, N)
  <2> HIDE DEF f
  <2> QED
    BY <1>1, PartOf
<1>3. f[i] = FromSlice(h, l, i, r, lo)
  OBVIOUS
<1>4. ASSUME h.total[i] < l
      PROVE  FromSlice(h, l, i, r, lo) = 0
  <2>1. l \in Nat /\ h.total[i] \in Nat
    BY HandIs, SomeSeats
  <2>2. i \notin Eligible(h, l)
    BY <1>4, <2>1 DEF Eligible
  <2>3. i \notin Highs(h, l, r) /\ i \notin LowsAt(h, l, lo)
    BY <2>2 DEF Highs, LowsAt, BestOf
  <2> QED
    BY <2>3 DEF FromSlice, ShareOf
<1> HIDE DEF f, l
<1> QED
  BY <1>1, <1>2, <1>3, <1>4 DEF l

\* What a seat can reach is the slices it is in.
LEMMA ReachIs ==
  ASSUME NEW h \in HandSet, NEW j \in Live(h)
  PROVE  Reach(h, j) = Total(SlicesTo(h, h.total[j] + 1), N)
<1> DEFINE l == h.total[j]
<1>1. l \in Nat /\ l + 1 \in Nat /\ l < l + 1
  BY HandIs, SomeSeats
<1>2. Under(h, l + 1) = l
  BY <1>1, UnderNext
<1>3. Total(SlicesTo(h, l + 1), N)
        = UpTo(h, Under(h, l + 1)) + (IF \E i \in Live(h) : h.total[i] < l + 1 THEN Dead(h) ELSE 0)
  BY <1>1, SlicesTelescope
<1>4. \E i \in Live(h) : h.total[i] < l + 1
  BY <1>1
<1>5. Reach(h, j) = Dead(h) + UpTo(h, l)
  BY DEF Reach, UpTo
<1>6. UpTo(h, l) \in Nat /\ Dead(h) \in Nat
  BY <1>1, UpToIs, DeadIs
<1> HIDE DEF l
<1>7. Total(SlicesTo(h, l + 1), N) = Reach(h, j)
  BY <1>2, <1>3, <1>4, <1>5, <1>6
<1> QED
  BY <1>7 DEF l

\* Where nobody still in was outbid, a seat wins its part of the slices.
LEMMA WonIs ==
  ASSUME NEW h \in HandSet, ~Overfolded(h), NEW M \in Nat, NEW r \in [Seat -> 0..M],
         NEW K \in Nat, NEW lo \in [Seat -> 0..K], NEW i \in Live(h)
  PROVE  Won(h, r, lo)[i] = FromSlices(h, i, r, lo) /\ FromSlices(h, i, r, lo) \in Nat
<1> DEFINE f == [q \in Seat |-> IF q \in Leaders(h) THEN FromSlice(h, h.total[q], i, r, lo) ELSE 0]
<1>1. i \in Seat /\ Leaders(h) \subseteq Live(h)
  BY SomeSeats DEF Leaders
<1>2. f \in [Seat -> Nat]
  BY <1>1, SliceWithin
<1>3. FromSlices(h, i, r, lo) = Total(f, N)
  BY DEF FromSlices
<1> HIDE DEF f
<1>4. FromSlices(h, i, r, lo) \in Nat
  BY <1>2, <1>3, TotalNat
<1>5. Leftover(h, i, r) = 0
  BY NothingUnreached DEF Leftover
<1>6. Won(h, r, lo)[i] = FromSlices(h, i, r, lo) + Leftover(h, i, r)
  BY <1>1 DEF Won
<1> QED
  BY <1>4, <1>5, <1>6
\* With no low to halve it, a slice is its best hands': all of it for a hand
\* that is alone the best, and nothing for one that is beaten in it.
LEMMA SliceByStrength ==
  ASSUME NEW h \in HandSet, NEW q \in Live(h), NEW M \in Nat, NEW r \in [Seat -> 0..M],
         NEW lo \in [Seat -> 0..0], NEW i \in Live(h), h.total[i] >= h.total[q]
  PROVE  /\ (\A j \in Live(h) \ {i} : r[j] < r[i])
              => FromSlice(h, h.total[q], i, r, lo) = Slice(h, h.total[q])
         /\ (\E j \in Live(h) : h.total[j] >= h.total[q] /\ r[i] < r[j])
              => FromSlice(h, h.total[q], i, r, lo) = 0
<1> DEFINE l == h.total[q]
           s == Slice(h, l)
           E == Eligible(h, l)
<1>1. Live(h) \subseteq Seat /\ l \in Nat /\ i \in E /\ E \subseteq Live(h)
  BY HandIs, SomeSeats DEF Eligible
<1>2. s \in Nat
  BY <1>1, SliceIs
<1>3. LowsAt(h, l, lo) = {}
  <2>1. \A x \in E : ~(lo[x] > 0)
    BY <1>1
  <2> QED
    BY <2>1 DEF LowsAt, BestOf
<1>4. Halves(s, LowsAt(h, l, lo) # {}) = <<s, 0>>
  BY <1>3 DEF Halves
<1>5. FromSlice(h, l, i, r, lo) = ShareOf(i, Highs(h, l, r), s, r)
                                    + ShareOf(i, LowsAt(h, l, lo), 0, r)
  BY <1>4 DEF FromSlice
<1>6. ShareOf(i, LowsAt(h, l, lo), 0, r) = 0
  BY <1>3 DEF ShareOf
<1>7. \A x \in Seat : r[x] \in Nat
  OBVIOUS
<1> HIDE DEF l, s, E
<1>8. ASSUME \A j \in Live(h) \ {i} : r[j] < r[i]
      PROVE  FromSlice(h, l, i, r, lo) = s
  <2>1. BestOf(E, r) = {i}
    <3>1. \A j \in E : r[j] <= r[i]
      BY <1>1, <1>7, <1>8
    <3>2. \A x \in E : (\A j \in E : r[j] <= r[x]) => x = i
      BY <1>1, <1>7, <1>8
    <3> QED
      BY <1>1, <3>1, <3>2 DEF BestOf
  <2>2. {j \in {i} : r[j] > r[i] \/ (r[j] = r[i] /\ j < i)} = {}
    <3>1. i \in Nat /\ r[i] \in Nat
      BY <1>1, <1>7 DEF Seat
    <3> QED
      BY <3>1
  <2>3. Cardinality({i}) = 1 /\ Cardinality({}) = 0
    BY FS_Singleton, FS_EmptySet
  <2>4. s \div 1 = s /\ s % 1 = 0
    BY <1>2
  <2>5. ShareOf(i, {i}, s, r) = s \div 1 + (IF 0 < s % 1 THEN 1 ELSE 0)
    BY <2>2, <2>3 DEF ShareOf
  <2>6. ShareOf(i, {i}, s, r) = s
    BY <1>2, <2>4, <2>5
  <2> QED
    BY <1>2, <1>5, <1>6, <2>1, <2>6 DEF Highs, E
<1>9. ASSUME NEW j \in Live(h), h.total[j] >= h.total[q], r[i] < r[j]
      PROVE  FromSlice(h, l, i, r, lo) = 0
  <2>1. j \in E
    BY <1>9 DEF Eligible, E, l
  <2>2. ~(r[j] <= r[i])
    BY <1>1, <1>7, <1>9
  <2>3. i \notin Highs(h, l, r)
    BY <2>1, <2>2 DEF Highs, BestOf, E
  <2>4. ShareOf(i, Highs(h, l, r), s, r) = 0
    BY <2>3 DEF ShareOf
  <2> QED
    BY <1>5, <1>6, <2>4
<1> QED
  BY <1>8, <1>9 DEF l, s

\* Nobody wins more than they could reach; the hand that is alone the best
\* wins all of that; and a hand that is beaten only what the better could not.
LEMMA WonByStrength ==
  ASSUME NEW h \in HandSet, ~Overfolded(h), NEW M \in Nat, NEW r \in [Seat -> 0..M],
         NEW K \in Nat, NEW lo \in [Seat -> 0..K], NEW i \in Live(h)
  PROVE  LET w == Won(h, r, lo)[i] IN
         /\ w <= Reach(h, i)
         /\ (K = 0 /\ \A j \in Live(h) \ {i} : r[j] < r[i]) => w = Reach(h, i)
         /\ K = 0 => \A j \in Live(h) : r[i] < r[j] =>
              w <= Greater(0, Reach(h, i) - Reach(h, j))
<1> DEFINE f == [q \in Seat |-> IF q \in Leaders(h) THEN FromSlice(h, h.total[q], i, r, lo) ELSE 0]
           up(j) == SlicesTo(h, h.total[j] + 1)
           w == Won(h, r, lo)[i]
<1>1. /\ Live(h) \subseteq Seat /\ Leaders(h) \subseteq Live(h)
      /\ \A j \in Live(h) : h.total[j] \in Nat
  BY HandIs, SomeSeats DEF Leaders
<1>2. \A q \in Leaders(h) : /\ FromSlice(h, h.total[q], i, r, lo) \in Nat
                            /\ FromSlice(h, h.total[q], i, r, lo) <= Slice(h, h.total[q])
                            /\ h.total[i] < h.total[q] => FromSlice(h, h.total[q], i, r, lo) = 0
                            /\ Slice(h, h.total[q]) \in Nat
  BY <1>1, SliceWithin, SliceIs
<1>3. f \in [Seat -> Nat]
  BY <1>2
<1>4. w = Total(f, N)
  BY WonIs DEF FromSlices
<1>5. \A j \in Live(h) : up(j) \in [Seat -> Nat] /\ Reach(h, j) = Total(up(j), N)
                         /\ Total(up(j), N) \in Nat
  <2> TAKE j \in Live(h)
  <2>1. up(j) \in [Seat -> Nat]
    BY SlicesToIs
  <2>2. Reach(h, j) = Total(up(j), N)
    BY ReachIs
  <2> HIDE DEF up
  <2> QED
    BY <2>1, <2>2, TotalNat
<1>6. \A j \in Live(h) : \A q \in Seat :
        up(j)[q] = IF q \in Leaders(h) /\ h.total[q] <= h.total[j] THEN Slice(h, h.total[q]) ELSE 0
  BY <1>1 DEF SlicesTo
<1>7. \A q \in Seat : f[q] <= up(i)[q]
  <2> TAKE q \in Seat
  <2>1. CASE q \in Leaders(h)
    <3>1. h.total[q] \in Nat /\ h.total[i] \in Nat
      BY <1>1, <2>1
    <3>2. f[q] = FromSlice(h, h.total[q], i, r, lo)
      BY <2>1
    <3> HIDE DEF f, up
    <3> QED
      BY <1>2, <1>6, <2>1, <3>1, <3>2
  <2>2. CASE q \notin Leaders(h)
    <3>1. f[q] = 0
      BY <2>2
    <3>2. up(i)[q] = 0
      BY <1>6, <2>2
    <3> QED
      BY <3>1, <3>2
  <2> QED
    BY <2>1, <2>2
<1>8. \A q \in Leaders(h) : f[q] = FromSlice(h, h.total[q], i, r, lo)
  BY <1>1
<1>9. \A q \in Seat \ Leaders(h) : f[q] = 0
  OBVIOUS
<1>10. f = [q \in Seat |-> f[q]]
  OBVIOUS
<1> HIDE DEF f, up, w
<1>11. w <= Reach(h, i)
  BY <1>3, <1>4, <1>5, <1>7, TotalLeast
<1>12. ASSUME K = 0, \A j \in Live(h) \ {i} : r[j] < r[i]
       PROVE  w = Reach(h, i)
  <2>1. \A q \in Seat : f[q] = up(i)[q]
    <3> TAKE q \in Seat
    <3>1. CASE q \in Leaders(h) /\ h.total[q] <= h.total[i]
      <4>1. h.total[i] >= h.total[q] /\ q \in Live(h)
        BY <1>1, <3>1
      <4>2. FromSlice(h, h.total[q], i, r, lo) = Slice(h, h.total[q])
        BY <1>12, <4>1, SliceByStrength
      <4> QED
        BY <1>6, <1>8, <3>1, <4>2
    <3>2. CASE q \in Leaders(h) /\ ~(h.total[q] <= h.total[i])
      <4>1. h.total[i] < h.total[q]
        BY <1>1, <3>2
      <4> QED
        BY <1>2, <1>6, <1>8, <3>2, <4>1
    <3>3. CASE q \notin Leaders(h)
      BY <1>6, <1>9, <3>3
    <3> QED
      BY <3>1, <3>2, <3>3
  <2>2. f = up(i)
    BY <1>3, <1>5, <2>1
  <2> QED
    BY <1>4, <1>5, <2>2
<1>13. ASSUME K = 0, NEW j \in Live(h), r[i] < r[j]
       PROVE  w <= Greater(0, Reach(h, i) - Reach(h, j))
  <2>1. \A q \in Leaders(h) : h.total[q] <= h.total[j] => f[q] = 0
    <3> TAKE q \in Leaders(h)
    <3> HAVE h.total[q] <= h.total[j]
    <3>1. h.total[q] \in Nat /\ h.total[i] \in Nat /\ h.total[j] \in Nat /\ q \in Live(h)
      BY <1>1
    <3>2. CASE h.total[i] >= h.total[q]
      <4>1. FromSlice(h, h.total[q], i, r, lo) = 0
        BY <1>13, <3>1, <3>2, SliceByStrength
      <4> QED
        BY <1>8, <4>1
    <3>3. CASE h.total[i] < h.total[q]
      BY <1>2, <1>8, <3>3
    <3> QED
      BY <3>1, <3>2, <3>3
  <2>2. CASE h.total[i] <= h.total[j]
    <3>1. \A q \in Seat : f[q] = 0
      <4> TAKE q \in Seat
      <4>1. CASE q \in Leaders(h)
        <5>1. h.total[q] \in Nat /\ h.total[i] \in Nat /\ h.total[j] \in Nat
          BY <1>1, <4>1
        <5>2. CASE h.total[q] <= h.total[j]
          BY <2>1, <4>1, <5>2
        <5>3. CASE ~(h.total[q] <= h.total[j])
          <6>1. h.total[i] < h.total[q]
            BY <2>2, <5>1, <5>3
          <6> QED
            BY <1>2, <1>8, <4>1, <6>1
        <5> QED
          BY <5>2, <5>3
      <4>2. CASE q \notin Leaders(h)
        BY <1>9, <4>2
      <4> QED
        BY <4>1, <4>2
    <3>2. w = 0
      BY <1>4, <3>1, TotalNothing
    <3>3. Reach(h, i) - Reach(h, j) \in Int
      BY <1>5
    <3> QED
      BY <3>2, <3>3, Least
  <2>3. CASE ~(h.total[i] <= h.total[j])
    <3> DEFINE c == [q \in Seat |-> f[q] + up(j)[q]]
    <3>1. c \in [Seat -> Nat]
      BY <1>3, <1>5
    <3>2. \A q \in Seat : c[q] <= up(i)[q]
      <4> TAKE q \in Seat
      <4>1. c[q] = f[q] + up(j)[q] /\ f[q] \in Nat /\ up(i)[q] \in Nat
        BY <1>3, <1>5
      <4>2. CASE q \in Leaders(h) /\ h.total[q] <= h.total[j]
        <5>1. f[q] = 0 /\ up(j)[q] = Slice(h, h.total[q])
          BY <1>6, <2>1, <4>2
        <5>2. h.total[q] <= h.total[i]
          BY <1>1, <2>3, <4>2
        <5>3. up(i)[q] = Slice(h, h.total[q])
          BY <1>6, <4>2, <5>2
        <5> QED
          BY <1>2, <4>1, <4>2, <5>1, <5>3
      <4>3. CASE ~(q \in Leaders(h) /\ h.total[q] <= h.total[j])
        <5>1. up(j)[q] = 0
          BY <1>6, <4>3
        <5> QED
          BY <1>7, <4>1, <5>1
      <4> QED
        BY <4>2, <4>3
    <3>3. Total(c, N) = Total(f, N) + Total(up(j), N)
      <4> DEFINE d == up(j)
      <4>1. d \in [Seat -> Nat] /\ f \in [Seat -> Int] /\ d \in [Seat -> Int]
        BY <1>3, <1>5
      <4>2. c = [q \in Seat |-> f[q] + d[q]]
        OBVIOUS
      <4> HIDE DEF c, d
      <4>3. Total(c, N) = Total(f, N) + Total(d, N)
        BY <4>1, <4>2, TotalPlus
      <4> QED
        BY <4>3 DEF d
    <3> HIDE DEF c
    <3>4. Total(c, N) <= Total(up(i), N)
      BY <1>5, <3>1, <3>2, TotalLeast
    <3>5. Total(f, N) \in Nat
      BY <1>3, TotalNat
    <3>6. w <= Reach(h, i) - Reach(h, j) /\ Reach(h, i) - Reach(h, j) \in Int
      BY <1>4, <1>5, <3>3, <3>4, <3>5
    <3>7. w \in Nat
      BY <1>4, <3>5
    <3> QED
      BY <3>6, <3>7 DEF Greater
  <2> QED
    BY <2>2, <2>3
<1> QED
  BY <1>11, <1>12, <1>13 DEF w
\* Field's condition on an award, for any hand.
Fits(h, w) ==
  \A p \in Seat :
    Total([x \in Seat |-> IF h.total[x] + h.ante[x] <= h.total[p] + h.ante[p]
                          THEN w[x] ELSE 0], N)
      <= Total([x \in Seat |-> Lesser(h.total[x] + h.ante[x], h.total[p] + h.ante[p])], N)
           + Dead(h)

\* Those who put in little are in the low slices only, which hold no more than
\* everybody put in as far.
LEMMA AwardFits ==
  ASSUME NEW h \in HandSet, ~Overfolded(h), NEW M \in Nat, NEW r \in [Seat -> 0..M],
         NEW K \in Nat, NEW lo \in [Seat -> 0..K]
  PROVE  Fits(h, Won(h, r, lo))
<1> DEFINE put(x) == h.total[x] + h.ante[x]
           w == Won(h, r, lo)
<1>1. /\ Live(h) \subseteq Seat /\ Leaders(h) \subseteq Live(h)
      /\ \A x \in Seat : h.total[x] \in Nat /\ h.ante[x] \in Nat
      /\ h.total \in [Seat -> Nat]
  BY HandIs, SomeSeats DEF Leaders
<1>2. \A x \in Seat : put(x) \in Nat /\ h.total[x] <= put(x)
  BY <1>1
<1>3. Dead(h) \in Nat
  BY DeadIs
<1> SUFFICES ASSUME NEW p \in Seat
             PROVE  Total([x \in Seat |-> IF put(x) <= put(p) THEN w[x] ELSE 0], N)
                      <= Total([x \in Seat |-> Lesser(put(x), put(p))], N) + Dead(h)
  BY DEF Fits
<1> DEFINE b == put(p)
           A == {x \in Live(h) : put(x) <= b}
           a == [x \in Seat |-> IF put(x) <= b THEN w[x] ELSE 0]
           g == [x \in Seat |-> Lesser(put(x), b)]
<1>4. g \in [Seat -> Nat] /\ b \in Nat
  BY <1>2, Least
<1>5. \A x \in Seat : a[x] = IF x \in A THEN FromSlices(h, x, r, lo) ELSE 0
  <2> TAKE x \in Seat
  <2>1. x \notin Live(h) => w[x] = 0
    BY DEF Won
  <2>2. x \in Live(h) => w[x] = FromSlices(h, x, r, lo)
    BY WonIs
  <2> HIDE DEF w, b
  <2> QED
    BY <2>1, <2>2
<1>6. a = [x \in Seat |-> a[x]]
  OBVIOUS
<1> HIDE DEF w
<1>7. Total(g, N) \in Nat
  <2> HIDE DEF g
  <2> QED
    BY <1>4, TotalNat
<1>8. Total(a, N) <= Total(g, N) + Dead(h)
  <2>1. CASE A = {}
    <3>1. \A x \in Seat : a[x] = 0
      BY <1>5, <2>1
    <3> HIDE DEF a, g
    <3>2. Total(a, N) = 0
      BY <3>1, TotalNothing
    <3> QED
      BY <1>3, <1>7, <3>2
  <2>2. CASE A # {}
    <3>1. PICK T \in Nat : h.total \in [Seat -> 0..T]
      BY <1>1, SomeBound
    <3>2. A \in SUBSET Seat
      BY <1>1
    <3>3. PICK m \in A : \A j \in A : h.total[j] <= h.total[m]
      <4> HIDE DEF A
      <4> QED
        BY <2>2, <3>1, <3>2, BestExists
    <3>4. m \in Live(h) /\ m \in Seat /\ h.total[m] \in Nat /\ h.total[m] <= b
      BY <1>1, <1>2, <1>4, <3>3
    <3> DEFINE s == SlicesTo(h, h.total[m] + 1)
               Row(q) == [x \in Seat |-> IF x \in A /\ q \in Leaders(h)
                                         THEN FromSlice(h, h.total[q], x, r, lo) ELSE 0]
               F == [q \in Seat |-> Row(q)]
               t == [q \in Seat |-> Total(F[q], N)]
    <3>5. s \in [Seat -> Nat] /\ Reach(h, m) = Total(s, N)
      BY <3>4, SlicesToIs, ReachIs
    <3> HIDE DEF A, a, g, b, put
    <3>6. \A q \in Leaders(h) :
            /\ [x \in Seat |-> FromSlice(h, h.total[q], x, r, lo)] \in [Seat -> Nat]
            /\ Total([x \in Seat |-> FromSlice(h, h.total[q], x, r, lo)], N)
                 = Slice(h, h.total[q])
            /\ \A x \in Seat : h.total[x] < h.total[q] => FromSlice(h, h.total[q], x, r, lo) = 0
            /\ Slice(h, h.total[q]) \in Nat
      <4> TAKE q \in Leaders(h)
      <4>1. q \in Live(h) /\ h.total[q] \in Nat
        BY <1>1
      <4>2. /\ [x \in Seat |-> FromSlice(h, h.total[q], x, r, lo)] \in [Seat -> Nat]
            /\ Total([x \in Seat |-> FromSlice(h, h.total[q], x, r, lo)], N)
                 = Slice(h, h.total[q])
        BY <4>1, SliceGiven
      <4>3. ASSUME NEW x \in Seat, h.total[x] < h.total[q]
            PROVE  FromSlice(h, h.total[q], x, r, lo) = 0
        BY <4>1, <4>3, SliceWithin
      <4>4. Slice(h, h.total[q]) \in Nat
        BY <4>1, SliceIs
      <4> QED
        BY <4>2, <4>3, <4>4
    <3>7. \A q \in Seat : F[q] \in [Seat -> Nat] /\ t[q] = Total(F[q], N) /\ t[q] <= s[q]
      <4> TAKE q \in Seat
      <4> DEFINE e == [x \in Seat |-> FromSlice(h, h.total[q], x, r, lo)]
      <4>1. CASE q \in Leaders(h)
        <5>1. e \in [Seat -> Nat] /\ Total(e, N) = Slice(h, h.total[q])
          BY <3>6, <4>1
        <5>2. \A x \in Seat : F[q][x] = IF x \in A THEN e[x] ELSE 0
          BY <4>1
        <5>3. F[q] = [x \in Seat |-> F[q][x]] /\ t[q] = Total(F[q], N)
          BY <4>1
        <5>4. \A x \in A : h.total[x] < h.total[q] => e[x] = 0
          BY <3>2, <3>6, <4>1
        <5> HIDE DEF e, F, t
        <5>5. F[q] \in [Seat -> Nat]
          BY <5>1, <5>2, <5>3
        <5>6. CASE h.total[q] <= h.total[m]
          <6>1. \A x \in Seat : F[q][x] <= e[x]
            BY <5>1, <5>2
          <6>2. Total(F[q], N) <= Total(e, N)
            BY <5>1, <5>5, <6>1, TotalLeast
          <6>3. h.total[q] < h.total[m] + 1
            BY <1>1, <3>4, <5>6
          <6>4. s[q] = Slice(h, h.total[q])
            BY <4>1, <6>3 DEF SlicesTo
          <6> QED
            BY <5>1, <5>3, <5>5, <6>2, <6>4
        <5>7. CASE ~(h.total[q] <= h.total[m])
          <6>1. \A x \in A : h.total[x] < h.total[q]
            BY <1>1, <3>2, <3>3, <3>4, <5>7
          <6>2. \A x \in Seat : F[q][x] = 0
            BY <5>2, <5>4, <6>1
          <6>3. Total(F[q], N) = 0
            BY <6>2, TotalNothing
          <6> QED
            BY <3>5, <5>3, <5>5, <6>3
        <5> QED
          BY <5>6, <5>7
      <4>2. CASE q \notin Leaders(h)
        <5>1. \A x \in Seat : F[q][x] = 0
          BY <4>2
        <5>2. F[q] = [x \in Seat |-> F[q][x]] /\ t[q] = Total(F[q], N)
          BY <4>2
        <5> HIDE DEF F, t
        <5>3. Total(F[q], N) = 0
          BY <5>1, TotalNothing
        <5>4. F[q] \in [Seat -> Nat]
          BY <5>1, <5>2
        <5> QED
          BY <3>5, <5>2, <5>3, <5>4
      <4> QED
        BY <4>1, <4>2
    <3>8. a = [x \in Seat |-> Total([q \in Seat |-> F[q][x]], N)]
      <4>1. \A x \in Seat : a[x] = Total([q \in Seat |-> F[q][x]], N)
        <5> TAKE x \in Seat
        <5>1. CASE x \in A
          <6>1. \A q \in Seat : F[q][x] = IF q \in Leaders(h)
                                          THEN FromSlice(h, h.total[q], x, r, lo) ELSE 0
            BY <5>1
          <6>2. [q \in Seat |-> F[q][x]] = [q \in Seat |-> IF q \in Leaders(h)
                                          THEN FromSlice(h, h.total[q], x, r, lo) ELSE 0]
            BY <6>1
          <6>3. a[x] = FromSlices(h, x, r, lo)
            BY <1>5, <5>1
          <6> QED
            BY <6>2, <6>3 DEF FromSlices
        <5>2. CASE x \notin A
          <6> DEFINE z == [q \in Seat |-> F[q][x]]
          <6>1. \A q \in Seat : z[q] = 0
            BY <5>2
          <6>2. a[x] = 0
            BY <1>5, <5>2
          <6> HIDE DEF z
          <6>3. Total(z, N) = 0
            BY <6>1, TotalNothing
          <6> QED
            BY <6>2, <6>3 DEF z
        <5> QED
          BY <5>1, <5>2
      <4> QED
        BY <1>6, <4>1
    <3>9. F \in [Seat -> [Seat -> Int]] /\ t = [q \in Seat |-> Total(F[q], N)]
      <4>1. \A q \in Seat : F[q] = Row(q)
        <5> HIDE DEF Row
        <5> QED
          OBVIOUS
      <4>2. \A q \in Seat : Row(q) \in [Seat -> Int]
        <5> HIDE DEF Row, F
        <5> QED
          BY <3>7, <4>1
      <4>3. F \in [Seat -> [Seat -> Int]]
        <5> HIDE DEF Row
        <5> QED
          BY <4>2
      <4>4. t = [q \in Seat |-> Total(F[q], N)]
        <5> HIDE DEF F
        <5> QED
          OBVIOUS
      <4> QED
        BY <4>3, <4>4
    <3>10. t \in [Seat -> Nat]
      <4> HIDE DEF F
      <4>1. \A q \in Seat : t[q] \in Nat
        BY <3>7, TotalNat
      <4> QED
        BY <3>9, <4>1
    <3> HIDE DEF F, t, s
    <3>11. Total(a, N) = Total(t, N)
      BY <3>8, <3>9, TotalExchange
    <3>12. Total(t, N) <= Total(s, N)
      BY <3>5, <3>7, <3>10, TotalLeast
    <3> DEFINE u == [x \in Seat |-> Lesser(h.total[x], h.total[m])]
    <3>13. u \in [Seat -> Nat] /\ Reach(h, m) = Dead(h) + Total(u, N)
      BY <1>1, <3>4, Least DEF Reach
    <3>14. \A x \in Seat : u[x] <= g[x]
      <4>1. \A x \in Seat : h.total[x] \in Nat /\ put(x) \in Nat /\ h.total[x] <= put(x)
        BY <1>1, <1>2
      <4> QED
        BY <1>4, <3>4, <4>1 DEF g, Lesser
    <3> HIDE DEF u
    <3>15. Total(u, N) <= Total(g, N) /\ Total(u, N) \in Nat
      BY <1>4, <3>13, <3>14, TotalLeast, TotalNat
    <3>16. Total(t, N) \in Nat /\ Total(s, N) \in Nat
      BY <3>5, <3>10, TotalNat
    <3> QED
      BY <1>3, <1>7, <3>5, <3>11, <3>12, <3>13, <3>15, <3>16
  <2> QED
    BY <2>1, <2>2
<1> QED
  BY <1>8

-----------------------------------------------------------------------------
(* The theorems *)

LEMMA EmptyStands ==
  ASSUME NEW g \in DOMAIN Rules, hand = Empty(g)
  PROVE  HandStands
<1> DEFINE f == Fresh(g, Zero)
<1>1. /\ f \in HandSet /\ f.game = g /\ f.chips = Zero /\ f.staked = Total(Zero, N)
      /\ f.beat = "none" /\ f.street = 1
  BY ZeroIs, FreshIs DEF Untouched
<1>2. hand = [f EXCEPT !.on = FALSE]
  BY DEF Empty
<1> HIDE DEF f
<1>3. /\ hand.game = g /\ hand.chips = Zero /\ hand.staked = Total(Zero, N)
      /\ hand.beat = "none" /\ hand.street = 1 /\ hand.on = FALSE
  BY <1>1, <1>2 DEF HandSet
<1>4. hand \in HandSet
  BY <1>1, <1>2, OneField
<1>5. InStreets(hand)
  BY <1>3, GameIs DEF InStreets
<1> QED
  BY <1>3, <1>4, <1>5 DEF HandStands, Standing

LEMMA InitHolds ==
  ASSUME Init
  PROVE  IInv
<1>1. PICK g \in DOMAIN Rules : hand = Empty(g)
  BY DEF Init
<1>2. HandStands
  BY <1>1, EmptyStands
<1>3. /\ autoPlay = {} /\ requested = {} /\ away = {} /\ strikes = Zero
      /\ arm = [i \in Seat |-> NoLine] /\ clock = None /\ timer = NoTimer
      /\ shown = NothingShown /\ won = Zero /\ offered = 0
  BY DEF Init
<1>4. strikes \in [Seat -> 0..2] /\ arm \in [Seat -> Line] /\ offered \in 0..MaxOffers
  BY <1>3, Lined, Constants DEF Zero
<1>5. PeopleTyped
  BY <1>3, <1>4, Lined, NothingIsShown DEF PeopleTyped
<1> QED
  BY <1>2, <1>3, <1>5 DEF IInv, ClockInHand

LEMMA StutterKeeps ==
  ASSUME IInv, UNCHANGED vars
  PROVE  IInv' /\ PaysNothing
<1>1. /\ hand' = hand /\ autoPlay' = autoPlay /\ requested' = requested /\ away' = away
      /\ strikes' = strikes /\ arm' = arm /\ clock' = clock /\ timer' = timer
      /\ shown' = shown /\ won' = won /\ offered' = offered
  BY DEF vars, people, timers, result
<1>2. HandStands' /\ PaysNothing
  BY <1>1, HandRests
<1>3. PeopleTyped' /\ ClockInHand'
  BY <1>1 DEF IInv, PeopleTyped, ClockInHand
<1> QED
  BY <1>2, <1>3 DEF IInv

LEMMA StepKeeps ==
  ASSUME IInv, Next
  PROVE  IInv'
<1>1. CASE Deal
  BY <1>1, DealKeeps
<1>2. CASE \E i \in Seat : Act(i)
  BY <1>2, ActKeeps
<1>3. CASE ClockRings
  BY <1>3, ClockActsKeeps, ClockSitsOutKeeps DEF ClockRings
<1>4. CASE TimerRings
  BY <1>4, TimerActsKeeps, TimerLapsesKeeps, LinePlayedKeeps, LineVoidKeeps DEF TimerRings
<1>5. CASE BeatEnds
  BY <1>5, BeatsKeep
<1>6. CASE \E i \in Seat : Drop(i) \/ Return(i) \/ SitOut(i) \/ SitIn(i) \/ Arm(i)
  BY <1>6, PeopleKeep
<1> QED
  BY <1>1, <1>2, <1>3, <1>4, <1>5, <1>6 DEF Next

\* PaidByStrength of a hand, the strengths shown and what was awarded.
PaidFor(h, rank, w, lows) ==
  ~Overfolded(h) =>
    /\ Fits(h, w)
    /\ \A i \in Live(h) :
         /\ w[i] <= Reach(h, i)
         /\ (lows = 0 /\ \A j \in Live(h) \ {i} : rank[j] < rank[i]) => w[i] = Reach(h, i)
         /\ lows = 0 => \A j \in Live(h) : rank[i] < rank[j] =>
              w[i] <= Greater(0, Reach(h, i) - Reach(h, j))

LEMMA AwardsPay ==
  ASSUME NEW h \in HandSet, NEW M \in Nat, NEW r \in [Seat -> 0..M],
         NEW K \in Nat, NEW lo \in [Seat -> 0..K]
  PROVE  PaidFor(h, r, Won(h, r, lo), K)
<1> SUFFICES ASSUME ~Overfolded(h)
             PROVE  PaidFor(h, r, Won(h, r, lo), K)
  BY DEF PaidFor
<1>1. Fits(h, Won(h, r, lo))
  BY AwardFits
<1>2. ASSUME NEW i \in Live(h)
      PROVE  /\ Won(h, r, lo)[i] <= Reach(h, i)
             /\ (K = 0 /\ \A j \in Live(h) \ {i} : r[j] < r[i])
                  => Won(h, r, lo)[i] = Reach(h, i)
             /\ K = 0 => \A j \in Live(h) : r[i] < r[j] =>
                  Won(h, r, lo)[i] <= Greater(0, Reach(h, i) - Reach(h, j))
  BY WonByStrength
<1> QED
  BY <1>1, <1>2 DEF PaidFor

\* What is shown and won is nothing while a hand runs, and at its end by strength.
PaidAtEnd == PaidByStrength /\ (hand.on => shown = NothingShown)

LEMMA PaidNext ==
  ASSUME NEW h, NEW r, NEW lo, NEW w, PaidFor(h, r, w, Lows), h.game = hand.game,
         h.on = FALSE, hand' = h, shown' = [rank |-> r, low |-> lo], won' = w
  PROVE  PaidAtEnd'
<1>1. Lows' = Lows
  BY DEF Lows, Game
<1>2. PaidByStrength'
  BY <1>1 DEF PaidByStrength, PaidFor, FitsField, Fits, Overfolded, Live, Reach, Dead
<1> QED
  BY <1>2 DEF PaidAtEnd

LEMMA ShowdownPays ==
  ASSUME HandStands, NEW h, Standing(h), h.on, Showdown(h)
  PROVE  PaidAtEnd'
<1>1. PICK r \in Shown(h, Ranks), lo \in Shown(h, Lows) :
         /\ shown' = [rank |-> r, low |-> lo]
         /\ won' = Won(h, r, lo)
         /\ hand' = [h EXCEPT !.on = FALSE, !.beat = "none", !.pot = 0,
                              !.chips = [i \in Seat |-> h.chips[i] + won'[i]]]
  BY DEF Showdown
<1>2. Ranks \in Nat /\ Lows \in Nat
  BY Constants, GameIs DEF HandStands
<1>3. r \in [Seat -> 0..Ranks] /\ lo \in [Seat -> 0..Lows]
  BY DEF Shown
<1>4. h \in HandSet /\ h.game = hand.game
  BY DEF Standing
<1> DEFINE w == Won(h, r, lo)
           g == [h EXCEPT !.on = FALSE, !.beat = "none", !.pot = 0,
                          !.chips = [i \in Seat |-> h.chips[i] + won'[i]]]
<1>5. PaidFor(h, r, w, Lows)
  BY <1>2, <1>3, <1>4, AwardsPay
<1>6. hand' = g /\ won' = w
  BY <1>1
<1> HIDE DEF w
<1>7. /\ g.on = FALSE /\ g.folded = h.folded /\ g.total = h.total
      /\ g.ante = h.ante /\ g.game = h.game
  BY <1>4 DEF HandSet
<1> HIDE DEF g
<1>8. PaidFor(g, r, w, Lows)
  BY <1>5, <1>7 DEF PaidFor, Fits, Overfolded, Live, Reach, Dead
<1> QED
  BY <1>1, <1>4, <1>6, <1>7, <1>8, PaidNext

\* A step that shows nothing new, of a running hand or past the end of one.
LEMMA ResultRests ==
  ASSUME PaidAtEnd, UNCHANGED result, hand.on \/ hand' = hand
  PROVE  PaidAtEnd'
<1>1. shown' = shown /\ won' = won
  BY DEF result
<1>2. CASE hand.on
  BY <1>1, <1>2 DEF PaidAtEnd, PaidByStrength, NothingShown, Zero
<1>3. CASE hand' = hand
  <2>1. Lows' = Lows
    BY <1>3 DEF Lows, Game
  <2> QED
    BY <1>1, <1>3, <2>1 DEF PaidAtEnd, PaidByStrength, FitsField, Overfolded, Live, Reach,
                            Dead, NothingShown, Zero
<1> QED
  BY <1>2, <1>3

LEMMA BeatPays ==
  ASSUME IInv, PaidAtEnd, BeatEnds
  PROVE  PaidAtEnd'
<1>1. PICK h : Standing(h) /\ h.on /\ BeatLeadsTo(h)
  BY BeatsLead
<1>2. CASE h.beat = "now"
  <2>1. Showdown(h)
    BY <1>1, <1>2 DEF BeatLeadsTo
  <2> QED
    BY <1>1, <2>1, ShowdownPays DEF IInv
<1>3. CASE h.beat # "now"
  <2>1. UNCHANGED result /\ hand.on
    BY <1>1, <1>3 DEF BeatLeadsTo, BeatEnds, OpenStreet, RunOutStreet, ShowHands
  <2> QED
    BY <2>1, ResultRests
<1> QED
  BY <1>2, <1>3

LEMMA StepPays ==
  ASSUME IInv, PaidAtEnd, Next
  PROVE  PaidAtEnd'
<1>1. CASE Deal
  <2>1. shown' = NothingShown
    BY <1>1 DEF Deal
  <2> QED
    BY <2>1 DEF PaidAtEnd, PaidByStrength, NothingShown, Zero
<1>2. CASE \E i \in Seat : Act(i)
  BY <1>2, ResultRests DEF Act
<1>3. CASE ClockRings
  BY <1>3, ResultRests DEF ClockRings, ClockActs, ClockSitsOut, IInv, ClockInHand
<1>4. CASE TimerRings
  <2>1. CASE TimerActs
    BY <2>1, ResultRests DEF TimerActs, TimerStands
  <2>2. CASE TimerLapses
    BY <2>2, ResultRests DEF TimerLapses
  <2>3. CASE LinePlayed
    BY <2>3, ResultRests DEF LinePlayed, LineStands
  <2>4. CASE LineVoid
    BY <2>4, ResultRests DEF LineVoid
  <2> QED
    BY <1>4, <2>1, <2>2, <2>3, <2>4 DEF TimerRings
<1>5. CASE BeatEnds
  BY <1>5, BeatPays
<1>6. CASE \E i \in Seat : Drop(i) \/ Return(i) \/ SitOut(i) \/ SitIn(i) \/ Arm(i)
  BY <1>6, ResultRests DEF Drop, Return, SitOut, SitIn, Arm, Offered
<1> QED
  BY <1>1, <1>2, <1>3, <1>4, <1>5, <1>6 DEF Next

\* The inductive invariant: the record of the hand is typed, the chips in it
\* add up, and the clock runs in a hand only.
THEOREM Invariant == Spec => []IInv
<1>1. Init => IInv
  BY InitHolds
<1>2. IInv /\ [Next]_vars => IInv'
  BY StepKeeps, StutterKeeps
<1> QED
  BY <1>1, <1>2, PTL DEF Spec

\* Whatever people and timers do in whatever order, stacks, bets, the price,
\* the raises and the pot stay counts of chips, and turns, raisers and timers
\* name seats: handleAction, the posting of blinds, antes and the bring-in
\* (engine.js) never take more from a stack than it has.
THEOREM TypesHold == Spec => []TypeOK
<1>1. IInv => TypeOK
  <2> SUFFICES ASSUME IInv PROVE TypeOK
    OBVIOUS
  <2>1. hand \in HandSet /\ hand.beat # "now" /\ hand.game \in DOMAIN Rules /\ InStreets(hand)
    BY DEF IInv, HandStands, Standing
  <2>2. hand.street \in 1..Len(Streets)
    BY <2>1, HandIs, GameIs DEF InStreets
  <2>3. hand.beat \in {"none", "open", "run", "show"}
    BY <2>1, HandIs DEF Beats
  <2>4. hand \in [game : DOMAIN Rules, on : BOOLEAN, street : 1..Len(Streets),
               beat : {"none", "open", "run", "show"}, drawing : BOOLEAN,
               first : Seat \union {None}, chips : [Seat -> Nat], bet : [Seat -> Nat],
               total : [Seat -> Nat], ante : [Seat -> Nat], folded : SUBSET Seat,
               allIn : SUBSET Seat, acted : SUBSET Seat, cur : Seat, price : Nat,
               minRaise : Nat, raises : Nat, raiser : Seat, pot : Nat, staked : Nat]
    BY <2>1, <2>2, <2>3 DEF HandSet
  <2> QED
    BY <2>4 DEF TypeOK, IInv, PeopleTyped, Timer
<1> QED
  BY <1>1, Invariant, PTL

\* A hand gives out what it took in: while it runs the pot is what the seats
\* have put in, and at its end distributePot and awardPot (engine.js) have
\* handed all of it back, side pots, odd chips, dead antes and halves for a
\* low included, unless a folded seat had put in more than anybody still in.
THEOREM ChipsComeBack == Spec => []PotsPaidOut
<1>1. IInv => PotsPaidOut
  BY DEF IInv, HandStands, Standing, Whole, PotsPaidOut, Dead
<1> QED
  BY <1>1, Invariant, PTL

\* A showdown pays by strength: distributePot (engine.js) gives nobody more
\* than they could reach, the hand that is alone the best all of that, a hand
\* that is beaten only what the better one could not reach, and what it gives
\* fits what Field lets an award be.
THEOREM PaysByStrength == Spec => []PaidByStrength
<1>1. Init => PaidAtEnd
  BY DEF Init, PaidAtEnd, PaidByStrength
<1>2. IInv /\ PaidAtEnd /\ [Next]_vars => PaidAtEnd'
  <2>1. ASSUME IInv, PaidAtEnd, UNCHANGED vars
        PROVE  PaidAtEnd'
    BY <2>1, ResultRests DEF vars, result
  <2> QED
    BY <2>1, StepPays
<1>3. PaidAtEnd => PaidByStrength
  BY DEF PaidAtEnd
<1> QED
  BY <1>1, <1>2, <1>3, Invariant, PTL DEF Spec

\* No timer (armActionTimeout, processAutoTurn and _firePreAction in engine.js)
\* puts in a chip for a seat that sits out, and a call armed before the turn
\* is played only at the price it was armed against.
THEOREM TimersPayNothingUnasked == Spec => TimersPayWhatWasAsked
<1> DEFINE asked == /\ TimerRings \/ ClockRings =>
                         \A i \in autoPlay \ Bots : hand'.chips[i] >= hand.chips[i]
                    /\ LinePlayed /\ arm[timer.seat].kind = "call" =>
                         arm[timer.seat].cost = ToCall(hand, timer.seat)
<1>1. ASSUME IInv, Next
      PROVE  asked
  <2>1. TimerRings \/ ClockRings => PaysNothing
    BY <1>1, ClockActsKeeps, ClockSitsOutKeeps, TimerActsKeeps, TimerLapsesKeeps,
       LinePlayedKeeps, LineVoidKeeps DEF TimerRings, ClockRings
  <2>2. LinePlayed /\ arm[timer.seat].kind = "call" =>
          arm[timer.seat].cost = ToCall(hand, timer.seat)
    BY <1>1, LinePlayedKeeps
  <2> QED
    BY <2>1, <2>2 DEF PaysNothing
<1> HIDE DEF asked
<1>2. IInv /\ [Next]_vars => [asked]_vars
  BY <1>1
<1>3. Spec => [][asked]_vars
  BY <1>2, Invariant, PTL DEF Spec
<1> QED
  BY <1>3 DEF TimersPayWhatWasAsked, asked
=============================================================================
