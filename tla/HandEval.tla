------------------------------ MODULE HandEval ------------------------------
(***************************************************************************)
(* How cards are scored (hand-eval.js): the best five of what a game puts  *)
(* in front of a player, fewer than five on the same scale, and the low.   *)
(* A card is a value, 2..14, and a suit. A definition marked Slip is a     *)
(* plausible mistake in the one below it.                                  *)
(***************************************************************************)
EXTENDS Integers, Sequences, FiniteSetsExt

NoHand == [rank |-> 0, kickers |-> <<>>]   \* null: no five cards to score

\* Suits, lowest first where poker ranks them.
SuitOrder == <<"clubs", "diamonds", "hearts", "spades">>
SuitRank(s) == CHOOSE i \in 0..3 : SuitOrder[i + 1] = s

ROYAL_FLUSH == 10
STRAIGHT_FLUSH == 9
FOUR_OF_A_KIND == 8
FULL_HOUSE == 7
FLUSH == 6
STRAIGHT == 5
THREE_OF_A_KIND == 4
TWO_PAIR == 3
ONE_PAIR == 2
HIGH_CARD == 1

(***************************************************************************)
(* Groups of equal values, the largest first and the higher of two; an ace *)
(* counts as one when aces are low.                                        *)
(***************************************************************************)
LowValue(v) == IF v = 14 THEN 1 ELSE v
HighValue(v) == v

Groups(cards, acesLow) ==
  LET value(c) == IF acesLow THEN LowValue(c.value) ELSE HighValue(c.value)
      count(v) == Cardinality({c \in cards : value(c) = v})
      any(k)   == [count |-> 4 - (k \div 14), value |-> 14 - (k % 14)]
  IN  SelectSeq([k \in 1..56 |-> any(k - 1)], LAMBDA g : count(g.value) = g.count)

Values(groups) == [i \in DOMAIN groups |-> groups[i].value]

\* The sizes of the groups, without the single cards.
Shape(groups) == SelectSeq([i \in DOMAIN groups |-> groups[i].count], LAMBDA n : n > 1)

\* Five values one below the other.
CheckStraight(groups) ==
  Len(groups) = 5 /\ groups[1].value - groups[5].value = 4

(***************************************************************************)
(* Five cards, and fewer.                                                  *)
(***************************************************************************)
Suited(cards) == \A c, d \in cards : c.suit = d.suit

\* Slip: the card beside two pairs is not looked at.
KickersPaired(groups) ==
  IF Shape(groups) = <<2, 2>> THEN SubSeq(Values(groups), 1, 2) ELSE Values(groups)

Kickers(groups) == Values(groups)

OfShape(groups) ==
  LET shape == Shape(groups) IN
  CASE shape = <<4>> -> FOUR_OF_A_KIND
    [] shape = <<3, 2>> -> FULL_HOUSE
    [] shape = <<3>> -> THREE_OF_A_KIND
    [] shape = <<2, 2>> -> TWO_PAIR
    [] shape = <<2>> -> ONE_PAIR
    [] shape = <<>> -> HIGH_CARD

\* An ace is high in a straight, and low when it is none that way.
Evaluate5Cards(cards) ==
  LET high == Groups(cards, FALSE)
      low == Groups(cards, TRUE)
      flush == Suited(cards)
  IN
  CASE ~CheckStraight(high) /\ CheckStraight(low) ->
         [rank |-> IF flush THEN STRAIGHT_FLUSH ELSE STRAIGHT, kickers |-> <<5>>]
    [] CheckStraight(high) ->
         [rank |-> IF ~flush THEN STRAIGHT
                   ELSE IF high[1].value = 14 THEN ROYAL_FLUSH ELSE STRAIGHT_FLUSH,
          kickers |-> <<high[1].value>>]
    [] OTHER ->
         [rank |-> IF flush THEN FLUSH ELSE OfShape(high), kickers |-> Kickers(high)]

\* Fewer than five, which cannot be a straight or a flush.
EvaluatePartial(cards) ==
  LET groups == Groups(cards, FALSE) IN [rank |-> OfShape(groups), kickers |-> Kickers(groups)]

(***************************************************************************)
(* Above 0 when the first is the better, 0 when they share.                *)
(***************************************************************************)
CompareHands(a, b) ==
  LET shared == 1..Min({Len(a.kickers), Len(b.kickers)})
      differ == {i \in shared : a.kickers[i] # b.kickers[i]}
  IN  IF a.rank # b.rank THEN a.rank - b.rank
      ELSE IF differ = {} THEN 0
      ELSE a.kickers[Min(differ)] - b.kickers[Min(differ)]

(***************************************************************************)
(* The low: the ace is the lowest card, straights and flushes count for    *)
(* nothing, and a smaller card is a bigger kicker.                         *)
(***************************************************************************)
NO_PAIR == 6

LowCategory(groups) ==
  LET shape == Shape(groups) IN
  CASE shape = <<>> -> NO_PAIR
    [] shape = <<2>> -> 5
    [] shape = <<2, 2>> -> 4
    [] shape = <<3>> -> 3
    [] shape = <<3, 2>> -> 2
    [] shape = <<4>> -> 1

LowOf(cards) ==
  LET groups == Groups(cards, TRUE) IN
  [rank |-> LowCategory(groups), kickers |-> [i \in DOMAIN groups |-> -groups[i].value]]

(***************************************************************************)
(* The best of a hand and a board. A rule says how many cards come from    *)
(* the hand; with none any five do.                                        *)
(***************************************************************************)
AnyFive == [min |-> 0, max |-> 5]
TwoOfHand == [min |-> 2, max |-> 2]

Fives(hole, board, use) ==
  {f \in kSubset(5, hole \cup board) :
     use = AnyFive \/ Cardinality(f \cap hole) \in use.min..use.max}

Best(hands) ==
  IF hands = {} THEN NoHand
  ELSE CHOOSE h \in hands : \A other \in hands : CompareHands(h, other) >= 0

BestOf(hole, board, use) == Best({Evaluate5Cards(f) : f \in Fives(hole, board, use)})

\* No low has a card above this: the game has no such rule.
ANY_LOW == 13

BestLow(hole, board, use, qualify) ==
  LET best == Best({LowOf(f) : f \in Fives(hole, board, use)}) IN
  IF \/ best = NoHand
     \/ qualify # ANY_LOW /\ (best.rank # NO_PAIR \/ -best.kickers[1] > qualify)
  THEN NoHand ELSE best

EvaluateLowPartial(cards) == LowOf(cards)
=============================================================================
