------------------------------- MODULE Games -------------------------------
(***************************************************************************)
(* The games of games.js: what each deals, street by street, how many a    *)
(* deck seats, who opens, and how a hand is scored. A mix plays one of     *)
(* them a level. What is posted and bet is Hand's.                         *)
(*                                                                         *)
(* A definition marked Slip is a plausible mistake in the one below it.    *)
(***************************************************************************)
EXTENDS HandEval

(***************************************************************************)
(* Streets: cards to every seat, the last of them face up; cards to the    *)
(* board; or a draw, on which nobody bets.                                 *)
(***************************************************************************)
NoDraw == [min |-> 0, max |-> 0, replace |-> FALSE]

Street(hole, up, board, first) ==
  [hole |-> hole, up |-> up, board |-> board, draw |-> NoDraw, first |-> first]

ADraw(min, max, replace) ==
  [Street(0, 0, 0, "afterButton") EXCEPT
     !.draw = [min |-> min, max |-> max, replace |-> replace]]

IsDraw(street) == street.draw # NoDraw

CommunityStreets(holeCards) ==
  <<Street(holeCards, 0, 0, "afterBlinds"), Street(0, 0, 3, "afterButton"),
    Street(0, 0, 1, "afterButton"), Street(0, 0, 1, "afterButton")>>

PineappleStreets ==
  LET streets == CommunityStreets(3)
  IN  SubSeq(streets, 1, 2) \o <<ADraw(1, 1, FALSE)>> \o SubSeq(streets, 3, 4)

DrawStreets ==
  <<Street(5, 0, 0, "afterBlinds"), ADraw(0, 5, TRUE), Street(0, 0, 0, "afterButton")>>

StudStreets ==
  <<Street(3, 1, 0, "bringIn"), Street(1, 1, 0, "bestShowing"), Street(1, 1, 0, "bestShowing"),
    Street(1, 1, 0, "bestShowing"), Street(1, 0, 0, "bestShowing")>>

(***************************************************************************)
(* The games. qualify is the highest card of a low that halves the pot,    *)
(* and None in a game without one; scoresLow is a game that has only a low.*)
(***************************************************************************)
None == 0

Community(holeCards, use, qualify) ==
  [maxSeats |-> 10, burn |-> TRUE, stud |-> FALSE, streets |-> CommunityStreets(holeCards),
   use |-> use, qualify |-> qualify, scoresLow |-> FALSE]

StudGame(scoresLow, qualify) ==
  [maxSeats |-> 7, burn |-> FALSE, stud |-> TRUE, streets |-> StudStreets,
   use |-> AnyFive, qualify |-> qualify, scoresLow |-> scoresLow]

GAMES ==
  [holdem    |-> Community(2, AnyFive, None),
   omaha     |-> Community(4, TwoOfHand, None),
   omahahl   |-> Community(4, TwoOfHand, 8),
   pineapple |-> [Community(3, AnyFive, None) EXCEPT !.streets = PineappleStreets],
   stud      |-> StudGame(FALSE, None),
   razz      |-> StudGame(TRUE, None),
   studhl    |-> StudGame(FALSE, 8),
   draw      |-> [Community(5, AnyFive, None) EXCEPT !.maxSeats = 8, !.burn = FALSE,
                                                     !.streets = DrawStreets]]

\* HORSE, and the seats a deck holds in every game of it.
Rotation == <<"holdem", "omahahl", "razz", "stud", "studhl">>
MixSeats == 7

\* The game a level deals.
GameAtLevel(key, level) ==
  GAMES[IF key = "horse" THEN Rotation[((level - 1) % Len(Rotation)) + 1] ELSE key]

SeatsOf(key) == IF key = "horse" THEN MixSeats ELSE GAMES[key].maxSeats

(***************************************************************************)
(* How a hand is scored: the hand it is, the low beside it, and what fewer *)
(* cards show.                                                             *)
(***************************************************************************)
Evaluate(game, hole, board) ==
  IF game.scoresLow THEN BestLow(hole, board, AnyFive, ANY_LOW) ELSE BestOf(hole, board, game.use)

Low(game, hole, board) ==
  IF game.qualify = None THEN NoHand ELSE BestLow(hole, board, game.use, game.qualify)

Showing(game, up) == IF game.scoresLow THEN EvaluateLowPartial(up) ELSE EvaluatePartial(up)

\* What a card counts for when a seat has to bring in: the highest of a game
\* scored low and the lowest of any other.
BringInKey(game, card) ==
  IF game.scoresLow THEN -(LowValue(card.value) * 4 + SuitRank(card.suit))
  ELSE card.value * 4 + SuitRank(card.suit)
=============================================================================
