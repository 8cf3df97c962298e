-------------------------------- MODULE Deal --------------------------------
(***************************************************************************)
(* The cards of one hand (engine.js): dealt street by street as the game   *)
(* says, thrown away and drawn, turned up, and compared. A step of the     *)
(* engine is an operator from a felt to a felt; Replay takes the steps.    *)
(*                                                                         *)
(* Of the betting only what decides about cards is kept: who folds on a    *)
(* street and who has nothing left to bet. Everybody begins with chips.    *)
(*                                                                         *)
(* A definition marked Slip is a plausible mistake in the one below it.    *)
(***************************************************************************)
EXTENDS Games, SequencesExt

CONSTANTS
  Tables,  \* the tables there may be, a record each
  Recent   \* how many hands a page is sent (engine.js: 10)

Suits == {"clubs", "diamonds", "hearts", "spades"}
Deck  == [value : 2..14, suit : Suits]
NoCard == [value |-> 0, suit |-> "none"]   \* undefined, or a card face down

\* A table: its game or mix, the level of its first hand, its seats and which
\* of them somebody sits at, the cards of its hands in the order a shuffle
\* left them, and bounds: the cards thrown at once, how often a card is turned
\* over after a hand, and how often somebody loses the connection.
IsTable(t) ==
  /\ t.key \in DOMAIN GAMES \cup {"horse"} /\ t.level \in Nat \ {0}
  /\ t.seats \in 2..SeatsOf(t.key) /\ t.people \subseteq 1..t.seats
  /\ t.decks \in Seq(Seq(Deck))
  /\ \A d \in DOMAIN t.decks : IsInjective(t.decks[d])
  /\ t.throws \in Nat /\ t.shows \in Nat /\ t.drops \in Nat

ASSUME DealAssumption == (\A t \in Tables : IsTable(t)) /\ Recent \in Nat \ {0}

Seat(f) == DOMAIN f.hole

(***************************************************************************)
(* Seats.                                                                  *)
(***************************************************************************)
CanAct(f) == f.live \cap f.able

\* How far to the left of i a seat is, i itself the farthest.
StepsTo(f, i, j) == ((j - i - 1) % Cardinality(Seat(f))) + 1

\* The first seat of S to the left of i; its neighbour when S is empty.
FirstOf(f, S, i) ==
  LET others == IF S = {} THEN Seat(f) ELSE S
  IN  CHOOSE j \in others : \A k \in others : StepsTo(f, i, j) <= StepsTo(f, i, k)

NextActive(f, i) == FirstOf(f, CanAct(f), i)
NextInHand(f, i) == FirstOf(f, f.live, i)

(***************************************************************************)
(* Dealing.                                                                *)
(***************************************************************************)
Streets(f) == f.game.streets
StreetOf(f) == Streets(f)[f.street]
IsLast(f) == f.street = Len(Streets(f))

\* The k-th card off the top: nothing when there is none.
Top(deck, k) == IF k <= Len(deck) THEN deck[k] ELSE NoCard
Without(deck, n) == SubSeq(deck, n + 1, Len(deck))

DealHole(f, s) ==
  LET before(i) == Cardinality({j \in f.live : j < i}) * s.hole
      cards(i)  == [k \in 1..s.hole |-> Top(f.deck, before(i) + k)]
  IN  [f EXCEPT !.hole = [i \in Seat(f) |-> IF i \in f.live THEN @[i] \o cards(i) ELSE @[i]],
                !.up   = [i \in Seat(f) |->
                            IF i \in f.live
                            THEN @[i] \cup {cards(i)[k] : k \in (s.hole - s.up + 1)..s.hole}
                            ELSE @[i]],
                !.deck = Without(@, Cardinality(f.live) * s.hole)]

\* A burn before cards that are dealt, the board, then the seats.
DealStreet(f, s) ==
  LET burnt == IF f.game.burn /\ s.board + s.hole > 0 THEN 1 ELSE 0
      board == [k \in 1..s.board |-> Top(f.deck, burnt + k)]
  IN  DealHole([f EXCEPT !.board = @ \o board, !.deck = Without(@, burnt + s.board)], s)

(***************************************************************************)
(* Who opens a street.                                                     *)
(***************************************************************************)
ShowingOf(f, i) == Showing(f.game, f.up[i])

BringInSeat(f) ==
  LET key(i) == BringInKey(f.game, CHOOSE c \in f.up[i] : TRUE)
  IN  CHOOSE i \in f.live : \A j \in f.live : key(i) <= key(j)

\* The best cards showing, the nearest of equals; the seat after it when it
\* has nothing left to bet.
BestShowing(f) ==
  LET best == {i \in f.live : \A j \in f.live : CompareHands(ShowingOf(f, i), ShowingOf(f, j)) >= 0}
      seat == FirstOf(f, best, f.dealer)
  IN  IF seat \in f.able THEN seat ELSE NextActive(f, seat)

FirstToAct(f) ==
  CASE StreetOf(f).first = "afterBlinds" ->
         IF Cardinality(Seat(f)) = 2 THEN f.dealer
         ELSE NextActive(f, FirstOf(f, Seat(f), FirstOf(f, Seat(f), f.dealer)))
    [] StreetOf(f).first = "bringIn"     -> NextActive(f, f.bring)
    [] StreetOf(f).first = "bestShowing" -> BestShowing(f)
    [] StreetOf(f).first = "afterButton" -> NextActive(f, f.dealer)

(***************************************************************************)
(* From the deal to the showdown.                                          *)
(***************************************************************************)
\* No hand yet, and what a felt keeps between two of them.
NoFelt(seats) ==
  [phase |-> "none", number |-> 0, game |-> GAMES.holdem, street |-> 1, dealer |-> 1,
   live |-> 1..seats, able |-> 1..seats, deck |-> <<>>, muck |-> {}, board |-> <<>>,
   hole |-> [i \in 1..seats |-> <<>>], up |-> [i \in 1..seats |-> {}],
   exposed |-> FALSE, drawing |-> None, bring |-> None, opens |-> None]

\* The next hand: the game of its level, and a deck in some order.
StartRound(f, t) ==
  LET number == f.number + 1
      empty  == [NoFelt(t.seats) EXCEPT
                   !.phase = "betting", !.number = number, !.dealer = f.dealer,
                   !.game = GameAtLevel(t.key, t.level + f.number), !.deck = t.decks[number]]
      dealt  == DealHole(empty, StreetOf(empty))
      posted == IF dealt.game.stud THEN [dealt EXCEPT !.bring = BringInSeat(dealt)] ELSE dealt
  IN  [posted EXCEPT !.opens = FirstToAct(posted)]

DrawAhead(f) ==
  f.drawing # None \/ \E k \in DOMAIN Streets(f) : k > f.street /\ IsDraw(Streets(f)[k])

\* Slip: the hands come up with a draw still to come.
ExposeHandsEarly(f) ==
  [f EXCEPT !.exposed = @ \/ (Cardinality(f.live) >= 2 /\ Cardinality(CanAct(f)) <= 1)]

\* Face up once nobody can bet against anybody and nobody has cards to choose.
ExposeHands(f) ==
  [f EXCEPT !.exposed =
     @ \/ (~DrawAhead(f) /\ Cardinality(f.live) >= 2 /\ Cardinality(CanAct(f)) <= 1)]

StartDraw(f) == [f EXCEPT !.phase = "drawing", !.drawing = NextInHand(f, f.dealer)]

\* The beat after a street nobody can bet on is a step of its own: RunOut.
OpenStreet(f) ==
  LET s == Streets(f)[f.street + 1]
      g == DealStreet([f EXCEPT !.street = @ + 1], s)
  IN  IF IsDraw(s) THEN StartDraw(g)
      ELSE IF Cardinality(CanAct(g)) <= 1 THEN ExposeHands([g EXCEPT !.phase = "runout"])
      ELSE [g EXCEPT !.phase = "betting", !.opens = FirstToAct(g)]

\* The button moves with the end of a hand, however it ended.
EndRound(f) == [f EXCEPT !.phase = "showdown", !.dealer = FirstOf(f, Seat(f), @)]

NextPhase(f) ==
  LET g == ExposeHands(f) IN IF IsLast(g) THEN EndRound(g) ELSE OpenStreet(g)

\* The betting of a street: some fold, some put in all they have.
Bet(f, folding, shoving) ==
  LET g == [f EXCEPT !.live = @ \ folding, !.able = @ \ shoving]
  IN  IF Cardinality(g.live) = 1 THEN EndRound(g) ELSE NextPhase(g)

(***************************************************************************)
(* The draw.                                                               *)
(***************************************************************************)
\* Slip: what a seat throws may be what it is dealt.
DecksToDrawAll(f, need) ==
  IF Len(f.deck) >= need THEN {f.deck}
  ELSE {f.deck \o s : s \in SetToSeqs(f.muck \cup ToSet(f.hole[f.drawing]))}

\* The decks a seat may draw from: the muck comes back when there are too few.
DecksToDraw(f, need) ==
  IF Len(f.deck) >= need THEN {f.deck} ELSE {f.deck \o s : s \in SetToSeqs(f.muck)}

\* The hands a throw may lead to, and a felt on which the next seat chooses.
Draw(f, thrown) ==
  LET i     == f.drawing
      draw  == StreetOf(f).draw
      need  == IF draw.replace THEN Cardinality(thrown) ELSE 0
      kept  == SelectSeq(f.hole[i], LAMBDA c : c \notin thrown)
      next  == NextInHand(f, i)
      after(deck) ==
        LET n == Min({need, Len(deck)})
            g == [f EXCEPT !.hole[i] = kept \o SubSeq(deck, 1, n),
                           !.deck = Without(deck, n),
                           !.muck = (IF deck = f.deck THEN @ ELSE {}) \cup thrown]
        IN  IF next = NextInHand(f, f.dealer) THEN NextPhase([g EXCEPT !.drawing = None])
            ELSE [g EXCEPT !.drawing = next]
  IN  {after(deck) : deck \in DecksToDraw(f, need)}

\* What is thrown for a seat nobody answers for: as few as may be, its lowest.
AutoDraw(f) ==
  LET hole == f.hole[f.drawing]
      lower(j, k) == hole[j].value < hole[k].value \/ (hole[j].value = hole[k].value /\ j < k)
  IN  {hole[k] : k \in {k \in DOMAIN hole :
         Cardinality({j \in DOMAIN hole : lower(j, k)}) < StreetOf(f).draw.min}}

(***************************************************************************)
(* The showdown: the best hands and the best lows of those still in.       *)
(***************************************************************************)
\* The seats of the best of what some of them were scored.
Winners(scored) ==
  {s.seat : s \in {s \in scored : \A other \in scored : CompareHands(s.hand, other.hand) >= 0}}

Highs(f) ==
  Winners({[seat |-> i, hand |-> Evaluate(f.game, ToSet(f.hole[i]), ToSet(f.board))] : i \in f.live})

Lows(f) ==
  LET scored == {[seat |-> i, hand |-> Low(f.game, ToSet(f.hole[i]), ToSet(f.board))] : i \in f.live}
  IN  Winners({s \in scored : s.hand # NoHand})
=============================================================================
