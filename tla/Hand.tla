------------------------------- MODULE Hand -------------------------------
(***************************************************************************)
(* One hand at one table: engine.js from startRound() to endRound(), with  *)
(* the limits of betting-limits.js, the families of games.js, and the      *)
(* handlers that write into a seat while a hand runs (dropped and resumed  *)
(* connections, sitting out, lines armed before a turn).                   *)
(*                                                                         *)
(* A handler runs to completion, so each is one action: what it computes   *)
(* of the hand is an operator from record to record, named for the method. *)
(* Between handlers the table waits for a person or for one of its three   *)
(* timers: the turn clock, the beat of an automated turn, and the beat     *)
(* between streets, which production always has (streetPauseMs > 0).       *)
(*                                                                         *)
(* Cards are abstracted to what is decided by them: who brings in, who     *)
(* opens a stud street, and the order of the hands at the showdown.        *)
(*                                                                         *)
(* A definition marked Slip is a plausible mistake in the one below it.    *)
(***************************************************************************)
EXTENDS Chips, FiniteSets, Sequences

CONSTANTS
  N,           \* seats, everybody with chips
  Button,      \* dealerIndex; the button moves only between hands
  SmallBlind,  \* the level's small blind
  BigBlind,    \* the level's big blind
  Ranks,       \* how many strengths a hand may have at the showdown
  Rules,       \* the games a table may play: a name, and the record Game
  MaxOffers    \* bound: how often people do anything besides acting in turn

Seat == 1..N
None == 0

IsGame(r) ==
  /\ r.stacks \subseteq [Seat -> Nat \ {0}]
  /\ r.ante \in Nat /\ r.stud \in BOOLEAN
  /\ r.streets \in Seq({"bet", "draw"}) /\ Len(r.streets) > 0 /\ r.streets[1] = "bet"
  /\ r.streets[Len(r.streets)] = "bet"
  /\ r.bigBetFrom \in Nat /\ r.limit \in {"no", "pot", "fixed"}
  /\ r.lows \in Nat /\ r.bots \subseteq Seat
  /\ r.offers \subseteq {"drop", "sitOut", "sitIn", "arm"}

ASSUME HandAssumption ==
  /\ N \in Nat \ {0, 1} /\ Button \in Seat
  /\ SmallBlind \in Nat \ {0} /\ BigBlind \in Nat \ {0} /\ SmallBlind <= BigBlind
  /\ Ranks \in Nat \ {0} /\ MaxOffers \in Nat
  /\ \A g \in DOMAIN Rules : IsGame(Rules[g])

VARIABLES
  hand,      \* the engine's fields about the hand, a record
  autoPlay,  \* seats with autoPlay set
  requested, \* those of them whose sitOutReason is 'requested'
  away,      \* seats with isConnected false
  strikes,   \* timeoutStrikes
  arm,       \* preAction
  clock,     \* actionTimeout: the seat it was armed for, or None
  timer,     \* _autoTurnTimer: the seat and whether it fires an armed line
  shown,     \* the strengths and lows of the last showdown
  won,       \* and what it awarded
  offered    \* how often people did something out of turn (MaxOffers)

\* The game of this table, the same for every hand of it.
Game       == Rules[hand.game]
Stacks     == Game.stacks      \* the stacks a hand may begin with, seat by seat
Ante       == Game.ante        \* the level's big-blind ante
Stud       == Game.stud        \* whether antes and a bring-in are posted, not blinds
Streets    == Game.streets     \* what each street is: "bet" or "draw"
BigBetFrom == Game.bigBetFrom  \* the first street, from 0, of the big bet
Limit      == Game.limit       \* "no", "pot" or "fixed"
Lows       == Game.lows        \* how many strengths a qualifying low may have
Bots       == Game.bots        \* seats the server plays
Offers     == Game.offers      \* bound: what people may do besides acting

people == <<autoPlay, requested, away, strikes, arm>>
timers == <<clock, timer>>
result == <<shown, won>>
vars   == <<hand, people, timers, result, offered>>

-----------------------------------------------------------------------------
(* The seats *)

Lesser(a, b)  == IF a < b THEN a ELSE b
Greater(a, b) == IF a > b THEN a ELSE b
Zero == [i \in Seat |-> 0]

\* The seat k places to the left.
After(i, k) == ((i - 1 + k) % N) + 1

\* The first seat of S to the left of i; the neighbour when S is empty.
FirstOf(S, i) ==
  IF S = {} THEN After(i, 1)
  ELSE LET k == CHOOSE k \in 1..N : /\ After(i, k) \in S
                                    /\ \A j \in 1..(k - 1) : After(i, j) \notin S
       IN  After(i, k)

Live(h)   == Seat \ h.folded
CanAct(h) == {i \in Live(h) \ h.allIn : h.chips[i] > 0}

NextActive(h, i) == FirstOf(CanAct(h), i)
NextInHand(h, i) == FirstOf(Live(h), i)

SmallSeat == IF N = 2 THEN Button ELSE After(Button, 1)
BigSeat   == After(SmallSeat, 1)

-----------------------------------------------------------------------------
(* Chips going in *)

\* n of i's chips on the bet line; the last chip is an all-in.
Put(h, i, n) ==
  [h EXCEPT !.chips[i] = @ - n, !.bet[i] = @ + n, !.total[i] = @ + n, !.pot = @ + n,
            !.allIn = IF h.chips[i] = n THEN @ \union {i} ELSE @]

Posted(h, i, n) == Put(h, i, Lesser(n, h.chips[i]))

\* Dead money: in the pot, on nobody's bet line.
PostedAnte(h, i, n) ==
  LET actual == Lesser(n, h.chips[i]) IN
  [h EXCEPT !.chips[i] = @ - actual, !.ante[i] = actual, !.pot = @ + actual,
            !.allIn = IF h.chips[i] = actual THEN @ \union {i} ELSE @]

Dead(h)      == Total(h.ante, N)
ToCall(h, i) == h.price - h.bet[i]

\* The bet the street is sized in.
BetUnit(h) ==
  CASE Limit # "fixed" -> IF Stud THEN 2 * BigBlind ELSE BigBlind
    [] OTHER -> IF h.street - 1 >= BigBetFrom THEN 2 * BigBlind ELSE BigBlind

MinTo(h) ==
  IF Limit = "fixed" THEN ((h.price \div BetUnit(h)) + 1) * BetUnit(h)
  ELSE h.price + h.minRaise

MaxTo(h, i) ==
  LET all == h.bet[i] + h.chips[i] IN
  CASE Limit = "fixed" -> MinTo(h)
    [] Limit = "pot"   -> Lesser(all, Greater(MinTo(h), h.price + h.pot
                                                        + Greater(0, ToCall(h, i))))
    [] Limit = "no"    -> all

Capped(h) == Limit = "fixed" /\ Cardinality(Live(h)) # 2 /\ h.raises >= 4

-----------------------------------------------------------------------------
(* handleAction: what each answer does to the hand *)

Called(h, i) ==
  IF ToCall(h, i) <= 0 THEN h ELSE Put(h, i, Lesser(ToCall(h, i), h.chips[i]))

\* All of it.  Short of a full raise it moves the price and nothing else.
Shoved(h, i) ==
  LET g == Put(h, i, h.chips[i])
      more == g.bet[i] - h.price
  IN  IF more <= 0 THEN g
      ELSE IF more < h.minRaise THEN [g EXCEPT !.price = g.bet[i]]
      ELSE [g EXCEPT !.price = g.bet[i], !.raiser = i,
                     !.minRaise = Greater(BetUnit(h), more)]

\* A raise to x: a call when the cap is spent or the stack only reaches the
\* price, an all-in when it falls short of the least raise.
RaisedTo(h, i, x) ==
  LET reach == h.bet[i] + h.chips[i]
      to    == Lesser(Lesser(Greater(x, MinTo(h)), MaxTo(h, i)), reach)
      g     == Put(h, i, to - h.bet[i])
  IN  IF Capped(h) \/ reach <= h.price THEN Called(h, i)
      ELSE IF reach < MinTo(h) THEN Shoved(h, i)
      ELSE [g EXCEPT !.price = to, !.raiser = i, !.raises = @ + 1,
                     !.minRaise = Greater(BetUnit(h), to - h.price)]

\* Under a limit a stack above the most allowed is a raise to that most.
AllIn(h, i) ==
  IF h.bet[i] + h.chips[i] > MaxTo(h, i) /\ MaxTo(h, i) > h.price
  THEN RaisedTo(h, i, MaxTo(h, i))
  ELSE Shoved(h, i)

\* The hands an answer may lead to, before the turn moves on: none when it is
\* refused.  Against nobody who can answer, a raise is a call.
Answers(h, i, a) ==
  LET alone == CanAct(h) \subseteq {i} IN
  IF a = "fold" THEN {[h EXCEPT !.folded = @ \union {i}]}
  ELSE IF a = "check" THEN IF ToCall(h, i) > 0 THEN {} ELSE {h}
  ELSE IF a = "call" \/ alone THEN {Called(h, i)}
  ELSE IF a = "allin" THEN {AllIn(h, i)}
  ELSE {RaisedTo(h, i, x) : x \in MinTo(h)..Greater(MinTo(h), MaxTo(h, i))}

Actions == {"fold", "check", "call", "raise", "allin"}

\* handleAction takes an answer only from the seat to act, when it can act.
\* It does not ask whether a hand is running: see Act.
MayAnswer(h, i) ==
  /\ h.beat = "none" /\ ~h.drawing
  /\ i = h.cur /\ i \notin h.folded \union h.allIn

-----------------------------------------------------------------------------
(* advanceAction: where the turn goes *)

LiveOption(h, i) ==
  ~Stud /\ h.street = 1 /\ i = BigSeat /\ i \notin h.acted /\ h.bet[i] >= h.price

\* The big blind has taken its option without raising, and nobody owes.
OptionTaken(h) ==
  /\ ~Stud /\ h.street = 1 /\ h.cur = BigSeat /\ h.raiser = BigSeat
  /\ BigSeat \in h.acted
  /\ \A i \in CanAct(h) : h.bet[i] >= h.price

\* The walk stops at the first seat that can act, or, when it has passed a
\* seat that cannot, at the last raiser even if that one cannot either.  With
\* nobody left to act it always ends there, so the branch of the code for
\* that case is never taken.
WalkStop(h) ==
  LET stops(k) == \/ k <= N /\ After(h.cur, k) \in CanAct(h)
                  \/ k > 1 /\ After(h.cur, k) = h.raiser
      k == CHOOSE k \in 1..(N + 1) : stops(k) /\ \A j \in 1..(k - 1) : ~stops(j)
  IN  After(h.cur, k)

\* Slip: back at the last raiser the street is over, owing or not.
WalkClosesOwing(h) ==
  LET s == WalkStop(h) IN s = h.raiser /\ ~LiveOption(h, s)

WalkCloses(h) ==
  LET s == WalkStop(h) IN
  /\ s = h.raiser
  /\ s \in h.folded \union h.allIn \/ (h.bet[s] >= h.price /\ ~LiveOption(h, s))

Owing(h) == {i \in CanAct(h) : i \notin h.acted \/ h.bet[i] < h.price}

\* nextPhase: the bets stay on the felt for the beat between streets.
NextPhase(h) == [h EXCEPT !.beat = IF h.street = Len(Streets) THEN "show" ELSE "open"]

\* awardPot and endRound: everybody else has folded.
FoldedOut(h) ==
  [h EXCEPT !.on = FALSE, !.pot = 0,
            !.chips = [i \in Seat |-> IF i \in Live(h) THEN @[i] + h.pot ELSE @[i]]]

Advance(h) ==
  IF Cardinality(Live(h)) = 1 THEN FoldedOut(h)
  ELSE IF OptionTaken(h) \/ WalkCloses(h) THEN NextPhase(h)
  ELSE IF \E i \in CanAct(h) : CanAct(h) = {i} /\ h.bet[i] >= h.price
    THEN LET i == CHOOSE i \in CanAct(h) : TRUE IN
         IF LiveOption(h, i) THEN [h EXCEPT !.cur = i] ELSE NextPhase(h)
  ELSE IF Owing(h) = {} THEN NextPhase(h)
  ELSE [h EXCEPT !.cur = WalkStop(h)]

\* What is left of i's answer g once the turn has moved on.
Answered(g, i) == Advance([g EXCEPT !.acted = @ \union {i}])

-----------------------------------------------------------------------------
(* The streets *)

\* Who may open street k: on a stud street whoever shows the best cards, or
\* the next that can act when that seat cannot.
Openers(h, k) ==
  IF ~Stud THEN {NextActive(h, Button)}
  ELSE {IF s \in CanAct(h) THEN s ELSE NextActive(h, s) : s \in Live(h)}

\* Slip: the orbit of the draw has no beginning to come back to.
StartDrawUnmarked(h) ==
  LET first == NextInHand(h, Button) IN
  [h EXCEPT !.drawing = TRUE, !.cur = first, !.raiser = first]

StartDraw(h) ==
  LET first == NextInHand(h, Button) IN
  [h EXCEPT !.drawing = TRUE, !.first = first, !.cur = first, !.raiser = first]

\* _openStreet: a street nobody can bet on is shown for a beat and run out.
OpenedStreets(h) ==
  LET g == [h EXCEPT !.beat = "none", !.bet = Zero, !.acted = {}, !.price = 0, !.raises = 0,
                     !.street = @ + 1]
      s == [g EXCEPT !.minRaise = BetUnit(g)]
  IN  IF Streets[s.street] = "draw" THEN {StartDraw(s)}
      ELSE {LET o == [s EXCEPT !.cur = c, !.raiser = c] IN
            IF Cardinality(CanAct(o)) > 1 THEN o
            ELSE IF o.street < Len(Streets) THEN [o EXCEPT !.beat = "run"]
            ELSE [o EXCEPT !.beat = "now"] : c \in Openers(s, s.street)}

\* dealRemainingCards: one more street, or the showdown after the last.  A
\* street that draws is opened: the seats choose, all in or not.
DrawsNext(h) == h.street < Len(Streets) /\ Streets[h.street + 1] = "draw"
RunOut(h) ==
  IF h.street = Len(Streets) THEN [h EXCEPT !.beat = "now"] ELSE [h EXCEPT !.street = @ + 1]

\* _advanceDraw: the hand moves on when the last seat has chosen.
AdvanceDraw(h) ==
  LET next == NextInHand(h, h.cur) IN
  IF next = h.first THEN NextPhase([h EXCEPT !.drawing = FALSE, !.first = None])
  ELSE [h EXCEPT !.cur = next]

-----------------------------------------------------------------------------
(* The showdown: distributePot *)

\* The bets of those still in cut the pot into slices; what one of them put
\* in is the top of a slice.  Leaders has one seat for every slice.
Leaders(h) == {i \in Live(h) : \A j \in Live(h) : h.total[j] = h.total[i] => i <= j}
Under(h, l) ==
  LET lower == {0} \union {h.total[i] : i \in {j \in Live(h) : h.total[j] < l}}
  IN  CHOOSE m \in lower : \A k \in lower : k <= m

\* Slip: the antes go with the highest slice.
SliceAntesOnTop(h, l) ==
  Total([p \in Seat |-> Lesser(h.total[p], l) - Lesser(h.total[p], Under(h, l))], N)
    + (IF \A i \in Live(h) : l >= h.total[i] THEN Dead(h) ELSE 0)

\* The slice up to l; the antes go with the lowest.
Slice(h, l) ==
  Total([p \in Seat |-> Lesser(h.total[p], l) - Lesser(h.total[p], Under(h, l))], N)
    + (IF \A i \in Live(h) : l <= h.total[i] THEN Dead(h) ELSE 0)

Eligible(h, l) == {i \in Live(h) : h.total[i] >= l}
BestOf(S, r)   == {i \in S : \A j \in S : r[j] <= r[i]}
Highs(h, l, r) == BestOf(Eligible(h, l), r)
LowsAt(h, l, lo) == BestOf({i \in Eligible(h, l) : lo[i] > 0}, lo)

\* A slice with a qualified low is halved, the odd chip to the high.
Halves(n, split) == IF split THEN <<n - n \div 2, n \div 2>> ELSE <<n, 0>>

\* Slip: the odd chips of a split go to nobody.
ShareRounded(i, W, n, r) == IF i \notin W THEN 0 ELSE n \div Cardinality(W)

\* Equal shares, the odd chips to the first of them in the order of the
\* results: the better high hand, then the seat.
ShareOf(i, W, n, r) ==
  IF i \notin W THEN 0
  ELSE LET before == {j \in W : r[j] > r[i] \/ (r[j] = r[i] /\ j < i)} IN
       n \div Cardinality(W) + (IF Cardinality(before) < n % Cardinality(W) THEN 1 ELSE 0)

FromSlice(h, l, i, r, lo) ==
  LET lows   == LowsAt(h, l, lo)
      halves == Halves(Slice(h, l), lows # {})
  IN  ShareOf(i, Highs(h, l, r), halves[1], r) + ShareOf(i, lows, halves[2], r)

FromSlices(h, i, r, lo) ==
  Total([q \in Seat |-> IF q \in Leaders(h) THEN FromSlice(h, h.total[q], i, r, lo) ELSE 0], N)

\* What no slice reached, a folded seat having put in more than anybody still
\* in.  The code takes it for a refund already made when one seat alone has
\* the top slice, and otherwise hands it to the last of the biggest bettors.
Unreached(h) ==
  Total([p \in Seat |-> IF \A i \in Live(h) : h.total[i] < h.total[p]
                        THEN h.total[p] - Under(h, h.total[p]) ELSE 0], N)
TopSeats(h) == {i \in Live(h) : \A j \in Live(h) : h.total[j] <= h.total[i]}
Leftover(h, i, r) ==
  IF Cardinality(TopSeats(h)) > 1
     /\ i \in TopSeats(h)
     /\ \A j \in TopSeats(h) : r[i] < r[j] \/ (r[i] = r[j] /\ j <= i)
  THEN Unreached(h) ELSE 0

Won(h, r, lo) ==
  [i \in Seat |-> IF i \in Live(h) THEN FromSlices(h, i, r, lo) + Leftover(h, i, r) ELSE 0]

Shown(h, most) == {r \in [Seat -> 0..most] : \A i \in h.folded : r[i] = 0}

-----------------------------------------------------------------------------
(* Turns and timers *)

NoTimer  == [seat |-> None, armed |-> FALSE]
NoLine   == [kind |-> "none", at |-> 0, cost |-> 0]
NothingShown == [rank |-> Zero, low |-> Zero]

Automated(i, auto) == i \in auto \union Bots

\* beginCurrentTurn: an automated seat and an armed line get the short beat,
\* anybody else the clock; t is the automated turn that was pending.
TurnOpens(h, auto, lines, t) ==
  LET i    == h.cur
      idle == i \in h.folded \/ (i \in h.allIn /\ ~h.drawing)
  IN  CASE Automated(i, auto) ->
             /\ clock' = None
             /\ timer' = IF idle THEN t ELSE [seat |-> i, armed |-> FALSE]
        [] ~Automated(i, auto) /\ lines[i] # NoLine /\ ~h.drawing
             /\ i \notin h.folded \union h.allIn ->
             /\ clock' = None
             /\ timer' = [seat |-> i, armed |-> TRUE]
        [] OTHER ->
             /\ clock' = IF idle THEN None ELSE i
             /\ timer' = t

\* Slip: the clock of the last turn of a street runs on.
MovesToClockRunning(h, lines, t) ==
  /\ hand' = h
  /\ arm' = lines
  /\ IF h.on /\ h.beat = "none" THEN TurnOpens(h, autoPlay, lines, t)
     ELSE timer' = t /\ UNCHANGED clock

\* The end of a handler that moved the hand on: a turn opens, or the beat or
\* the end of the hand finds the clock cleared.
MovesTo(h, lines, t) ==
  /\ hand' = h
  /\ arm' = lines
  /\ IF h.on /\ h.beat = "none" THEN TurnOpens(h, autoPlay, lines, t)
     ELSE clock' = None /\ timer' = t

\* Acting spends one's own line; a rising price kills those made against it.
LinesLeft(g, i) ==
  [j \in Seat |-> IF j = i \/ (g.price > hand.price /\ arm[j].kind \in {"check", "call"})
                  THEN NoLine ELSE arm[j]]

HandleAction(i, a, t) ==
  /\ MayAnswer(hand, i)
  /\ \E g \in Answers(hand, i, a) : MovesTo(Answered(g, i), LinesLeft(g, i), t)

\* handleDraw: the seat has thrown its cards away.
MayDraw(h, i) == h.beat = "none" /\ h.drawing /\ i = h.cur /\ i \notin h.folded
HandleDraw(i, t) == MayDraw(hand, i) /\ MovesTo(AdvanceDraw(hand), arm, t)

-----------------------------------------------------------------------------
(* The deal: startRound *)

Fresh(g, s) ==
  [game |-> g, on |-> TRUE, street |-> 1, beat |-> "none", drawing |-> FALSE, first |-> None,
   chips |-> s, bet |-> Zero, total |-> Zero, ante |-> Zero, folded |-> {}, allIn |-> {},
   acted |-> {}, cur |-> Button, price |-> 0, minRaise |-> 0, raises |-> 0,
   raiser |-> Button, pot |-> 0, staked |-> Total(s, N)]

\* The ante before the blind: a short big blind covers the ante first.
BlindsPosted(s) ==
  LET h == Posted(Posted(PostedAnte(Fresh(hand.game, s), BigSeat, Ante), SmallSeat, SmallBlind),
                  BigSeat, BigBlind)
  IN  [h EXCEPT !.price = BigBlind, !.raiser = BigSeat, !.raises = 1,
                !.minRaise = BetUnit(h),
                !.cur = IF N = 2 THEN SmallSeat ELSE NextActive(h, BigSeat)]

StudAnte == Greater(1, (SmallBlind + 1) \div 2)

Anted(s) ==
  LET paid == [i \in Seat |-> Lesser(StudAnte, s[i])] IN
  [Fresh(hand.game, s) EXCEPT !.ante = paid, !.pot = Total(paid, N),
                   !.chips = [i \in Seat |-> s[i] - paid[i]],
                   !.allIn = {i \in Seat : s[i] = paid[i]}]

\* The bring-in is the small blind; completing it is the first raise.
BroughtIn(s, b) ==
  LET h == Posted(Anted(s), b, SmallBlind) IN
  [h EXCEPT !.price = SmallBlind, !.raiser = b,
            !.minRaise = Greater(1, BigBlind - SmallBlind),
            !.cur = NextActive(h, b)]

Dealt(s) == IF Stud THEN {BroughtIn(s, b) : b \in Seat} ELSE {BlindsPosted(s)}

-----------------------------------------------------------------------------
(* Actions *)

NotOffered == UNCHANGED <<requested, away, offered>>

\* Between two hands the field moves the button and the people: the next
\* hand is dealt to any stacks.
Deal ==
  /\ ~hand.on
  /\ \E s \in Stacks : \E h \in Dealt(s) : MovesTo(h, [i \in Seat |-> NoLine], timer)
  /\ shown' = NothingShown /\ won' = Zero
  /\ UNCHANGED <<autoPlay, strikes>> /\ NotOffered

\* A person acts on their turn.  Nothing asks whether the seat sits out.  That
\* the page offers no answer between hands is assumed here.
Act(i) ==
  /\ hand.on /\ i \notin away \union Bots
  /\ \/ \E a \in Actions : HandleAction(i, a, timer)
     \/ HandleDraw(i, timer)
  /\ strikes' = [strikes EXCEPT ![i] = 0]
  /\ UNCHANGED <<autoPlay, result>> /\ NotOffered

\* The clock asks again whether it is this seat's turn to play.  That the
\* answer is always yes is TurnIsOwed, and the case of no has no action.
ClockStands(i) ==
  /\ i = hand.cur /\ i \notin hand.folded /\ (i \notin hand.allIn \/ hand.drawing)
  /\ ~Automated(i, autoPlay)

\* The first time the clock checks, folds or stands pat for the player; between
\* streets that is refused, and costs the strike only.
ClockActs ==
  /\ clock # None /\ ClockStands(clock) /\ strikes[clock] = 0
  /\ strikes' = [strikes EXCEPT ![clock] = 1]
  /\ \/ HandleAction(clock, IF ToCall(hand, clock) <= 0 THEN "check" ELSE "fold", timer)
     \/ HandleDraw(clock, timer)
     \/ /\ hand.beat # "none"
        /\ clock' = None
        /\ UNCHANGED <<hand, arm, timer>>
  /\ UNCHANGED <<autoPlay, result>> /\ NotOffered

\* The second time in a row the player is sat out.
ClockSitsOut ==
  /\ clock # None /\ ClockStands(clock) /\ strikes[clock] > 0
  /\ autoPlay' = autoPlay \union {clock}
  /\ strikes' = [strikes EXCEPT ![clock] = 2]
  /\ clock' = None
  /\ timer' = [seat |-> clock, armed |-> FALSE]
  /\ UNCHANGED <<hand, arm, result>> /\ NotOffered

\* Slip: a seat sitting out calls.
AutomaticCalls(i) ==
  {IF ToCall(hand, i) > 0 THEN "call" ELSE "check"}

\* A seat sitting out gives the hand up; a bot bets and calls as it likes,
\* raises by half the pot, and folds only to a price above 0.6 of its stack.
Automatic(i) ==
  LET owed == ToCall(hand, i) > 0
      big  == 5 * ToCall(hand, i) > 3 * Greater(1, hand.chips[i])
  IN  IF i \notin Bots THEN {IF owed THEN "fold" ELSE "check"}
      ELSE (IF CanAct(hand) \subseteq {i} \/ (owed /\ big) THEN {} ELSE {"raise"})
             \union (IF owed THEN {"call"} ELSE {"check"})
             \union (IF owed /\ big THEN {"fold"} ELSE {})
BotRaise == hand.price + Greater(hand.minRaise, (hand.pot + 1) \div 2)

TimerStands(i) ==
  /\ hand.on /\ i = hand.cur /\ Automated(i, autoPlay)
  /\ i \notin hand.folded /\ (i \notin hand.allIn \/ hand.drawing)

AutoTurn(i) ==
  \/ HandleDraw(i, NoTimer)
  \/ \E a \in Automatic(i) \ {"raise"} : HandleAction(i, a, NoTimer)
  \/ /\ "raise" \in Automatic(i)
     /\ MayAnswer(hand, i)
     /\ LET g == RaisedTo(hand, i, BotRaise) IN
        MovesTo(Answered(g, i), LinesLeft(g, i), NoTimer)

TimerActs ==
  /\ timer # NoTimer /\ ~timer.armed /\ TimerStands(timer.seat)
  /\ AutoTurn(timer.seat)
  /\ strikes' = [strikes EXCEPT ![timer.seat] = 0]
  /\ UNCHANGED <<autoPlay, result>> /\ NotOffered

\* The turn has moved, the player has taken it back, or it is between streets.
TimerLapses ==
  /\ timer # NoTimer
  /\ IF timer.armed THEN ~hand.on \/ timer.seat # hand.cur \/ Automated(timer.seat, autoPlay)
     ELSE ~TimerStands(timer.seat) \/ hand.beat # "none"
  /\ timer' = NoTimer
  /\ UNCHANGED <<hand, autoPlay, strikes, arm, clock, result>> /\ NotOffered

\* _resolvePreAction: what an armed line comes to, if it still applies.
Resolved(i) ==
  CASE arm[i].kind = "checkfold" -> {IF ToCall(hand, i) <= 0 THEN "check" ELSE "fold"}
    [] arm[i].kind = "check"     -> IF ToCall(hand, i) <= 0 THEN {"check"} ELSE {}
    [] arm[i].kind = "callany"   -> {"call"}
    [] arm[i].kind = "call" /\ arm[i].at = hand.price /\ arm[i].cost = ToCall(hand, i)
                                 -> {"call"}
    [] OTHER -> {}

LineStands(i) == hand.on /\ i = hand.cur /\ ~Automated(i, autoPlay)

LinePlayed ==
  /\ timer.armed /\ LineStands(timer.seat)
  /\ \E a \in Resolved(timer.seat) : HandleAction(timer.seat, a, NoTimer)
  /\ strikes' = [strikes EXCEPT ![timer.seat] = 0]
  /\ UNCHANGED <<autoPlay, result>> /\ NotOffered

\* The line is void or refused, and the player gets the clock.
LineVoid ==
  /\ timer.armed /\ LineStands(timer.seat)
  /\ Resolved(timer.seat) = {} \/ ~MayAnswer(hand, timer.seat)
  /\ arm' = [arm EXCEPT ![timer.seat] = NoLine]
  /\ timer' = NoTimer
  /\ clock' = IF timer.seat \in hand.folded
                 \/ (timer.seat \in hand.allIn /\ ~hand.drawing)
              THEN None ELSE timer.seat
  /\ UNCHANGED <<hand, autoPlay, strikes, result>> /\ NotOffered

\* The showdown and the end of the hand.
Showdown(h) ==
  \E r \in Shown(h, Ranks), lo \in Shown(h, Lows) :
    /\ \A i \in Live(h) : r[i] > 0
    /\ shown' = [rank |-> r, low |-> lo]
    /\ won' = Won(h, r, lo)
    /\ hand' = [h EXCEPT !.on = FALSE, !.beat = "none", !.pot = 0,
                         !.chips = [i \in Seat |-> @[i] + won'[i]]]
    /\ clock' = None

\* The beat between streets is over.
BeatLeadsTo(h) ==
  IF h.beat = "now" THEN Showdown(h) /\ UNCHANGED timer
  ELSE /\ hand' = h /\ UNCHANGED result
       /\ IF h.beat = "none" THEN TurnOpens(h, autoPlay, arm', timer)
          ELSE UNCHANGED timers

OpenStreet ==
  /\ hand.on
  /\ hand.beat = "open" \/ (hand.beat = "run" /\ DrawsNext(hand))
  /\ arm' = [i \in Seat |-> NoLine]
  /\ \E h \in OpenedStreets(hand) : BeatLeadsTo(h)
  /\ UNCHANGED <<autoPlay, strikes>> /\ NotOffered

RunOutStreet ==
  /\ hand.on /\ hand.beat = "run" /\ ~DrawsNext(hand)
  /\ UNCHANGED arm
  /\ BeatLeadsTo(RunOut(hand))
  /\ UNCHANGED <<autoPlay, strikes>> /\ NotOffered

ShowHands ==
  /\ hand.on /\ hand.beat = "show"
  /\ UNCHANGED arm
  /\ BeatLeadsTo([hand EXCEPT !.beat = "now"])
  /\ UNCHANGED <<autoPlay, strikes>> /\ NotOffered

-----------------------------------------------------------------------------
(* What people do out of turn *)

Offered(what) ==
  /\ what \in Offers /\ offered < MaxOffers
  /\ offered' = offered + 1
  /\ UNCHANGED <<hand, strikes, result>>

\* The turn is put to the seat again, when it is that seat's turn.
TurnAgain(i, auto, lines) ==
  IF hand.on /\ i = hand.cur THEN TurnOpens(hand, auto, lines, timer) ELSE UNCHANGED timers

\* unbind: a seat that could still act sits out; one that folded or is all in
\* keeps its place in the hand.
Drop(i) ==
  /\ Offered("drop") /\ i \notin away \union Bots
  /\ away' = away \union {i}
  /\ IF hand.on /\ i \notin hand.folded \union hand.allIn
     THEN autoPlay' = autoPlay \union {i} /\ TurnAgain(i, autoPlay', arm)
     ELSE UNCHANGED <<autoPlay, timers>>
  /\ UNCHANGED <<requested, arm>>

\* bind and resumeSeat: sitting out that was not asked for is over.
Return(i) ==
  /\ Offered("drop") /\ i \in away \union (autoPlay \ requested)
  /\ away' = away \ {i}
  /\ IF i \in autoPlay \ requested
     THEN autoPlay' = autoPlay \ {i} /\ TurnAgain(i, autoPlay', arm)
     ELSE UNCHANGED <<autoPlay, timers>>
  /\ UNCHANGED <<requested, arm>>

\* setAutoPlay, on: whatever waited for later is settled by it.
SitOut(i) ==
  /\ Offered("sitOut") /\ i \notin away \union autoPlay \union Bots
  /\ autoPlay' = autoPlay \union {i}
  /\ requested' = requested \union {i}
  /\ arm' = [arm EXCEPT ![i] = NoLine]
  /\ TurnAgain(i, autoPlay', arm')
  /\ UNCHANGED away

\* setAutoPlay, off.  The turn is not put to the seat again.
SitIn(i) ==
  /\ Offered("sitIn") /\ i \in autoPlay \ away
  /\ autoPlay' = autoPlay \ {i}
  /\ requested' = requested \ {i}
  /\ UNCHANGED <<away, arm, timers>>

\* The lines the row of buttons offers.  A call carries the price the page
\* showed, which may be older than the table's.
Lines(i) ==
  {[kind |-> k, at |-> 0, cost |-> 0] : k \in {"checkfold", "check", "callany"}}
    \union {[kind |-> "call", at |-> p, cost |-> p - hand.bet[i]] :
              p \in (hand.bet[i] + 1)..hand.price}

\* armPreAction: for a turn the seat does not have yet.
Arm(i) ==
  /\ Offered("arm") /\ i \notin away \union autoPlay \union Bots
  /\ hand.on /\ i \in CanAct(hand) /\ i # hand.cur /\ ~hand.drawing
  /\ \E line \in Lines(i) \union {NoLine} :
       line # arm[i] /\ arm' = [arm EXCEPT ![i] = line]
  /\ UNCHANGED <<autoPlay, requested, away, timers>>

-----------------------------------------------------------------------------
(* The specification *)

Empty(g) == [Fresh(g, Zero) EXCEPT !.on = FALSE]

Init ==
  /\ \E g \in DOMAIN Rules : hand = Empty(g)
  /\ autoPlay = {} /\ requested = {} /\ away = {}
  /\ strikes = Zero
  /\ arm = [i \in Seat |-> NoLine]
  /\ clock = None /\ timer = NoTimer
  /\ shown = NothingShown /\ won = Zero
  /\ offered = 0

ClockRings == ClockActs \/ ClockSitsOut
TimerRings == TimerActs \/ TimerLapses \/ LinePlayed \/ LineVoid
BeatEnds   == OpenStreet \/ RunOutStreet \/ ShowHands

Next ==
  \/ Deal
  \/ \E i \in Seat : Act(i)
  \/ ClockRings
  \/ TimerRings
  \/ BeatEnds
  \/ \E i \in Seat : Drop(i) \/ Return(i) \/ SitOut(i) \/ SitIn(i) \/ Arm(i)

Spec == Init /\ [][Next]_vars

\* Some timer that is set goes off.  Nothing is assumed of the people.
FairSpec == Spec /\ WF_vars(ClockRings \/ TimerRings \/ BeatEnds)

-----------------------------------------------------------------------------
(* Properties *)

Line == [kind : {"none", "checkfold", "check", "call", "callany"}, at : Nat, cost : Nat]

\* Every variable keeps its type through every handler: stacks, bets and the
\* pot never go below zero, and turns and timers name seats.
TypeOK ==
  /\ hand \in [game : DOMAIN Rules, on : BOOLEAN, street : 1..Len(Streets),
               beat : {"none", "open", "run", "show"}, drawing : BOOLEAN,
               first : Seat \union {None}, chips : [Seat -> Nat], bet : [Seat -> Nat],
               total : [Seat -> Nat], ante : [Seat -> Nat], folded : SUBSET Seat,
               allIn : SUBSET Seat, acted : SUBSET Seat, cur : Seat, price : Nat,
               minRaise : Nat, raises : Nat, raiser : Seat, pot : Nat, staked : Nat]
  /\ requested \subseteq autoPlay /\ autoPlay \subseteq Seat /\ away \subseteq Seat
  /\ strikes \in [Seat -> 0..2]
  /\ arm \in [Seat -> Line]
  /\ clock \in Seat \union {None}
  /\ timer \in [seat : Seat \union {None}, armed : BOOLEAN]
  /\ shown \in [rank : [Seat -> Nat], low : [Seat -> Nat]] /\ won \in [Seat -> Nat]
  /\ offered \in 0..MaxOffers

\* A folded seat has more in the pot than anybody still in.
Overfolded(h) == \E p \in h.folded : \A i \in Live(h) : h.total[i] < h.total[p]

\* The hand gives out what it took in.  While it runs the pot is what the
\* seats have put in and with what is behind them what the hand began with,
\* through forced bets, the answers and the timers; at its end split pots, odd
\* chips, side pots, dead antes and halves for a low have all been paid, as
\* the field's own check of its chips takes for granted.  Left out is a big
\* blind that folds its free option to all-ins below it: there distributePot
\* takes the chips nobody reached for refunded already, and they are gone.
PotsPaidOut ==
  LET h == hand IN
  /\ h.on => /\ h.pot = Total(h.total, N) + Dead(h)
             /\ Total(h.chips, N) + h.pot = h.staked
  /\ ~h.on /\ ~Overfolded(h) => Total(h.chips, N) = h.staked

Reach(h, i) == Dead(h) + Total([p \in Seat |-> Lesser(h.total[p], h.total[i])], N)

\* Those who put in no more than b, antes included, share no more than the
\* pot counted up to b and the antes.  Field lets an award be anything that
\* keeps this.
FitsField ==
  LET put(i) == hand.total[i] + hand.ante[i] IN
  \A p \in Seat :
    Total([r \in Seat |-> IF put(r) <= put(p) THEN won[r] ELSE 0], N)
      <= Total([r \in Seat |-> Lesser(put(r), put(p))], N) + Dead(hand)

\* A showdown pays by strength: nobody wins more than they could reach.
\* Without a low a hand that is alone the best takes all of it, and whoever
\* does not beat everybody with a smaller stake wins only what those could not
\* reach.
PaidByStrength ==
  shown # NothingShown /\ ~Overfolded(hand) =>
    /\ FitsField
    /\ \A i \in Live(hand) :
         /\ won[i] <= Reach(hand, i)
         /\ (Lows = 0 /\ \A j \in Live(hand) \ {i} : shown.rank[j] < shown.rank[i])
              => won[i] = Reach(hand, i)
         /\ Lows = 0 => \A j \in Live(hand) : shown.rank[i] < shown.rank[j] =>
              won[i] <= Greater(0, Reach(hand, i) - Reach(hand, j))

BettingTurn(h) == h.on /\ h.beat = "none" /\ ~h.drawing

\* The turn is put only to a seat that has something to decide, one that can
\* act and has not acted on this street or owes, though the walk goes by an
\* index over seats that fold under it; and the turn clock runs only for the
\* seat that has the turn and is not played by the server: whoever acts,
\* drops, sits out or resumes, in a hand or in the beat between streets,
\* leaves no clock behind for another.
TurnIsOwed ==
  /\ BettingTurn(hand) => hand.cur \in Owing(hand)
  /\ clock # None => hand.on /\ ClockStands(clock)

\* The comment on the backstop of advanceAction: betting ends when everyone
\* still in the hand has acted on this street and matched the price (a lone
\* seat has nobody to bet against and need only match, and bringing in is the
\* act of whoever brought in). Three seats keep to it. Four do not: the
\* walk stops at a last raiser who is all in while a caller further round
\* still owes the rest of a short all-in (the cfg of four seats).
SquareAtClose ==
  hand.on /\ hand.beat \in {"open", "show"} /\ Streets[hand.street] = "bet" =>
    \A i \in CanAct(hand) :
      /\ hand.bet[i] >= hand.price
      /\ \/ i \in hand.acted
         \/ CanAct(hand) = {i}
         \/ Stud /\ hand.street = 1 /\ i = hand.raiser

\* No timer puts in chips that nobody agreed to: nothing is paid for a seat
\* that sits out, whatever was armed before it dropped and whichever timer
\* fires first, and a call armed against a price is not played at another.
TimersPayWhatWasAsked ==
  [][/\ TimerRings \/ ClockRings =>
          \A i \in autoPlay \ Bots : hand'.chips[i] >= hand.chips[i]
     /\ LinePlayed /\ arm[timer.seat].kind = "call" =>
          arm[timer.seat].cost = ToCall(hand, timer.seat)]_vars

\* A hand that is dealt is played to its end, whoever drops, returns, sits
\* out or lets the clock run: some timer always carries it on.
HandEnds == hand.on ~> ~hand.on

\* The same where nobody sits back in, for one who does on their own turn is
\* left with the turn and no timer.
AbsentHandEnds == hand.on /\ "sitIn" \notin Offers ~> ~hand.on
=============================================================================
