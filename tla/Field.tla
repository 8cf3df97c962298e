------------------------------- MODULE Field -------------------------------
(***************************************************************************)
(* The field of one tournament: director.js, with the part of engine.js    *)
(* and tournament.js it leans on.  People register, are seated over        *)
(* several tables, play hands, bust, buy back in, are moved, conceded or   *)
(* removed, and one is left.                                               *)
(*                                                                         *)
(* JavaScript runs a handler to completion.  Handlers whose work is a loop *)
(* over the field (the end of a hand, the tick) are modelled as a chain of *)
(* steps driven by "agenda": nothing else moves until the agenda is empty, *)
(* so the chain is one handler, and each of its steps is one iteration.    *)
(*                                                                         *)
(* A hand is abstracted to its money: forced bets at the deal, chips going *)
(* in, and an award that respects the side pots.  Who acts when belongs to *)
(* the engine; the order of the seats round a table, and so which stack    *)
(* the balancer picks, is left open.                                       *)
(*                                                                         *)
(* A definition marked Slip is a plausible mistake in the one below it: no *)
(* specification uses it, and it is there to show which property notices.  *)
(***************************************************************************)
EXTENDS Chips, FiniteSets, Sequences

CONSTANTS
  N,             \* how many people there are
  MaxTables,     \* bound: how many tables the field may ever open
  TableSize,     \* seats at a table
  StartChips,    \* the starting stack
  Forced,        \* the largest forced bet of a deal
  Schedule,      \* the rows of the blind clock, each "play" or "break"
  LateRegLevels, \* late registration is open through this level
  ReentryLevels, \* re-entry is open through this level
  AddOn,         \* whether the add-on is offered
  Paid,          \* places paid, by number of entrants
  HandPause,     \* whether a table rests between hands
  Pauses,        \* bound: whether anybody pauses the field at all
  MaxExtra,      \* bound: re-entries and add-ons
  MaxRemovals,   \* bound: people taken out or conceding
  MaxMoves,      \* bound: moves the host asks for
  MaxRekeys      \* bound: seats re-keyed by a reconnect during a hand

Person == 1..N
Table  == 1..MaxTables
Row    == 1..Len(Schedule)
Nobody == 0
Nowhere == 0

ASSUME SizesAssumption ==
  /\ N \in Nat \ {0} /\ MaxTables \in Nat \ {0} /\ TableSize \in Nat \ {0, 1}
  /\ StartChips \in Nat \ {0} /\ Forced \in Nat \ {0}
  /\ LateRegLevels \in Nat /\ ReentryLevels \in Nat
  /\ AddOn \in BOOLEAN /\ HandPause \in BOOLEAN /\ Pauses \in BOOLEAN
  /\ MaxExtra \in Nat /\ MaxRemovals \in Nat /\ MaxMoves \in Nat /\ MaxRekeys \in Nat

ASSUME ScheduleAssumption ==
  /\ Schedule \in Seq({"play", "break"}) /\ Len(Schedule) > 0
  /\ Paid \in [0..N -> Nat]

VARIABLES
  status,    \* "registering", "running" or "finished": isRunning and finished
  entrants,  \* entrants
  at,        \* the table each person sits at, or Nowhere
  stack,     \* player.chips
  bet,       \* player.totalBet: what they have in the pot of the hand in play
  dealtIn,   \* who was dealt into the hand their table is playing
  rekeyed,   \* who reconnected during the hand, and so changed player.id
  opened,    \* how many tables have been created; they are numbered 1..opened
  broken,    \* tables with _broken set
  dealing,   \* tables with isRunning set
  resting,   \* tables in the beat between hands, or holding for a shown hand
  breakOrder,\* breakOrder
  outs,      \* tournament.eliminations, worst place first
  fieldSize, \* tournament.startingPlayers
  expected,  \* _expectedChips
  barred,    \* forfeitedUids and removedUids of the registry
  removals,  \* _pendingRemovals
  moves,     \* _pendingMoves, Nowhere when none
  wantAddOn, \* _pendingAddOns
  addOns,    \* _addOns
  extra,     \* extraEntries
  row,       \* tournament.currentLevel
  stopped,   \* the host's pause or the hold for an empty room is on
  asked,     \* how many host moves have been asked for (bounded by MaxMoves)
  doing,     \* the step the running handler is at, "idle" when none runs
  onTable,   \* the table that step is about
  todo,      \* the people it has still to deal with
  over,      \* the engine's end check has declared the tournament over
  ticking,   \* the handler is the tick, which deals at the end
  winner     \* finished.winnerUid

people == <<entrants, barred, extra>>
seats  == <<at, opened, broken, breakOrder>>
hand   == <<bet, dealtIn, rekeyed, dealing, resting>>
ledger == <<outs, fieldSize>>
queue  == <<removals, moves, wantAddOn, asked>>
clock  == <<row, stopped>>
agenda == <<doing, onTable, todo, over, ticking>>
vars   == <<status, people, seats, stack, hand, ledger, expected, queue,
            addOns, clock, agenda, winner>>

-----------------------------------------------------------------------------
(* What the handlers ask of the field *)

Made       == 1..opened
Seats(t)   == {p \in Person : at[p] = t}
Count(t)   == Cardinality(Seats(t))
Stacked(t) == {p \in Seats(t) : stack[p] > 0}
InHand(t)  == {p \in dealtIn : at[p] = t}
Active     == {t \in Made : Seats(t) # {}}
InPlay     == Active \ broken
Alive      == {p \in Person : at[p] # Nowhere /\ stack[p] > 0}

\* The first of the tables T by number of seats, or the last: a stable sort.
IsFewest(t, T) ==
  t \in T /\ \A u \in T : Count(t) < Count(u) \/ (Count(t) = Count(u) /\ t <= u)
IsMost(t, T) ==
  t \in T /\ \A u \in T : Count(u) < Count(t) \/ (Count(u) = Count(t) /\ u <= t)

IsFirstToBreak(t) ==
  \E i \in DOMAIN breakOrder :
    /\ breakOrder[i] = t
    /\ Seats(t) # {}
    /\ \A j \in 1..(i - 1) : Seats(breakOrder[j]) = {}

DueToBreak(t) ==
  /\ Cardinality(InPlay) >= 2
  /\ Cardinality(Alive) <= (Cardinality(InPlay) - 1) * TableSize
  /\ IsFirstToBreak(t)

DueToGive(t) ==
  /\ Cardinality(InPlay) >= 2
  /\ IsMost(t, InPlay)
  /\ \E u \in InPlay : Count(t) - Count(u) > 1

RebalanceDue == \E t \in Made : DueToBreak(t) \/ DueToGive(t)

LevelNumber == Cardinality({i \in 1..row : Schedule[i] = "play"})
OnBreak     == Schedule[row] = "break"
LateRegOpen == status = "running" /\ LevelNumber <= LateRegLevels
ReentryOpen == status = "running" /\ LevelNumber <= ReentryLevels
AddOnOpen   ==
  /\ AddOn /\ status = "running" /\ OnBreak
  /\ \A i \in 1..(row - 1) : Schedule[i] # "break"

PaidPlaces  == Paid[Cardinality(entrants)]
OnBubble    == PaidPlaces > 0 /\ Cardinality(Alive) = PaidPlaces + 1
HandForHand == OnBubble /\ Cardinality(Active) > 1

\* Slip: a table the field is waiting for deals on.
CanStartHandUnheld(t) ==
  /\ ~stopped /\ ~OnBreak
  /\ t \notin dealing /\ t \notin resting
  /\ ~(HandForHand /\ dealing # {})
  /\ Cardinality(Stacked(t)) >= 2

CanStartHand(t) ==
  /\ ~stopped /\ ~OnBreak
  /\ t \notin dealing /\ t \notin resting
  /\ ~DueToBreak(t) /\ ~DueToGive(t)
  /\ ~(HandForHand /\ dealing # {})
  /\ Cardinality(Stacked(t)) >= 2

\* The host's move, and the balancer's rule for it.
MoveStands(p, t) ==
  /\ at[p] # Nowhere
  /\ t \in Made \ broken
  /\ Seats(t) # {}
  /\ t # at[p]
  /\ Count(t) < TableSize
  /\ Count(t) < Count(at[p])

Movers == {p \in Person : moves[p] # Nowhere}

-----------------------------------------------------------------------------
(* The agenda of the handler in progress *)

Steps == {"idle", "tickMoves", "queued", "settle", "moves", "break", "emptying",
          "balance", "collapse", "sweep", "deal"}
Idle     == doing = "idle"
Running  == status = "running" /\ Idle
Doing(s) == status = "running" /\ doing = s
Agenda(s, t, T, o, k) ==
  doing' = s /\ onTable' = t /\ todo' = T /\ over' = o /\ ticking' = k
GoTo(s)     == Agenda(s, Nowhere, {}, over, ticking)
WorkOn(t, T) == Agenda(doing, t, T, over, ticking)
SettleField == Agenda("settle", Nowhere, {}, FALSE, FALSE)
EndHandler  == Agenda("idle", Nowhere, {}, FALSE, FALSE)

-----------------------------------------------------------------------------
(* The ledger of places *)

Out(p, place) == [uid |-> p, place |-> place]
NextPlace     == fieldSize - Len(outs)
Record(p)     == outs' = Append(outs, Out(p, NextPlace))
Renumber(s, n) == [i \in 1..Len(s) |-> Out(s[i].uid, n - i + 1)]
\* The ledger without its i-th line.
Struck(s, i)   == [k \in 1..(Len(s) - 1) |-> IF k < i THEN s[k] ELSE s[k + 1]]
InLedger      == {outs[i].uid : i \in DOMAIN outs}

\* Every order in which the group may be written down, the stack each brought
\* to the hand ascending: a reconnect has lost the key that stack is kept by.
Brought(p)   == IF p \in rekeyed THEN 0 ELSE stack[p] + bet[p]
Orderings(S) ==
  {s \in [1..Cardinality(S) -> S] :
     \A i, j \in DOMAIN s : i < j => s[i] # s[j] /\ Brought(s[i]) <= Brought(s[j])}

-----------------------------------------------------------------------------
(* Before the start *)

Init ==
  /\ status = "registering" /\ entrants = {} /\ barred = {} /\ extra = 0
  /\ at = [p \in Person |-> Nowhere] /\ opened = 0 /\ broken = {} /\ breakOrder = <<>>
  /\ stack = [p \in Person |-> 0]
  /\ bet = [p \in Person |-> 0] /\ dealtIn = {} /\ rekeyed = {}
  /\ dealing = {} /\ resting = {}
  /\ outs = <<>> /\ fieldSize = 0 /\ expected = 0
  /\ removals = {} /\ moves = [p \in Person |-> Nowhere] /\ wantAddOn = {} /\ asked = 0
  /\ addOns = {} /\ row = 1 /\ stopped = FALSE
  /\ doing = "idle" /\ onTable = Nowhere /\ todo = {} /\ over = FALSE /\ ticking = FALSE
  /\ winner = Nobody

Register(p) ==
  /\ status = "registering" /\ p \notin entrants
  /\ entrants' = entrants \union {p}
  /\ UNCHANGED <<status, barred, extra, seats, stack, hand, ledger, expected, queue,
                 addOns, clock, agenda, winner>>

Unregister(p) ==
  /\ status = "registering" /\ p \in entrants
  /\ entrants' = entrants \ {p}
  /\ UNCHANGED <<status, barred, extra, seats, stack, hand, ledger, expected, queue,
                 addOns, clock, agenda, winner>>

TablesFor(n) == (n + TableSize - 1) \div TableSize

\* A seat draw dealt round the tables: any one that leaves them as even as
\* the shuffle does.
Draws(n) ==
  {d \in [entrants -> 1..TablesFor(n)] :
     \A t \in 1..TablesFor(n) :
       Cardinality({p \in entrants : d[p] = t}) =
         Cardinality({j \in 0..(n - 1) : j % TablesFor(n) = t - 1})}

Start ==
  LET n == Cardinality(entrants) IN
  /\ status = "registering" /\ n >= 2 /\ TablesFor(n) <= MaxTables
  /\ status' = "running"
  /\ \E d \in Draws(n) :
       at' = [p \in Person |-> IF p \in entrants THEN d[p] ELSE Nowhere]
  /\ stack' = [p \in Person |-> IF p \in entrants THEN StartChips ELSE 0]
  /\ opened' = TablesFor(n)
  /\ breakOrder' = [i \in 1..TablesFor(n) |-> TablesFor(n) - i + 1]
  /\ expected' = StartChips * n
  /\ fieldSize' = n /\ outs' = <<>> /\ row' = 1
  /\ UNCHANGED <<people, broken, hand, queue, addOns, stopped, agenda, winner>>

-----------------------------------------------------------------------------
(* Sitting down after the start *)

\* Slip: a full table has one more seat.
SeatableToTheBrim == {t \in Made \ broken : Seats(t) # {} /\ Count(t) <= TableSize}

Seatable == {t \in Made \ broken : Seats(t) # {} /\ Count(t) < TableSize}

\* The table with the fewest players, or a new one that breaks first; the
\* field answers for the stack before it is on the felt.  On a table that is
\* dealing the newcomer is a folded spectator: not in dealtIn.
TakeSeat(p) ==
  /\ \/ /\ \E t \in Table : IsFewest(t, Seatable) /\ at' = [at EXCEPT ![p] = t]
        /\ UNCHANGED <<opened, breakOrder>>
     \/ /\ Seatable = {} /\ opened < MaxTables
        /\ opened' = opened + 1
        /\ breakOrder' = <<opened + 1>> \o breakOrder
        /\ at' = [at EXCEPT ![p] = opened + 1]
  /\ stack' = [stack EXCEPT ![p] = StartChips]
  /\ expected' = expected + StartChips
  /\ UNCHANGED broken

\* Slip: the field grows and the places already given out stay as they were.
RegisterLateUnrenumbered(p) ==
  /\ Running /\ LateRegOpen /\ p \notin entrants
  /\ TakeSeat(p)
  /\ entrants' = entrants \union {p}
  /\ fieldSize' = Cardinality(entrants')
  /\ UNCHANGED <<status, barred, extra, hand, outs, queue, addOns, clock, agenda, winner>>

RegisterLate(p) ==
  /\ Running /\ LateRegOpen /\ p \notin entrants
  /\ TakeSeat(p)
  /\ entrants' = entrants \union {p}
  /\ fieldSize' = Cardinality(entrants')
  /\ outs' = Renumber(outs, fieldSize')
  /\ UNCHANGED <<status, barred, extra, hand, queue, addOns, clock, agenda, winner>>

\* Slip: the bust-out is struck, and those who went before keep their places.
ReenterUnrenumbered(p) ==
  /\ Running /\ ReentryOpen
  /\ p \in entrants \ barred /\ at[p] = Nowhere
  /\ extra < MaxExtra
  /\ TakeSeat(p)
  /\ \E i \in 1..Len(outs) : outs[i].uid = p /\ outs' = Struck(outs, i)
  /\ extra' = extra + 1
  /\ UNCHANGED <<status, entrants, barred, hand, fieldSize, queue, addOns, clock,
                 agenda, winner>>

\* Slip: the bust-out stays in the ledger of somebody who is seated again.
ReenterUnstruck(p) ==
  /\ Running /\ ReentryOpen
  /\ p \in entrants \ barred /\ at[p] = Nowhere
  /\ extra < MaxExtra /\ p \in InLedger
  /\ TakeSeat(p)
  /\ extra' = extra + 1
  /\ UNCHANGED <<status, entrants, barred, hand, ledger, queue, addOns, clock,
                 agenda, winner>>

\* The bust-out is struck (a person has one: LedgerInOrder) and everyone who
\* went before moves down a place.
Reenter(p) ==
  /\ Running /\ ReentryOpen
  /\ p \in entrants \ barred /\ at[p] = Nowhere
  /\ extra < MaxExtra
  /\ TakeSeat(p)
  /\ \E i \in 1..Len(outs) :
       outs[i].uid = p /\ outs' = Renumber(Struck(outs, i), fieldSize)
  /\ extra' = extra + 1
  /\ UNCHANGED <<status, entrants, barred, hand, fieldSize, queue, addOns, clock,
                 agenda, winner>>

-----------------------------------------------------------------------------
(* The add-on, the host's moves, removals and forfeits *)

TakeAddOn(p) ==
  /\ Running /\ AddOnOpen
  /\ at[p] # Nowhere /\ p \notin addOns \union wantAddOn
  /\ extra + Cardinality(wantAddOn) < MaxExtra
  /\ \/ /\ at[p] \in dealing
        /\ wantAddOn' = wantAddOn \union {p}
        /\ UNCHANGED <<stack, expected, addOns, extra, agenda>>
     \/ /\ at[p] \notin dealing
        /\ stack' = [stack EXCEPT ![p] = @ + StartChips]
        /\ expected' = expected + StartChips
        /\ addOns' = addOns \union {p}
        /\ extra' = extra + 1
        /\ SettleField
        /\ UNCHANGED wantAddOn
  /\ UNCHANGED <<status, entrants, barred, seats, hand, ledger, removals, moves, asked,
                 clock, winner>>

RequestMove(p, t) ==
  /\ Running /\ asked < MaxMoves /\ MoveStands(p, t)
  /\ asked' = asked + 1
  /\ \/ /\ {at[p], t} \intersect dealing # {}
        /\ moves' = [moves EXCEPT ![p] = t]
        /\ UNCHANGED <<at, agenda>>
     \/ /\ {at[p], t} \intersect dealing = {}
        /\ at' = [at EXCEPT ![p] = t]
        /\ SettleField
        /\ UNCHANGED moves
  /\ UNCHANGED <<status, people, opened, broken, breakOrder, stack, hand, ledger, expected,
                 removals, wantAddOn, addOns, clock, winner>>

\* Ledger first, seat second.
TakeOutOfPlay(p) ==
  /\ expected' = expected - stack[p]
  /\ Record(p)
  /\ stack' = [stack EXCEPT ![p] = 0]
  /\ at' = [at EXCEPT ![p] = Nowhere]

\* Slip: the seat goes at once, whatever its table is doing.
RemoveFromPlayAtOnce(p) ==
  /\ Running /\ at[p] # Nowhere /\ p \notin removals
  /\ Cardinality(barred \union {p}) <= MaxRemovals
  /\ barred' = barred \union {p}
  /\ TakeOutOfPlay(p)
  /\ SettleField
  /\ UNCHANGED <<status, entrants, extra, opened, broken, breakOrder, hand, fieldSize,
                 queue, addOns, clock, winner>>

\* A table that is dealing keeps the seat until its hand is over.
RemoveFromPlay(p) ==
  /\ Running /\ at[p] # Nowhere /\ p \notin removals
  /\ Cardinality(barred \union {p}) <= MaxRemovals
  /\ barred' = barred \union {p}
  /\ \/ /\ at[p] \in dealing
        /\ removals' = removals \union {p}
        /\ UNCHANGED <<expected, outs, stack, at, agenda>>
     \/ /\ at[p] \notin dealing
        /\ TakeOutOfPlay(p)
        /\ SettleField
        /\ UNCHANGED removals
  /\ UNCHANGED <<status, entrants, extra, opened, broken, breakOrder, hand, fieldSize,
                 moves, wantAddOn, asked, addOns, clock, winner>>

-----------------------------------------------------------------------------
(* The clock and the holds *)

\* Slip: the clock does not stop at the last row of the schedule.
LevelUpPastTheEnd ==
  /\ Running /\ ~stopped
  /\ row' = row + 1
  /\ UNCHANGED <<status, people, seats, stack, hand, ledger, expected, queue, addOns,
                 stopped, agenda, winner>>

LevelUp ==
  /\ Running /\ ~stopped /\ row < Len(Schedule)
  /\ row' = row + 1
  /\ UNCHANGED <<status, people, seats, stack, hand, ledger, expected, queue, addOns,
                 stopped, agenda, winner>>

StepLevel(i) ==
  /\ Running /\ i \in {row - 1, row + 1} \intersect Row
  /\ row' = i
  /\ UNCHANGED <<status, people, seats, stack, hand, ledger, expected, queue, addOns,
                 stopped, agenda, winner>>

Hold ==
  /\ Running /\ Pauses
  /\ stopped' = ~stopped
  /\ UNCHANGED <<status, people, seats, stack, hand, ledger, expected, queue, addOns,
                 row, agenda, winner>>

Rested(t) ==
  /\ Running /\ t \in resting
  /\ resting' = resting \ {t}
  /\ UNCHANGED <<status, people, seats, stack, bet, dealtIn, rekeyed, dealing, ledger,
                 expected, queue, addOns, clock, agenda, winner>>

-----------------------------------------------------------------------------
(* A hand *)

Wager(p, n) ==
  /\ Running /\ p \in dealtIn /\ n \in 1..stack[p]
  /\ stack' = [stack EXCEPT ![p] = @ - n]
  /\ bet' = [bet EXCEPT ![p] = @ + n]
  /\ UNCHANGED <<status, people, seats, dealtIn, rekeyed, dealing, resting, ledger,
                 expected, queue, addOns, clock, agenda, winner>>

Reconnect(p) ==
  /\ Running /\ p \in dealtIn \ rekeyed /\ Cardinality(rekeyed) < MaxRekeys
  /\ rekeyed' = rekeyed \union {p}
  /\ UNCHANGED <<status, people, seats, stack, bet, dealtIn, dealing, resting, ledger,
                 expected, queue, addOns, clock, agenda, winner>>

Lesser(a, b) == IF a < b THEN a ELSE b

\* What a group put into the pot of the hand at t, nobody counted beyond b.
PotUpTo(t, b) == Total([p \in Person |-> IF p \in InHand(t) THEN Lesser(bet[p], b) ELSE 0], N)
Pot(t)        == Total([p \in Person |-> IF p \in InHand(t) THEN bet[p] ELSE 0], N)

\* How the pot may be shared: all of it, and those who put in no more than b
\* share no more than the pot counted up to b and the big-blind ante, which
\* is dead money.  What is above is a side pot, or a bet nobody called.
Payouts(t) ==
  {win \in [InHand(t) -> 0..Pot(t)] :
     /\ Total([p \in Person |-> IF p \in InHand(t) THEN win[p] ELSE 0], N) = Pot(t)
     /\ \A p, q \in InHand(t) : bet[p] < bet[q] =>
          Total([r \in Person |-> IF r \in InHand(t) /\ bet[r] <= bet[p]
                                  THEN win[r] ELSE 0], N) <= PotUpTo(t, bet[p]) + Forced}

EndHand(t) ==
  /\ Running /\ t \in dealing
  /\ \E win \in Payouts(t) :
     LET after  == [p \in Person |-> IF p \in InHand(t) THEN stack[p] + win[p] ELSE stack[p]]
         bust   == {p \in Seats(t) : after[p] = 0}
         alive  == {p \in Person : at[p] # Nowhere /\ after[p] > 0}
         final  == Cardinality(alive) <= 1
     IN
     /\ \E s \in Orderings(bust), w \in alive \union {Nobody} :
          /\ (w = Nobody) <=> (~final \/ alive = {})
          /\ outs' = outs \o [i \in DOMAIN s |-> Out(s[i], NextPlace - i + 1)]
                          \o (IF w = Nobody THEN <<>> ELSE <<Out(w, 1)>>)
     /\ stack' = after
     /\ at' = [p \in Person |-> IF p \in bust THEN Nowhere ELSE at[p]]
     /\ Agenda("queued", t, {}, final, FALSE)
  /\ bet' = [p \in Person |-> IF p \in InHand(t) THEN 0 ELSE bet[p]]
  /\ dealtIn' = dealtIn \ InHand(t)
  /\ rekeyed' = rekeyed \ InHand(t)
  /\ dealing' = dealing \ {t}
  /\ resting' = IF HandPause THEN resting \union {t} ELSE resting
  /\ UNCHANGED <<status, people, opened, broken, breakOrder, fieldSize, expected, queue,
                 addOns, clock, winner>>

-----------------------------------------------------------------------------
(* The rest of _handleRoundEnd: what was waiting for the hand *)

Queued == Doing("queued")
Leaving(t) == {p \in removals : at[p] = t}
Paying(t)  == {p \in wantAddOn : at[p] = t}

ApplyRemoval(p) ==
  /\ Queued /\ p \in Leaving(onTable)
  /\ TakeOutOfPlay(p)
  /\ removals' = removals \ {p}
  /\ UNCHANGED <<status, people, opened, broken, breakOrder, hand, fieldSize, moves,
                 wantAddOn, asked, addOns, clock, agenda, winner>>

\* Slip: the field does not answer for the chips it hands over.
ApplyAddOnUncounted(p) ==
  /\ Queued /\ Leaving(onTable) = {} /\ p \in Paying(onTable)
  /\ wantAddOn' = wantAddOn \ {p}
  /\ stack' = [stack EXCEPT ![p] = @ + StartChips]
  /\ addOns' = addOns \union {p}
  /\ extra' = extra + 1
  /\ UNCHANGED <<status, entrants, barred, seats, hand, ledger, expected, removals, moves,
                 asked, clock, agenda, winner>>

ApplyAddOn(p) ==
  /\ Queued /\ Leaving(onTable) = {} /\ p \in Paying(onTable)
  /\ wantAddOn' = wantAddOn \ {p}
  /\ stack' = [stack EXCEPT ![p] = @ + StartChips]
  /\ expected' = expected + StartChips
  /\ addOns' = addOns \union {p}
  /\ extra' = extra + 1
  /\ UNCHANGED <<status, entrants, barred, seats, hand, ledger, removals, moves, asked,
                 clock, agenda, winner>>

\* One who busted in the meantime is out already, and is not charged.
QueuedDone ==
  /\ Queued /\ Leaving(onTable) = {} /\ Paying(onTable) = {}
  /\ removals' = {p \in removals : at[p] # Nowhere}
  /\ wantAddOn' = {p \in wantAddOn : at[p] # Nowhere}
  /\ GoTo("settle")
  /\ UNCHANGED <<status, people, seats, stack, hand, ledger, expected, moves, asked,
                 addOns, clock, winner>>

-----------------------------------------------------------------------------
(* _afterFieldChange and rebalanceField *)

Champion(w) == IF Alive = {} THEN w = Nobody ELSE w \in Alive

\* The engine's end check has recorded the winner already when over.
Finish ==
  /\ Doing("settle") /\ (over \/ Cardinality(Alive) <= 1)
  /\ status' = "finished"
  /\ \E w \in Person \union {Nobody} :
       /\ Champion(w)
       /\ winner' = w
       /\ outs' = IF over \/ w = Nobody THEN outs ELSE Append(outs, Out(w, 1))
  /\ EndHandler
  /\ UNCHANGED <<people, seats, stack, hand, fieldSize, expected, queue, addOns, clock>>

PlayOn ==
  /\ Doing("settle") /\ ~over /\ Cardinality(Alive) > 1
  /\ Agenda("moves", Nowhere, Movers, over, ticking)
  /\ UNCHANGED <<status, people, seats, stack, hand, ledger, expected, queue, addOns,
                 clock, winner>>

\* One pass over the moves the host asked for: dropped, made or left waiting.
ApplyMove(p) ==
  /\ Doing("moves") \/ Doing("tickMoves")
  /\ p \in todo
  /\ WorkOn(Nowhere, todo \ {p})
  /\ \/ /\ ~MoveStands(p, moves[p])
        /\ moves' = [moves EXCEPT ![p] = Nowhere]
        /\ UNCHANGED at
     \/ /\ MoveStands(p, moves[p]) /\ {at[p], moves[p]} \intersect dealing # {}
        /\ UNCHANGED <<at, moves>>
     \/ /\ MoveStands(p, moves[p]) /\ {at[p], moves[p]} \intersect dealing = {}
        /\ at' = [at EXCEPT ![p] = moves[p]]
        /\ moves' = [moves EXCEPT ![p] = Nowhere]
  /\ UNCHANGED <<status, people, opened, broken, breakOrder, stack, hand, ledger, expected,
                 removals, wantAddOn, asked, addOns, clock, winner>>

MovesDone ==
  /\ Doing("moves") /\ todo = {}
  /\ GoTo("break")
  /\ UNCHANGED <<status, people, seats, stack, hand, ledger, expected, queue, addOns,
                 clock, winner>>

\* Where a seat carried off t may go: never a broken table, nor one dealing.
Rooms(t)    == {u \in Made \ broken : u # t /\ u \notin dealing /\ Count(u) < TableSize}
RoomFrom(t) == Cardinality(Rooms(t)) * TableSize
                 - Cardinality({p \in Person : at[p] \in Rooms(t)})

\* Slip: the table to break is broken in the middle of its hand.
CanBreakMidHand(t) ==
  /\ Cardinality(Active) > 1
  /\ Cardinality(Alive) <= (Cardinality(Active) - 1) * TableSize
  /\ IsFirstToBreak(t)
  /\ RoomFrom(t) >= Count(t)

CanBreak(t) ==
  /\ Cardinality(Active) > 1
  /\ Cardinality(Alive) <= (Cardinality(Active) - 1) * TableSize
  /\ IsFirstToBreak(t)
  /\ t \notin dealing
  /\ RoomFrom(t) >= Count(t)

BeginBreak(t) ==
  /\ Doing("break") /\ CanBreak(t)
  /\ Agenda("emptying", t, Seats(t), over, ticking)
  /\ UNCHANGED <<status, people, seats, stack, hand, ledger, expected, queue, addOns,
                 clock, winner>>

NoBreak ==
  /\ Doing("break") /\ \A t \in Made : ~CanBreak(t)
  /\ GoTo("balance")
  /\ UNCHANGED <<status, people, seats, stack, hand, ledger, expected, queue, addOns,
                 clock, winner>>

CarryOff(p) ==
  /\ Doing("emptying") /\ p \in todo
  /\ \E u \in Table : IsFewest(u, Rooms(onTable)) /\ at' = [at EXCEPT ![p] = u]
  /\ WorkOn(onTable, todo \ {p})
  /\ UNCHANGED <<status, people, opened, broken, breakOrder, stack, hand, ledger, expected,
                 queue, addOns, clock, winner>>

Emptied ==
  /\ Doing("emptying") /\ todo = {}
  /\ broken' = broken \union {onTable}
  /\ GoTo("break")
  /\ UNCHANGED <<status, people, at, opened, breakOrder, stack, hand, ledger, expected,
                 queue, addOns, clock, winner>>

\* Slip: two players apart is near enough.
CanBalanceLoosely(from, to) ==
  /\ Cardinality(InPlay) >= 2
  /\ IsMost(from, InPlay) /\ IsFewest(to, InPlay)
  /\ Count(from) - Count(to) > 2
  /\ {from, to} \intersect dealing = {}

\* From the biggest table to the smallest, decided over every table in play
\* and done only when both are free.
CanBalance(from, to) ==
  /\ Cardinality(InPlay) >= 2
  /\ IsMost(from, InPlay) /\ IsFewest(to, InPlay)
  /\ Count(from) - Count(to) > 1
  /\ {from, to} \intersect dealing = {}

Balance(p, to) ==
  /\ Doing("balance") /\ at[p] # Nowhere /\ stack[p] > 0
  /\ CanBalance(at[p], to)
  /\ at' = [at EXCEPT ![p] = to]
  /\ UNCHANGED <<status, people, opened, broken, breakOrder, stack, hand, ledger, expected,
                 queue, addOns, clock, agenda, winner>>

Balanced ==
  /\ Doing("balance") /\ \A from, to \in Made : ~CanBalance(from, to)
  /\ GoTo("collapse")
  /\ UNCHANGED <<status, people, seats, stack, hand, ledger, expected, queue, addOns,
                 clock, winner>>

\* The tables in turn: a table that cannot deal gives its last stack away.
Refuge(t) == {u \in Seatable : u # t /\ u \notin dealing}
CanCollapse(t) ==
  /\ t \in Active \ dealing /\ t > onTable
  /\ Cardinality(Stacked(t)) = 1
  /\ Cardinality(Active) > 1
  /\ Refuge(t) # {}

Collapse(t) ==
  /\ Doing("collapse") /\ CanCollapse(t) /\ \A u \in Made : CanCollapse(u) => t <= u
  /\ \E p \in Stacked(t), u \in Table :
       /\ IsFewest(u, Refuge(t))
       /\ at' = [at EXCEPT ![p] = u]
       /\ broken' = IF Seats(t) = {p} THEN broken \union {t} ELSE broken
  /\ WorkOn(t, {})
  /\ UNCHANGED <<status, people, opened, breakOrder, stack, hand, ledger, expected,
                 queue, addOns, clock, winner>>

Collapsed ==
  /\ Doing("collapse") /\ \A t \in Made : ~CanCollapse(t)
  /\ GoTo("sweep")
  /\ UNCHANGED <<status, people, seats, stack, hand, ledger, expected, queue, addOns,
                 clock, winner>>

\* Any empty table is out of play, however it emptied.
Sweep ==
  /\ Doing("sweep")
  /\ broken' = broken \union {t \in Made : Seats(t) = {}}
  /\ IF ticking THEN GoTo("deal") ELSE EndHandler
  /\ UNCHANGED <<status, people, at, opened, breakOrder, stack, hand, ledger, expected,
                 queue, addOns, clock, winner>>

-----------------------------------------------------------------------------
(* The tick *)

\* Slip: a field with nothing dealing waits for a round end to settle it.
ReadyOnTickUnsettled == "deal"

ReadyOnTick == IF RebalanceDue /\ dealing = {} THEN "settle" ELSE "deal"

Tick ==
  /\ Running
  /\ \/ Movers # {} /\ Agenda("tickMoves", Nowhere, Movers, FALSE, TRUE)
     \/ Movers = {} /\ (ReadyOnTick = "deal" => \E t \in Made : CanStartHand(t))
                    /\ Agenda(ReadyOnTick, Nowhere, {}, FALSE, TRUE)
  /\ UNCHANGED <<status, people, seats, stack, hand, ledger, expected, queue, addOns,
                 clock, winner>>

TickMovesDone ==
  /\ Doing("tickMoves") /\ todo = {}
  /\ GoTo(ReadyOnTick)
  /\ UNCHANGED <<status, people, seats, stack, hand, ledger, expected, queue, addOns,
                 clock, winner>>

\* startRound at the next table that may deal: everybody with chips is dealt
\* in and the forced bets of the game go into the pot.
Deal(t) ==
  /\ Doing("deal") /\ t > onTable /\ CanStartHand(t)
  /\ \A u \in Made : u > onTable /\ CanStartHand(u) => t <= u
  /\ \E post \in [Stacked(t) -> 0..Forced] :
       /\ \A p \in Stacked(t) : post[p] <= stack[p]
       /\ \E p \in Stacked(t) : post[p] > 0
       /\ stack' = [p \in Person |-> IF p \in Stacked(t) THEN stack[p] - post[p] ELSE stack[p]]
       /\ bet' = [p \in Person |-> IF p \in Stacked(t) THEN post[p] ELSE bet[p]]
  /\ dealtIn' = dealtIn \union Stacked(t)
  /\ dealing' = dealing \union {t}
  /\ WorkOn(t, {})
  /\ UNCHANGED <<status, people, seats, rekeyed, resting, ledger, expected, queue, addOns,
                 clock, winner>>

DealtAll ==
  /\ Doing("deal") /\ \A t \in Made : t > onTable => ~CanStartHand(t)
  /\ EndHandler
  /\ UNCHANGED <<status, people, seats, stack, hand, ledger, expected, queue, addOns,
                 clock, winner>>

-----------------------------------------------------------------------------
Ask ==
  \/ \E p \in Person :
       \/ Register(p) \/ Unregister(p) \/ RegisterLate(p) \/ Reenter(p)
       \/ TakeAddOn(p) \/ RemoveFromPlay(p) \/ Reconnect(p)
       \/ \E t \in Table : RequestMove(p, t)
       \/ \E n \in 1..stack[p] : Wager(p, n)
  \/ Start \/ LevelUp \/ Hold
  \/ \E i \in Row : StepLevel(i)

Follow ==
  \/ QueuedDone \/ Finish \/ PlayOn \/ MovesDone \/ NoBreak \/ Emptied \/ Balanced
  \/ Collapsed \/ Sweep \/ TickMovesDone \/ DealtAll
  \/ \E p \in Person : \/ ApplyRemoval(p) \/ ApplyAddOn(p) \/ ApplyMove(p) \/ CarryOff(p)
                        \/ \E t \in Table : Balance(p, t)
  \/ \E t \in Table : BeginBreak(t) \/ Collapse(t) \/ Deal(t)

Next == Ask \/ Tick \/ Follow \/ \E t \in Table : EndHand(t) \/ Rested(t)

Spec == Init /\ [][Next]_vars

\* A hand is always played out (the turn clock acts for whoever does not), the
\* beat between hands and the one-second tick are timers, and a handler that
\* has begun runs on.  A handler is many steps here, during which no timer
\* fires: fair to handlers is strongly fair to the steps that begin them.
Fairness ==
  /\ SF_vars(Tick) /\ WF_vars(Follow)
  /\ \A t \in Table : SF_vars(EndHand(t)) /\ SF_vars(Rested(t))

FairSpec == Spec /\ Fairness

-----------------------------------------------------------------------------
(* Types *)

TypeOK ==
  /\ status \in {"registering", "running", "finished"}
  /\ entrants \subseteq Person /\ barred \subseteq Person /\ extra \in Nat
  /\ at \in [Person -> Table \union {Nowhere}]
  /\ opened \in 0..MaxTables /\ broken \subseteq Table /\ breakOrder \in Seq(Table)
  /\ stack \in [Person -> Nat] /\ bet \in [Person -> Nat]
  /\ dealtIn \subseteq Person /\ rekeyed \subseteq Person
  /\ dealing \subseteq Table /\ resting \subseteq Table
  /\ outs \in Seq([uid : Person, place : Int]) /\ fieldSize \in Nat
  /\ expected \in Int
  /\ removals \subseteq Person /\ moves \in [Person -> Table \union {Nowhere}]
  /\ wantAddOn \subseteq Person /\ asked \in Nat
  /\ addOns \subseteq Person /\ row \in Row /\ stopped \in BOOLEAN
  /\ doing \in Steps /\ onTable \in Table \union {Nowhere} /\ todo \subseteq Person
  /\ doing \in {"queued", "emptying"} => onTable \in Table
  /\ over \in BOOLEAN /\ ticking \in BOOLEAN
  /\ winner \in Person \union {Nobody}

-----------------------------------------------------------------------------
(* Safety *)

\* The chips on the felt are the chips the field answers for: what
\* assertChipConservation throws about, at every point of every handler.
ChipConservation == Total(stack, N) + Total(bet, N) = expected

\* The places handed out run down from the size of the field with no gap and
\* no repeat, nobody holds two, whatever late entries, re-entries and
\* removals have renumbered since.
LedgerInOrder ==
  status = "running" /\ ~over =>
    /\ \A i \in DOMAIN outs : outs[i].place = fieldSize - i + 1
    /\ \A i, j \in DOMAIN outs : i # j => outs[i].uid # outs[j].uid

\* Everyone who entered is on the felt or has a finishing place, never both
\* and never neither, so the ledger and the seats together are the field.
SeatedOrPlaced ==
  status = "running" /\ ~over =>
    /\ fieldSize = Cardinality(entrants)
    /\ \A p \in Person :
         /\ p \in entrants <=> at[p] # Nowhere \/ p \in InLedger
         /\ ~(at[p] # Nowhere /\ p \in InLedger)

\* However the seats were filled (the draw, late entry, the host's moves, a
\* break, the balancer, a collapse), no table holds more than it seats, and
\* nobody sits at a table that has been broken or was never made.
SeatsHold ==
  \A t \in Table :
    /\ Count(t) <= TableSize
    /\ t \in broken \/ t \notin Made => Seats(t) = {}

\* Whoever has money in a pot is in a hand that is being played at the table
\* they sit at: nothing takes a player from under a running hand.  A seat with
\* no chips is all in, and a hand has two players at the least.
InHandSeated == \A p \in Person : p \in dealtIn => at[p] \in dealing
MoneyInHand  == \A p \in Person : bet[p] > 0 => p \in dealtIn
BrokeInHand  == \A p \in Person : at[p] # Nowhere /\ stack[p] = 0 => p \in dealtIn
HandsPeopled == \A t \in dealing : Cardinality(InHand(t)) >= 2

HandIsWhole == InHandSeated /\ MoneyInHand /\ BrokeInHand /\ HandsPeopled

\* When a handler has put the field right with no hand in progress, no two
\* tables differ by more than a player and no table is waiting to break.
SettledEven ==
  Doing("sweep") /\ dealing = {} =>
    /\ \A t, u \in InPlay : Count(t) - Count(u) <= 1
    /\ \A t \in Made : ~DueToBreak(t)

-----------------------------------------------------------------------------
(* What a step may never do *)

\* A hand in progress keeps its seats: while a table deals on nobody leaves
\* it, nobody is carried to it, and whoever sits down there from outside the
\* field (a late entry, a re-entry) is not in the hand.
SeatsStand ==
  \A t \in dealing \intersect dealing' :
    /\ Seats(t) \subseteq Seats(t)' /\ InHand(t)' = InHand(t)
    /\ \A p \in Seats(t)' \ Seats(t) : at[p] = Nowhere

\* However the host, the balancer and the removals interleave with the hands,
\* every step leaves the seats of every running hand standing.
SeatsStandWhileDealing == [][SeatsStand]_vars

-----------------------------------------------------------------------------
(* What the field promises about places *)

StillIn == IF status = "registering" THEN entrants ELSE {p \in Person : at[p] # Nowhere}

\* The ledger without the champion's own line, which the engine writes last,
\* with the last bust-outs and while the champion is still on the felt.
ChampionWritten == outs # <<>> /\ at[outs[Len(outs)].uid] # Nowhere
BustOuts ==
  [i \in 1..(IF ChampionWritten THEN Len(outs) - 1 ELSE Len(outs)) |-> outs[i].uid]

PlaceShown(p) ==
  LET held == {i \in DOMAIN outs : outs[i].uid = p}
  IN  IF held = {} \/ (status # "finished" /\ at[p] # Nowhere) THEN 0
      ELSE outs[CHOOSE i \in held : \A j \in held : j <= i].place
PlacesShown == [p \in Person |-> PlaceShown(p)]

Phase == CASE status = "registering" -> "entering" [] status = "running" -> "playing"
           [] OTHER -> "over"

Promise == INSTANCE Standings WITH
  People <- Person, NoOne <- Nobody, phase <- Phase, in <- StillIn, out <- BustOuts,
  place <- PlacesShown, champion <- winner

\* With one table and nobody taken out, the seats and the ledger together are
\* the standings: places stay complete through late entries and re-entries,
\* and only the last player in is crowned.
KeepsStandings == Promise!Spec

-----------------------------------------------------------------------------
(* What must happen in the end *)

\* A table that ought to break is broken in the end, or need not be.
BreaksInTheEnd ==
  \A t \in Table : DueToBreak(t) ~> (~DueToBreak(t) \/ status = "finished")

\* The field never stalls: while it runs, some table is dealt a hand, if
\* nobody is keeping the cards away.
NeverStalls ==
  status = "running" ~> (dealing # {} \/ status = "finished" \/ stopped \/ OnBreak)
=============================================================================
