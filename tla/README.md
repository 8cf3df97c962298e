# FinalTable: a verification of its tournaments and its server

FinalTable runs poker tournaments: people register, are drawn over several
tables, play hands, bust, may buy back in, are moved as tables break and
balance, and one is left. Round that stand a server that keeps who is who,
which games are on, what was said and played, what an administrator set, and
what other services are to be told. This directory holds TLA+ modules that
model the parts where that can go wrong, the TLC configurations that check them
on small instances, and theorems about them that TLAPS checks for any number
of people, tables, games and connections.

Source paths are relative to the repository; PROJECT.json maps every definition
to the lines it stands for, and lists the hazards the properties are for.

## 1. The system

One Node process. A socket handler, a timer or a promise runs to completion
before another begins, so nothing is preempted inside a handler; what
interleaves is the order of handlers, timers and answers from the database, the
password hash, SMTP and other services. A handler that waits (`await`) is two
handlers, and anything may happen between them.

| component | state it keeps | operations | what makes it correct |
|---|---|---|---|
| **field director** `director.js` | entrants, tables, break order, queued removals, moves and add-ons, the chips it answers for, how the tournament finished | register, start, late entry, re-entry, add-on, move, remove, hold, tick, the end of a hand, rebalance, snapshot and restore | chips conserved; seats never exceed a table; a running hand keeps its players; places complete; the field always deals on; a stored field is a whole one |
| **clock and ledger** `tournament.js`, `blind-structures.js` | the row of the schedule, pauses; eliminations, field size | level up, step, pause, record a bust-out, renumber, end check | places are 1..n without gap or repeat |
| **table engine** `engine.js` (with `games.js`, `betting-limits.js`, `deck.js`) | seats, stacks, bets, pot, street, cards, whose turn, timers, the offer to show | start a round, post, act, draw, advance a street, pay pots, end a round, show | money out equals money in; a round always ends; nobody is made to pay; the deck suffices |
| **hand evaluation** `hand-eval.js` | none | rank hands, high and low | agrees with the rules of poker |
| **hand history** `hand-history.js`, `server/hand-history-store.js` | records, versions, who has which | record, amend, send, export, store | nobody reads a card its owner kept down; pages are current |
| **registry** `server/tournament-registry.js` | every game with its registrations, sockets, host, door, rail, holds, status, settlement | create, join, ask, admit, bind, unbind, start, transfer, forfeit, remove, sweep, restore | one place per person; who counts as present is; an end is written down once |
| **store** `server/tournament-store.js` | one document a game | debounced flush, load | at most the hand in flight is lost at a crash |
| **identity, accounts** `server/identity.js`, `server/accounts.js` | people, names, tokens, roles, accounts | sign up, sign in, claim the server, promote, suspend, delete | a name and a token lead to one person; rights follow roles |
| **socket handlers** `server/tournament-handlers.js`, `server.js` | what each connection is signed in as | check the caller, call the components | only those entitled may act |
| **administration** `server/settings-store.js`, `mail-settings.js`, `mailer.js`, `gamenight-*.js`, `api-keys.js`, `admin-log.js` | settings in memory and in a table, a mail transport, a verifier, a log | set, test, pair, refresh, revoke, log | what is in force is what a restart brings back; a test leaves nothing behind |
| **webhooks** `server/webhooks.js` | an outbox of rows with attempts | enqueue, sweep, retry, give up, write behind, prune | per game, in order, at least once |
| **chat** `server/chat-rooms.js`, `chat-store.js`, `public/js/chat.js` | rooms by table, numbers, the page's watermarks | say, move, drop, recover, store | drawn once, none swallowed |
| **database layer** `server/db/*` | schema steps done, old files | migrate, import | a file is set aside only when it has been read in |
| **mail bodies, HTTP assets, browser client** | | | output of the rest |

How they interact: a socket handler calls the registry, the registry calls the
director, the director starts rounds at engines and is called back at the end
of each (`onRoundEnd` to `_handleRoundEnd`); an engine asks the director's field
provider who is still in before it declares the tournament over; the registry
ticks every director each 1200 ms, and writes snapshots of them 250 ms after a
change. `bind` and `unbind` in the registry write directly into a seat
(`player.id`), which is shared state between registry, engine and history.
Every store answers from memory and writes behind.

What is hard: hands at several tables end in every order while moves, removals
and add-ons wait for them; places are renumbered by late entries and
re-entries; the balancer must come to rest and the hold on dealing must not
become a deadlock; keys change under a running hand at a reconnect; timers race
the people they stand in for; tabs close, move and come back between two
handlers that rely on them; a password is hashed while the person it is for is
suspended, renamed or deleted; a write lands late, is refused, or is overtaken;
and the process dies anywhere.

## 2. Modules

| module | what it models |
|---|---|
| `Chips` | the sum over numbered holders that both conservation checks rest on |
| `Standings` | the abstract promise about places: people come in, go out in lines, come back, the last is crowned, and everyone out holds the place implied by who is in and who went after them |
| `Field` | `director.js`, with the ledger of `tournament.js` and the money of a hand of `engine.js`; `KeepsStandings` states that it implements `Standings` |
| `Restart` | extends `Field` with its snapshot, the debounced write, a crash at any moment between handlers, the restore and its counted attempts |
| `Hand` | `engine.js` from `startRound` to `endRound`, `betting-limits.js`, the betting of `games.js`, and the handlers that write into a seat while a hand runs |
| `HandEval`, `Games`, `Deal` | `hand-eval.js`; the table of `games.js`; the cards of a hand, street by street |
| `Replay` | extends `Deal`: the recorder, the window to show cards, the pages that are sent hands |
| `Lobby` | the registry's games with their players, doors, rails, tabs and hosts, and the sweep |
| `People` | identities, accounts, tokens and the handlers that sign people in and manage them |
| `AdminLog`, `Admin` | the log with its table; on top of it everything an administrator sets |
| `Chat`, `Server` | rooms, watermarks, and the two stores written behind; on top of it the boot: schema steps, the import of old files, the stores |
| `Webhooks` | the outbox |
| `MC*` | instances for TLC |
| `ChipsProofs`, `FieldProofs`, `HandProofs`, `LobbyProofs`, `PeopleProofs`, `AdminProofs`, `ServerProofs`, `WebhooksProofs` | theorems, section 6 |

Each proof module extends the module it is about, `FieldProofs` both `Field` and
`Restart`; `ChipsProofs` is the lemmas about sums that `FieldProofs`, `HandProofs` and
`WebhooksProofs` share. Operators marked *Slip* are plausible mistakes that PROJECT.json swaps
in to show that each property notices something; no specification uses them.

### Field

| state | code |
|---|---|
| `status`, `winner` | `isRunning`, `finished`, `finished.winnerUid` |
| `entrants`, `barred`, `extra` | `entrants`, the registry's `forfeitedUids` and `removedUids`, `extraEntries` |
| `at`, `stack`, `bet`, `dealtIn` | `tables[].players`, `chips`, `totalBet`, who holds cards |
| `opened`, `broken`, `breakOrder` | `tables.length`, `_broken`, `breakOrder` |
| `dealing`, `resting` | `table.isRunning`; the beat between hands or the hold for a shown hand |
| `outs`, `fieldSize` | `tournament.eliminations`, `tournament.startingPlayers` |
| `expected` | `_expectedChips` |
| `removals`, `moves`, `wantAddOn` | `_pendingRemovals`, `_pendingMoves`, `_pendingAddOns` |
| `row`, `stopped` | `tournament.currentLevel`; a host's pause or the absence hold |
| `doing`, `onTable`, `todo`, `over`, `ticking` | the handler in progress: the program counter and the locals of its loops |

A handler that loops over the field is a chain of steps. The end of a hand is
`EndHand`, then `ApplyRemoval` and `ApplyAddOn` for what waited, `QueuedDone`,
then `Finish` or `PlayOn`, `ApplyMove`s, `BeginBreak` with its `CarryOff`s,
`Balance`s, `Collapse`s and `Sweep`. The tick runs the moves, the same chain
when nobody is dealing and the field needs it, and then `Deal`s table by table.
While `doing` is not `"idle"` no other handler begins, so the chain is exactly
one run to completion, and its invariants are checked between any two
iterations, which is stronger than between handlers.

What is abstracted, and why it is sound for the properties here:

* **A hand is its money.** Forced bets at the deal, chips going in one by one
  (`Wager`), and an award (`Payouts`) that gives out all of the pot and never
  more to those who put in at most *b* than the pot counted up to *b* and the
  dead antes: side pots and refunds, for any ranking of the hands. Turns,
  streets and folds are `Hand`'s; a folded player is one who wins nothing. What
  `Field` takes for granted here is checked of `Hand`: `PotsPaidOut`,
  `PaidByStrength` (its first conjunct, `FitsField`, is `Field`'s condition) and
  `AbsentHandEnds`. In the corners where the engine does not keep them (section
  5, and `Overfolded`) `Field`'s results do not apply.
* **The order of seats round a table**, the button and the dead button are left
  out. `_balanceTables` chooses whom to move by seat; here it is any player of
  the table with chips.
* **Two caps of the code** (50 passes of the balancer, as many breaks as there
  are tables) are left out: they are there in case a loop does not end.
* **The pause of the host and the hold for an empty room** are one flag. Both
  stop dealing and the clock the same way.
* **Time**: a level ends whenever it may.
* **The winner's own line** in `eliminations` has no uid in the code; the model
  writes the uid it stands for.
* **After the finish** nothing moves: the registry takes the game down and hands
  still running at other tables end without consequence to the field.

### Restart

Every action of `Field` is an action here, with what it leaves to be written:
`Written` are the ones the registry persists after, `Unwritten` the others,
`Settled` the sweep at the end of a handler, which records every idle table
(`Capture`). `kept` is `_tableSnapshots`, `due` the 250 ms debounce, `file` the
row of the store, `tries` `restoreCount`, `held` a field kept for its host.
`Reboot` may come between any two handlers; a handler writes nothing, so dying
inside one is dying before it. What the code keeps only in memory (queued
removals and forfeits, bets, the count of attempts until the next write) goes
with it. The first write of a game is taken to precede its first tick (`Begun`:
250 ms against 1200).

### Hand

One hand after another at one table; the field that moves people and the button
between hands is the choice of stacks and of the game at the next `Deal`.

| state | code |
|---|---|
| `hand.on`, `hand.street` | `isRunning`, `streetIndex` (from 1) |
| `hand.beat` | `_streetTimer` and what it was set to do: `_openStreet`, `dealRemainingCards`, `showdown` |
| `hand.chips`, `bet`, `total`, `ante` | `chips`, `bet`, `totalBet`, `ante` of the players |
| `hand.folded`, `allIn`, `acted` | `folded`, `allIn`, `actedThisStreet` |
| `hand.cur`, `price`, `minRaise`, `raises`, `raiser`, `pot` | `currentPlayerIndex`, `currentBet`, `minRaise`, `raiseCount`, `lastRaiserIndex`, `pot` |
| `hand.drawing`, `hand.first` | `drawing`, `drawing.first` |
| `autoPlay`, `requested`, `away`, `strikes`, `arm` | `autoPlay`, `sitOutReason = 'requested'`, `!isConnected`, `timeoutStrikes`, `preAction` |
| `clock` | `actionTimeout`, and the seat it was armed for |
| `timer` | `_autoTurnTimer`, the seat, and whether it is that of `_firePreAction` |
| `shown`, `won`, `hand.staked`, `offered` | what the last showdown compared and paid, what the hand began with, and a bound: no state of the code |

A handler is one action. What it does to the hand is a function from record to
record named for the method: `Act` is `routeAction`; it calls `HandleAction`,
which takes the answer, marks the seat, moves the turn (`Advance`) and opens it
(`TurnOpens`), as `handleAction`, `advanceAction` and `beginCurrentTurn` do in
one stack. `Advance` keeps the order of the code's tests: one player left, the
option taken, the walk (`WalkStop`, `WalkCloses`), one player who can act,
nobody owing. The clock, the automated turn and the armed line re-check the turn
when they fire, as the code does, and a firing that finds nothing to do is an
action too.

Abstracted: cards are who brings in, who opens a stud street and what each hand
is worth, chosen freely; discards at a draw change nothing else. The street
pause is never 0 (production sets it). `Act` assumes that the page offers no
answer between hands. A raise ranges over what the bounds allow; anything else
is clamped to them by the code, and the clamp is in `RaisedTo`. Left out: the
time bank, the sit-out queued for the next deal, pause and resume of a table.

### Deal and Replay

`felt` is the engine's cards: `deck`, `board`, `muck`, each seat's `hole`, who is
still in and who can still bet; a step of the engine is an operator from a felt
to a felt. `HandEval` scores as `evaluate5Cards` does, by groups of values; the
reference it is compared with (`Beats`, `BeatsLow`, `Unbeaten`) is poker's own
definition, written in sets without a score. `Replay` adds the record
(`current`, `hands`), the window (`offers`), `version` and `_historySentTo`
(`sent`), and what each page holds. A seat's id is its person's connection, so
coming back is a new id (`socket`).

Abstracted: betting is who folds and who shoves on a street; a donkey draw
(`autoDraw`) is a call; a shuffle is one of a few scripted decks; pages are
pushed at once and in order; an offer may always lapse; history kept 20 and sent
10 are one bound, `Recent`; everybody begins with chips.

### Lobby

`game[g]` is the registry's entry: status (`gone` is deleted, `lost` is kept in
the store with nobody registered, which `restore` skips), host, `reg`, `pend`
and `watch` (registrations, requests, rail, each with the socket it is bound to,
and for a registration whether it dropped or left), `out` (removed), `ffs`
(forfeits), who has chips, the absence hold, and `books`, what was written down
of its end. `data` is `socket.data`, `online` who is connected. Actions are the
handlers (`Create`, `Join`, `Ask`, `Watch`, `Admit`, `Decline`, `Unregister`,
`Leave`, `RemovePlayer`, `Reenter`, `TakeAddOn`, ...), `Disconnect` and connect,
`Bust`, the director's end, `Sweep` and `Restart`.

Abstracted: a name is its person's; the grace of the host, of an empty room and
of a finished game are none, minutes or hours (`Waits`) that pass in any order;
the heir is any heir; guests come by the open door; games without a host (from
the API) are not in it.

### People

`ids` is the identity store (`rec`, `byName`, `tokens`, `bornEmpty`), `account`
and `pending` the account store by name, `sock` each `socket.data`, `job` the
password each connection waits for, `claiming` the claim in progress. Sign-up,
sign-in and claim are two actions each, with anything between. `Put` and
`Revoke`-like operators work on the store as a record, so that a handler that
does several of them is their composition.

Abstracted: a password is right or wrong, a mail is a link somebody may open;
the suffix GameNight's names get is any free name; rate limits are left out.
Bounds: one connection down at a time and not an anonymous one; a sign-in is
asked for only where the page offers it (`MayAsk`).

### Admin and AdminLog

`settings` is the memory of `settings-store.js`, `table` the database,
`writes[k]` the statements about a key under way, which may land in either
order (a pool of connections). `mail`, `mailer`, `pairing`, `seen`, `knobs`,
`info` are what the mailer, the verifier, the games and the pages were told. The
mail test is the handler's three parts: apply, await, put back. `doubt` and
`astray` record that two statements about a key overlapped or one was refused
(until the next about that key made by itself lands), and that a test met a save or
another test: nothing in the code has them, and they say exactly where the
properties stop. `AdminLog` is the ring, its timer,
the write under way and the table.

### Chat, Server, Webhooks

`Chat` follows a message from `rooms` over the `wire` to the page's watermark
(`seen`) and how often it drew what (let through the watermark: that of the copies of
one announcement in several rooms a page shows one is left out), and into `store`, one instance of the write-behind
machine for chat and one for hand history (`dirty`, `gone`, `batch`). `Server`
puts the boot before it; `OldDocs` is what can be read of the old files, whose unreadable
documents are skipped and set aside with the rest, and a directory in which nothing
can be read is left where it is and counts as none. `Webhooks` has the outbox in memory (`rows`), its
ordered dirty list, the write under way (`batch`, `putting`), the requests
(`flight`), the claimed id block with the statements about its ceiling (several may be
under way and land in either order), the table, and the receiver, of which only what
`docs/API.md` asks of it is modelled: it drops a `delivery_id` it has seen.
Whether a backoff has passed is the sweep's choice; whether a request that
failed had arrived is decided when its attempt ends, or at the crash. Pruning
happens with nothing left to write; the cap on rows is left out.

## 3. The runs

Deadlock is not checked where the system may stop: a finished tournament, a
bounded server that has used up what it may do. It is in `hand`, `people` and
`replay`. The last run TLC must find violated: it states what a comment of the
code says and the code does not do (section 5).

| run | instance | checks |
|---|---|---|
| `one_table` | 4 people, 1 table of 4, a level and a break, late entry, 1 re-entry or add-on, a rest between hands | `TypeOK`, `ChipConservation`, `KeepsStandings` |
| `tables` | 5 people, 3 tables of 2, late entry, a rest between hands, 1 host's move; with no more than four in, 2 of re-entry, removal or forfeit, host's move, reconnect | `LedgerInOrder`, `SeatedOrPlaced`, `HandIsWhole`, `SeatsHold`, `SeatsStandWhileDealing` |
| `fair` | 4 people, 2 tables of 3, late entry, 1 removal or host's move, two paid places, pauses, fair timers | `SettledEven`, `BreaksInTheEnd`, `NeverStalls` |
| `restart` | 4 people, 2 tables of 3, late entry shut, 1 restore attempt, 3 crashes | `FileIsWhole`, `CostsAHand`, `HeldFieldKept` |
| `hand` | 3 seats: no-limit pineapple a street shorter (bet, bet, discard, bet) with an ante; fixed-limit stud of three streets with a low and a bot; 1 thing out of turn | `PotsPaidOut`, `PaidByStrength`, `TurnIsOwed`, `SquareAtClose`, `TimersPayWhatWasAsked`, `AbsentHandEnds` |
| `replay` | hold'em of 3, stud high-low of 2, pineapple of 2, draw of 3, with people; full tables of bots at every game and every level of HORSE | `RankedByTheRules`, `DealtInFull`, `NobodyReadsAFold`, `PageIsCurrent` |
| `lobby` | 2 games, one open and played, one by invitation; 2 people with 3 tabs, or those and a third who plays to the end | `OnePlace`, `BoundBack`, `OneEnding` |
| `people` | a local and a GameNight person, 2 names, 2 connections, 2 devices, 2 hashes; a fresh server and an old one | `NamesLeadHome`, `RightsAreHeld`, `AdminsByRule` |
| `admin` | 2 administrators, 3 mail forms, 1 GameNight, 1 token; three of presses, faults and crashes in an hour, two in two | `RestartBringsBack`, `TestsComeBack`, `ToldAsSet`, `LogIsKept` |
| `server` | 2 games, 2 tables, 1 reader, 2 messages, 3 events; 2 schema steps, old files of one game under way and one that ended | `DrawnAsSaid`, `KeptInStep`, `FileOutlivesImport` |
| `webhooks` | 2 games sharing 1 request slot, 2 events and 1 heartbeat, 1 retry, 1 fault, 1 crash, ids claimed 1 at a time | `HeardInOrder`, `WriteIsOwed`, `EveryEventCloses` |
| `four_handed` | 4 seats, 2 streets of no-limit, one strength | `SquareAtClose`, violated after 6 states |

**Bounds of the field.** Every starting stack is one chip: forced bets may take
it, so that all-in at the deal is common, or leave it, and stacks grow as others
bust, up to the whole field. Four people at a table make multi-way pots, double
busts, and a re-entry or a late entry that renumbers places already given out
(with three there is never one to renumber); four over two tables of three make
a break, a balance and a bubble over two tables; five over three tables of two
make a table that has room only after another has broken, and a collapse. Tables
of two have no double bust and are level as long as none is empty, so those are
left to the tables of three and four.
`MaxExtra`, `MaxRemovals`, `MaxMoves` and `MaxRekeys` bound how often people ask
for something; one or two in all already meet every step of a handler. No proof
assumes anything of their size. `EnteredInTurn` (`tables`) takes entries
and draws up to a renaming of people, whom nothing in `Field` tells apart.
`AskedOnce` (`fair`) allows one thing to be asked in all, `AskedTwice` (`tables`)
two, of which only the move when everybody is in; what they hold back is never a
step that `Fairness` is about.

**Of the restart.** Three crashes are one more than the attempts that hold a
field, so that a held field is itself restarted. Late entry is shut because with
it open a torn field is reachable (section 5).

**Of the hand.** Three seats are the least with a button, two blinds and
somebody who owes both; stacks of 4, 2 and 6, of 4, 1 and 2 and of 3 each put
the small blind, the big blind (whose ante comes first) and neither all in from
the deal, leave raises below and above the least, and make side pots of two
levels. A draw street makes all-in seats act. Stud stacks reach a bring-in, a
completion and a raise, and a seat short of the bet. Two strengths make every
split, one low makes every halved slice. Three seats are too few for a call left
owing at the close of a street and too many for a hand that ends with nobody to
act; the code has both (section 5). The first has a run of its own, `four_handed`;
`hand` shows `SquareAtClose` and `AbsentHandEnds` of three seats and no more.

**Of the rest.** In `lobby` two tabs of one person are what moving on,
letting in from another tab and replacing a tab need; the third person is there
so that a game goes on after a bust (`CyPlaysOn` keeps it from multiplying the
rest). In `people`, `FewAtOnce` allows two devices or two hashes but not both;
two hashes at once are the two claims and the sign-up that meets a deletion. In
`admin`, `ThreeInAll` allows any three of presses, refused statements and
crashes within an hour and any two over two hours: two administrators' tests, a test and a
save, a save refused before a restart, a visit that the age bound cuts. In `webhooks` one slot shared by two games is what makes one wait for the
other. The full tables in `replay` have one deck each: what they ask, whether
the cards suffice, does not depend on the order.

**Fairness.** In `Field`, a hand is always played out, because the turn clock
acts for whoever does not (`SF` on `EndHand`; `AbsentHandEnds` checks it of the
engine); the registry's interval ticks (`SF` on `Tick`); the beat between hands
is a timer (`SF` on `Rested`); a handler that has begun runs on (`WF` on
`Follow`). Strong fairness stands for timers that do not lapse while a handler
runs: handlers are many steps here, and while one runs the others are disabled.
Nothing is assumed of players, of the host or of the clock. In `Hand`, a timer
that is set goes off, and nobody has to act. In `Webhooks`, the sweep is an
interval and a backoff passes, a request is answered or times out, a statement
is answered. No other run needs fairness, and none states it.

`PayTwo` in `fair` stands for the director's `payoutPct` option: the ladder of the code
for so small a field pays the winner only, and the bubble is to come while it is
still over two tables. `BreaksInTheEnd` is checked on two tables: with three, those between which no
break is due may deal in turns such that the one waiting never finds room at
rest. `AbsentHandEnds` is stated for hands in which nobody sits back in.

## 4. Properties and what they guard against

* `ChipConservation`: late entry, re-entry, add-on, removal and awards each touch
  two numbers, stacks and what the field answers for, in different handlers.
* `HandIsWhole`, `SeatsStandWhileDealing`: seats change by six routes (host's
  move, break, balance, collapse, removal, bust), and a hand runs at some of the
  tables; none takes anyone from under a running hand or adds anyone to it.
* `SeatsHold`: no table over its size, nobody at a broken table, though moves
  granted earlier are carried out against a field that has changed.
* `SettledEven`: when a handler has settled a field at rest, tables are level
  and no break is left due.
* `LedgerInOrder`, `SeatedOrPlaced`, `KeepsStandings`: the ledger has no gap and
  no repeat, is disjoint from the seats and covers the field with them; and, on
  one table, the two implement `Standings`.
* `BreaksInTheEnd`, `NeverStalls`: a due break happens, and tables that wait for
  each other on the bubble do not stop the field.
* `FileIsWhole`, `CostsAHand`, `HeldFieldKept`: entries of different ages, written
  late, describe one field; a crash costs a hand; a held field is kept.
* `PotsPaidOut`, `PaidByStrength`: pot, bets and stacks are three books kept by
  different branches; the award gives out what came in, to those who could reach
  it, in the order of the hands, dead antes and odd chips included.
* `TurnIsOwed`, `SquareAtClose`: the walk and its four exits against the rule
  the code's own backstop states, and the clock always on the turn. With four seats
  the code breaks the second.
* `TimersPayWhatWasAsked`: one timer serves two purposes, and seats change
  between person and server while it is pending.
* `AbsentHandEnds`: whatever turns to whom, something drives it.
* `RankedByTheRules`, `DealtInFull`: scores against poker's definition; a full
  table never runs a street out of cards.
* `NobodyReadsAFold`, `PageIsCurrent`: ids change between the deal, the showdown
  and the window after it; records are amended after they were sent.
* `OnePlace`, `BoundBack`, `OneEnding`: every order of joining, asking,
  watching, moving on, being admitted from another tab, being removed, dropping,
  being swept and restarting.
* `NamesLeadHome`, `RightsAreHeld`, `AdminsByRule`: what was checked before a
  hash, against what is true after it; what a recovered connection comes back with.
* `RestartBringsBack`: memory is ahead of the table, and what is in force before a
  restart is to be in force after it; it stops at overlapped or refused statements
  (`doubt`), at one under way, and at a setting taken away that the environment names.
* `TestsComeBack`, `ToldAsSet`, `LogIsKept`: tests that borrow what is live, pages
  told after the fact, a ring that sheds rows while it is written.
* `DrawnAsSaid`, `KeptInStep`, `FileOutlivesImport`: watermarks against moves and
  replays; changes made during a write or after a refused one; a boot cut short.
* `HeardInOrder`, `WriteIsOwed`, `EveryEventCloses`: retries of what may have
  arrived, rows that change under their own write, a dead delivery. The first stops where rows
  were dropped whose ids no stored ceiling was above (`uncovered`).

## 5. Where code and words differ

Met while modelling; the model follows the code, and the properties of the passing runs are stated
so that they hold of it, except for these corners, which they leave out by name or by their
bounds. `four_handed` is the run that TLC is expected to refute, and PROJECT.json has it
as a finding.

* **A tournament may end over a hand in progress.** `director.js:165` and
  `tournament.js:298` count stacks, not pots: with a second table all in, a bust
  at the first ends the tournament, where `docs/MANUAL.md:850` says the last stack
  standing wins. `KeepsStandings` is checked on one table for that reason, and
  the ledger properties speak of a field that plays on.
* **Place 0.** A removal asked for by the winner of the last hand is applied
  after the engine's end check (`director.js:1004`).
* **A reconnect costs a place.** Starting stacks are kept under `player.id`
  (`engine.js:2110`), which a reconnect changes: of two who bust together the
  bigger may be placed lower.
* **Heads-up, the small blind all in from the deal** is put on turn with nothing
  to drive it (`engine.js:879`): the hand never ends, where
  `docs/MANUAL.md:824` lists what a table waits for and this is not among it.
  `AbsentHandEnds` and `TurnIsOwed` are checked with three seats, where it cannot happen.
* **A street that closes with a call owing** (`engine.js:1393`): with four seats the walk may
  arrive at an all-in raiser while a caller owes a chip, against the comment at
  `engine.js:1434` (run `four_handed`). With three (`hand`) `SquareAtClose` holds.
* **A big blind that folds its free option** to all-ins below it loses the
  chips nobody reached (`Overfolded`); the page does not offer that fold.
* **Sitting back in on one's own turn** leaves the turn without a clock
  (`tournament-handlers.js:1055`).
* **A torn field.** With late entry open a late entrant at a dealing table is
  stored with no seat and no place, and so is one who sat down since the table was last
  recorded, against the comment at `director.js:1580`. Queued removals and `left` do not survive a restart, and a
  finish is not persisted at once, so a finished game may be dealt again.
* **A restored host is never replaced** (`tournament-registry.js:2636`: `null ||
  now()`), and a game nobody is registered in is skipped at a restore and never
  settled. Following an old link to a finished game unbinds the live one
  (`BoundBack` is stated for `~OldLinks`).
* **Names and accounts.** Two sign-ups and an identity may meet on one name
  (`accounts.js:156`, `identity.js:484`); a deletion during a sign-in recreates
  the person; a suspended administrator may be the only one left; `signOut` of
  one tab leaves the others signed in; a recovered connection keeps a suspended
  person's uid until it identifies; `identity.flush` returns early during a
  write.
* **Administration.** An unpairing is undone by a restart where the environment
  names a GameNight (`gamenight-pairing.js:152`), which `docs/DEPLOYMENT.md:230`
  and `settings-store.js:5` rule out (`RestartBringsBack` leaves it out by name, `Reseeded`); a refused statement stands in
  memory only, and a restart brings back what was there before it; overlapping mail tests, or a save during one, leave the
  wrong settings in force; two statements about a key may land in either order;
  games are restored before the knobs are read (`server.js:978`); a refused log
  write drops rows and is a row itself; `flush` during a write returns at once.
* **Chat.** Watchers are not moved to the room of the table they are pointed at
  (`tournament-registry.js:1134`); after a refused batch the rest is not put again;
  after a crash that lost messages numbers come round again.
* **Webhooks.** The statement that raises the ceiling of ids is made once a block and not
  again when it is refused or lost (`webhooks.js:103`): when the rows above the stored
  ceiling are pruned a restart hands their ids out again, against `docs/API.md:336`
  (`HeardInOrder` stops there, `uncovered`).
* **History.** A reconnect in the middle of a hand changes the id it is recorded
  under, so later credit and shown cards are filed under another; one in the window loses the offer.

## 6. Proofs

| theorem | of | states |
|---|---|---|
| `TypeCorrect` | Field | `TypeOK` |
| `HandsAreWhole` | Field | `HandIsWhole` |
| `ChipsAreConserved` | Field | `ChipConservation` |
| `SeatsAlwaysStand` | Field | `SeatsStandWhileDealing` |
| `SeatsAlwaysHold` | Field | `SeatsHold` |
| `LedgerIsInOrder` | Field | `LedgerInOrder` |
| `EverybodySeatedOrPlaced` | Field | `SeatedOrPlaced` |
| `FieldIsLevel` | Field | `SettledEven` |
| `OneTableKeepsStandings` (with `OneTable`) | Field | `KeepsStandings` |
| `HeldFieldIsKept` | Restart | `HeldFieldKept` |
| `StoreIsWhole`, `RestartCostsAHand` | Restart | `FileIsWhole`, `CostsAHand`, under `ShutFromTheStart` |
| `FieldSurvives` | Restart | `HandIsWhole`, `ChipConservation`, `SeatsHold`, `LedgerInOrder`, `SeatedOrPlaced` through any number of restarts, under `ShutFromTheStart` |
| `TypesHold` | Hand | `TypeOK` |
| `ChipsComeBack` | Hand | `PotsPaidOut` |
| `PaysByStrength` | Hand | `PaidByStrength` |
| `TimersPayNothingUnasked` | Hand | `TimersPayWhatWasAsked` |
| `LobbyTypes`, `EndsOnce`, `OnePlaceEach`, `BoundIsBack` | Lobby | `TypeOK`, `OneEnding`, `OnePlace`, `BoundBack` for `~OldLinks` |
| `PeopleTypes`, `NamesAlwaysLead`, `RightsFollow`, `AdminsStay` | People | `TypeOK`, `NamesLeadHome`, `RightsAreHeld`, `AdminsByRule` |
| `SettingsOutlive`, `TestsLeaveNothing`, `EverybodyIsTold` | Admin | `RestartBringsBack`, `TestsComeBack`, `ToldAsSet` |
| `OneLog` | Admin | `LogIsKept` |
| `ServerTypes`, `NothingForgotten`, `FilesOutliveImports`, `DrawnAsWasSaid` | Server | `TypeOK`, `KeptInStep`, `FileOutlivesImport`, `DrawnAsSaid` |
| `OutboxKeepsItsType`, `NothingIsForgotten`, `ReceiverHearsInOrder` | Webhooks | `TypeOK`, `WriteIsOwed`, `HeardInOrder` |

They hold for all values of the constants that the assumptions named in each
module allow: `SizesAssumption` and `ScheduleAssumption` (sizes are natural
numbers, a table seats two or more, the schedule is not empty),
`LobbyAssumption` (a tab is somebody's), `PeopleAssumption` (uids given out here
and GameNight's are disjoint: `g_` and `gn_` in `identity.js`), `HandAssumption`
(two seats or more, blinds that are chips, the small not above the big, games that
have a street), `WebhooksAssumption` (finitely many games, room for a request and
for an id), `ChatAssumption` (finitely many games and tables, nowhere is not a
room), `ServerAssumption` (an old file holds documents of its kind, and what was said
before has identities apart from each other and from what will be said),
`AdminLogAssumption` (a row and some age are kept, as `config.js` sees to),
`AdminAssumption` and `RestartAssumption`. `ShutFromTheStart` is
the setting in which nobody comes in once play has begun: no late entry, no re-entry, and a
schedule that begins with a level (before the first level the number of levels
played is 0, which is within any limit). With the doors open the torn field of
section 5 is reachable, so neither `FileIsWhole` nor what `Field` promises holds
of a field that has been restarted: the code needs the hypothesis. `BoundIsBack` has `~OldLinks` as its hypothesis, since
the code does not keep it otherwise (section 5).

**Types** (`FieldProofs`): one lemma per action. That the award is a natural
number and that a step's table is a table are the only parts that need thought.

**Hands** (`FieldProofs`). `HandIsWhole` is not inductive: a break empties a
table that is not dealing, and nothing in it says that the people still to be
carried off sit at that table. `HandInv` adds what every handler relies on: a
person outside the field has no chips and no bet, whoever is seated has entered,
nobody is dealt in before the start, and what the handler in progress is about
to do (`HandlerFree`): the table being emptied is at rest, the people it has
still to carry are its own. The action lemmas fall into groups with a lemma
each: steps that do not touch the hand, that carry somebody between tables at
rest, that take somebody out, that seat somebody new, that add to a stack.

**Chips** (`ChipsProofs`, `FieldProofs`). `Total` is a recursive function;
`TotalUpdate` (changing one holder), `TotalShare` (a function that is zero off a
set) and `TotalBalance` (chips that only change places person by person) are
proved by induction on the number of holders, and each action of `Field` is an
instance of one of them. The award is the step that needs `HandInv`: the pot is
what the people in the hand have bet, and a bet off the hand is nothing.

**Seats, places, levelness** (`FieldProofs`), all on top of `TypeOK /\ HandInv`:

* `SeatsHold` becomes inductive as `SeatInv` with `TablesInTurn` (every table
  that has been made has its turn in `breakOrder`, none is made before the
  start) and `Emptying` (while a table is emptied, the people still to carry are
  exactly those who sit at it, so that it may be marked broken when they are gone).
* The ledger becomes inductive as `LedgerInv`: the two ledger properties while
  the field goes on, and that the end check's verdict (`over`) lasts only until
  the handler acts on it (`OverIsBrief`). What each route does to a sequence of places is a lemma
  of its own: `Renumbered` (a late entry), `StruckOut` (a re-entry), `Added` and
  `AddedGroup` (one or several out in a hand), `Joined`. That the group which goes out in one hand can be
  put in an order at all is `OrderingNamesAll`.
* `SettledEven` is about the end of a chain, so `SettleInv` follows the chain:
  with no hand in progress no break is due from `"balance"` on, and tables are even from
  `"collapse"` on. The counting is what makes it true: `DueCanBreak` (a table
  due to break always finds the seats it needs elsewhere), `BalancedEven` (when
  the balancer stops, no two tables differ by more than one),
  `BalanceKeepsTables` (it never makes a break due again) and
  `NobodyStranded` (no table is left with a lone stack, so a collapse is never
  needed when the field is at rest). They rest on `Crowd` (the seats of the
  tables in play are everybody) and `FewestAndMost`.

**The standings** (`FieldProofs`). `OneTableKeepsStandings` is the refinement: `Init` is
mapped to `Standings`' initial state, and each action to one of its steps or to none.
`OneTable` (the field fits one table, nobody is taken out) is the setting of `one_table`; with more the
code does not keep the promise (section 5). What is shown is read off a line s of those
who are out (`Standing`): the ledger is s, or s with the champion's line under it, and
its places count down from the number of people seated and gone (`StandingReads`).
While the end is not declared `LedgerInv` gives that s (`NowStanding`, which counts
people and lines: `LinesArePeople`). The rest is `OneInv`: the field is settled only with no
hand in progress, two at least are seated until the end is declared, and then one
is, with their line last. It rests on chips: a hand never puts everybody out,
since the field answers for some and `ChipConservation` says where they are (`SomebodyStays`).
So `EndHand` is one `GoOut` of the whole group (`EndHandBusts`, `GroupGone`) or a stutter,
and `Finish` crowns only whom the end check has written down.

**Restart** (`FieldProofs`). `HeldFieldIsKept` needs only that a held field is back at
its registrations and that the store has what is kept of it (`HeldInv`). The
others need to know what is in memory and in the store between two writes. `RInv`
is `Field`'s four invariants and three more:

* `Records`: every table in play has a record, and a table that deals has been
  on record, as it was before its hand, since the hand began. This is what makes a snapshot of a
  table in the middle of a hand (`Capture` skips it) describe the same field as the
  entrants and eliminations stored with it.
* `MovesWait`: a move waits only for a hand, so the moves of the tick carry
  nobody between a record and the deal that follows it.
* `OnFile`: a running field in the store could be on the felt (`TablesFit`: tables
  numbered in turn, none too full; `PeopleFit`: everybody who entered at one of them or in a
  ledger that is in order). A restart starts from there, so without it nothing survives one.

`ComeBack` shows that from such a store `Reboot` reaches a state of `FieldInv`, and
`FieldStep` that every other action is a step of `Field` as far as `Field`'s
invariants go. `FileIsWhole` then follows from `OnFile` (`WholeFile`) and `CostsAHand`
from `Records`.

**The hand** (`HandProofs`). Four results, for any number of seats, any stacks,
blinds and antes, and any games that `Rules` lists. `IInv` is `HandStands`, `PeopleTyped`
and `ClockInHand` (the turn clock runs in a hand only). A hand `Standing`, between two
handlers or inside one, is typed; while it is on, it is `Whole` (the pot is what has
gone in, pot and stacks are what it began with) and `Matched` (no bet above the price:
without it a raise could be answered by taking chips back), and there is another
street where a beat opens one. Every operator of the engine has its lemma: what
`Put`, `Posted`, the answers, the walk of the turn, the end of a street and the deal
leave standing.

* `ChipsComeBack`. The pot is handed out by slices, one for each height at which
  somebody still in has stopped. `SlicesTelescope`: the slices add up to what went in
  up to the highest of them, plus the dead antes; `SlicesAreThePot`: nothing is above the
  highest unless a folded seat put in more than anybody left (`Overfolded`). Of one
  slice, `SharesSum`: quotient and odd chips, given to the first winners by place, add
  up, because winners' places are 0 to n-1 without gap (`PlacesFilled`); a low takes
  its half out of the same slice (`SliceGiven`). `WonIsThePot` exchanges the two sums,
  over slices and over seats (`TotalExchange`).
* `PaysByStrength`. `SliceByStrength` says of one slice that only those in it win, all
  of it goes to a hand alone the best, and none to a beaten hand; `ReachIs` that
  what a seat can reach is the sum of the slices up to it. So the best alone wins
  its reach, and a beaten seat the slices above those of the hand that beats it
  (`WonByStrength`). `AwardFits`: those who put in little are in the low slices only,
  which hold no more than everybody put in as far. This is the condition under which
  `Field` lets an award be anything: what `Field` takes for granted of a showdown is
  proved here, not only checked.
* `TimersPayNothingUnasked` is about steps: what the clock, the automated turn and
  the armed line do to a seat that sits out is a fold, a check or a discard (`Richer`), and
  a call armed at a price is made at that price.

The proof found a guard that was two: cases of `Answers` (and of `Class` in
`Replay`) overlapped, where the code's `if` and `else` do not. They are nested now as
the code nests them.

**Lobby.** `Ind` relates tabs, entries and places: an entry is as it should be
whatever its status (`Ended`, `Unshared`, and that whoever was thrown out has no
place), each tab's data names a game only with a reason, and a binding is to the
person's own tab, which is connected and says the same. Handlers are compositions (leave
everything, then join; unbind the old tab, then bind the new), so the lemmas are
about one entry before and after (`Fair`, `Onward`, `Calm`) and about the tab's data,
and each action puts two or three of them together. `Restart` is the step that
needs `Ended`.

**People.** `Ind` is four conjuncts, `Kept` (the identity store: names lead
home, tokens lead to people who may sign in), `Owned` (accounts are of people given
out), `Tabs` (what each connection may hold) and `Waits` (a claim in progress is
one job). The store's operators have lemmas of their own, `Grown` says that
nobody lost a right, and an action that only grows the store needs only that of
the tabs. The actions that take rights away have to say which tabs they end. `AdminsStay`
follows step by step from `WouldOrphan` and from `Ind` before the step.

**Admin.** `Ind` is six conjuncts: `Shapes`, `Mails` (values have their types),
`Owed` (a key outside `doubt` is in the table or has one statement under way that will
put it there: so a restart, which takes every key from the table, finds there what was in
force, and `SettingsOutlive` is that step), `InForce` (mailer, verifier and games), `Back` (a test that met nothing holds
what to put back) and `Pages`.

`LogIsKept` speaks of the ring; a restart brings the ring back from the table, so
`LogInv` speaks of every row there is, in the ring, waiting, in the write under way
and in the table (`Rows`). An id is one row's and a later id a later hour (`OneStory`);
rows reach the table in their order (`InLine`); the ring is the end of the story, and no
bound that waits cuts anything of it (`RingIs`). Two rows that could be the same visit
can be in the table together, since a sign-in looks at memory only and memory forgets:
then the older is past the age bound, or `Buried`, with as many newer rows in the table as are
kept (`Apart`, `Visited`). What is in the ring or on its way is never buried, and
what is buried stays so until it is gone, also when the pruning is cut short half way
(`TrimmedIs`: of the rows above it the newest are what is left). The counting is one
lemma (`Numbers`): in a finite set in a line, how many come no later numbers it.

**Webhooks.** `Outbox` is `Shapes` (ids below `nextId`, rows and stored rows of one
game and event), `Writes` (dirty and batch name rows on hand; the row being put is the
batch's head), `Owed` (a row is stored as it is, dirty, or in the batch: the invariant behind
`WriteIsOwed`) and `InTurn` (the ids of a game climb with its events, and the request under
way is for the lowest row it owes). `Hearing` adds what the receiver's side needs:
`Known` (an id it has seen is in the table or below every ceiling that is stored there
or may yet be, so a crash gives it out to nothing else), `Missed` (an event is out or has an open row),
`Claims` (a closed row, in memory, in the table or on its way there, is of an event
that is out) and `Gapless`. A restart is why `Known` and `Claims` speak of the table and the
ceiling there and not of memory alone: what comes back is what they had.

**Server** (`ServerProofs`). `IInv` has parts for the stores, the boot and the rooms.

* `StoreInv`, of a store while the server answers: it is `Sound` (what waits has a
  timer or a write to come back from), it `Owes` what its table lacks, and a statement
  under way puts what is wanted unless something newer waits (`Current`). `Current` is what
  `KeptInStep` lacks: when such a statement lands, what it put is what is kept.
* `Imported`: of a file being read in, what is not left to be put is in the table.
  `FileOutlivesImport` follows step by step.
* `Once`: two messages of a room never share an identity under two numbers, in memory,
  in a store, a table, the old file or on the wire (`OneNumber`), and what a page has drawn is not above
  its watermark (`Passed`). So nothing is drawn twice, whatever was lost.
* `Following`, as long as nothing is lost: the watermark is never above a kept
  message the page has not drawn (`UpTo`), what is on the wire comes in the order of the numbers (`InOrder`),
  all that a connected page's room keeps is drawn or on its way (`Comes`), and no
  number, taken or on the wire, is above what is kept (`Reach`). The last is what a
  restart needs, which counts on from the highest number it reads: a number
  given out again below a watermark would be swallowed.
* `Ready`: memory, table and numbers are such that a restart gives back the rooms
  it took, and nobody is left at a room that is closed.

The attempt found that the model was too lax about what a restart loses: it compared only
the last message of each room with the table. A message missing in the middle (refused,
with a later write through) made `DrawnAsSaid` false of it, in a run of 18 steps with
four messages and five events, beyond the bounds of `server`. Now `lost` says
that a chat in memory was not what its table held when the process ended.

**Only model-checked.**

* Liveness, which needs fairness and ENABLED, is out of the prover's reach:
  `BreaksInTheEnd`, `NeverStalls`, `AbsentHandEnds`, `EveryEventCloses`.
* `RankedByTheRules` and `DealtInFull`: recursion over hands and streets, whose value
  for every length needs induction over data.
* `TurnIsOwed` and `SquareAtClose`: neither holds for every table (heads-up, section 5, and
  `four_handed`), so that what could be proved is not the property the run checks.
* `Replay`: no theorem.
* `RTypeOK` is defined beside its module and is not in a run; the types of `Lobby`,
  `People`, `Hand`, `Server` and `Webhooks` are proved instead of run.

## 7. Not modelled

Time within a level (rebasing, pause offsets) and payout amounts; the time bank
and the queued sit-out; the absent leaderboard and other read-only views;
invitations by link with approval off; games made through the API; muting and rate limits; e-mail
changes, password resets and avatars; the cap on webhook rows, a load of them that fails (`webhooks.js:363`: no rows,
ids from 1), signatures and
which addresses may be named; of the old files the settings, identities, accounts and
the log, which are read in as the others are; the ring of 100 messages a room keeps, the
copies of an announcement and the host's page over all rooms; the mail's text; log formatting; the pool and the in-memory twin of the
database; static files; and of the browser client everything but the chat's
watermark and the list of hands. Randomness is choice.

## 8. Plan

1. The refinement of `Standings` for several tables and for removals, against a promise
   that says what happens to a field that ends over a running hand (section 5).
