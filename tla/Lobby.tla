------------------------------- MODULE Lobby -------------------------------
(***************************************************************************)
(* Who is where: the games of server/tournament-registry.js, the people in *)
(* them, at their doors and on their rails, the browser tabs each is bound *)
(* to, and the sweep that looks after what nobody is looking at.  The      *)
(* handlers are those of server/tournament-handlers.js.                    *)
(*                                                                         *)
(* What happens on the felt is Field; here a running game is who still has *)
(* chips in it.  A name is its person's, so no two clash; a game is deleted *)
(* for good, and a tab that still names it names nothing.                  *)
(* A definition marked Slip is a plausible mistake in the one below it.    *)
(***************************************************************************)
EXTENDS Naturals, FiniteSets, Functions

CONSTANTS
  Games,       \* bound: games ever made
  People,
  Tabs,        \* bound: browser tabs, each of one person
  Owner,       \* Owner[s]: whose tab it is
  ByInvite,    \* bound: the games somebody is let into by their host
  Played,      \* bound: the games that get to be played
  OldLinks,    \* bound: whether anybody follows a link to a game that is over
  Maker,       \* bound: Maker[g]: who makes that game
  None

ASSUME LobbyAssumption ==
  /\ Owner \in [Tabs -> People] /\ None \notin Games \cup People \cup Tabs
  /\ ByInvite \cup Played \subseteq Games
  /\ OldLinks \in BOOLEAN /\ Maker \in [Games -> People]

VARIABLES
  game,     \* the entry of each game
  data,     \* socket.data of each tab: the game it is in, the door it waits at
  online    \* the tabs that are connected

vars == <<game, data, online>>

Put(f, k, v) == [x \in DOMAIN f \cup {k} |-> IF x = k THEN v ELSE f[x]]
Without(f, S) == Restrict(f, DOMAIN f \ S)
Empty == [p \in {} |-> None]

NoGame == [st |-> "none", host |-> None, reg |-> Empty, pend |-> Empty,
           watch |-> Empty, out |-> {}, ffs |-> {}, stack |-> {}, leaving |-> {},
           late |-> FALSE, away |-> FALSE, books |-> "open"]
NoData == [game |-> None, door |-> None]

Exists(g) == game[g].st \in {"registering", "running", "finished"}
Live(g)   == game[g].st \in {"registering", "running"}
Open(r)   == r.st = "registering" \/ (r.st = "running" /\ r.late)

\* findByUid with includeLeft, findPendingByUid, findWatcherByUid.
MemberOf(p)  == {g \in Games : Live(g) /\ p \in DOMAIN game[g].reg}
WaitingOn(p) == {g \in Games : Live(g) /\ p \in DOMAIN game[g].pend}
RailOf(p)    == {g \in Games : Live(g) /\ p \in DOMAIN game[g].watch}

-----------------------------------------------------------------------------
(* One game: functions from an entry to the next *)

\* Somebody has chips in the middle, and nobody who has is here.
ShouldHold(r) ==
  /\ r.stack \cap DOMAIN r.reg # {}
  /\ \A p \in r.stack \cap DOMAIN r.reg : r.reg[p].sock = None

Synced(r) == IF r.st = "running" THEN [r EXCEPT !.away = ShouldHold(r)] ELSE r

Fresh == [sock |-> None, gone |-> FALSE, left |-> FALSE]
At(s)  == [sock |-> s, gone |-> FALSE, left |-> FALSE]
Away(row) == [row EXCEPT !.sock = None, !.gone = TRUE]

\* Whoever is back at a seat lifts the hold at once.
Bind(r, p, s) ==
  LET b == [r EXCEPT !.reg = Put(@, p, At(s))]
  IN  IF p \in r.stack THEN Synced(b) ELSE b

\* Slip: while a game is registering nobody is looked after.
SlipUnbind(r, p, s) ==
  IF r.st # "registering" /\ p \in DOMAIN r.reg /\ r.reg[p].sock = s
  THEN Synced([r EXCEPT !.reg[p] = Away(@)]) ELSE r

Unbind(r, p, s) ==
  IF p \in DOMAIN r.reg /\ r.reg[p].sock = s
  THEN Synced([r EXCEPT !.reg[p] = Away(@)]) ELSE r

UnbindWatcher(r, p, s) ==
  IF p \in DOMAIN r.watch /\ r.watch[p] = s THEN [r EXCEPT !.watch[p] = None] ELSE r
UnbindPending(r, p, s) ==
  IF p \in DOMAIN r.pend /\ r.pend[p] = s THEN [r EXCEPT !.pend[p] = None] ELSE r

\* As an entrant and a registration, with a stack when the cards are out.
Enter(r, p, s) ==
  LET e == [r EXCEPT !.reg = Put(@, p, Fresh),
                     !.stack = IF r.st = "running" THEN @ \cup {p} ELSE @]
  IN  IF s = None THEN e ELSE Bind(e, p, s)

Settle(r, ended) == IF r.books = "open" THEN [r EXCEPT !.books = ended] ELSE r

\* The last stack standing ends the game.
Judged(r) ==
  IF r.st = "running" /\ Cardinality(r.stack) <= 1
  THEN Settle([r EXCEPT !.st = "finished", !.leaving = {}, !.late = FALSE, !.away = FALSE], "won")
  ELSE r

Lose(r, p) == Judged([r EXCEPT !.stack = @ \ {p}, !.leaving = @ \ {p}])
Started(r) == [r EXCEPT !.st = "running", !.stack = DOMAIN r.reg, !.late = TRUE]

\* Slip: whatever was written down of it already.
SlipGone(r) == [NoGame EXCEPT !.st = "gone", !.books = "called off"]

\* What is left of a game that has gone.
Gone(r) ==
  [NoGame EXCEPT !.st = "gone",
                 !.books = Settle(r, IF r.st = "finished" THEN "won" ELSE "called off").books]

-----------------------------------------------------------------------------
(* The host *)

Heirs(r) ==
  {p \in DOMAIN r.reg : p # r.host /\ ~r.reg[p].left /\ r.reg[p].sock # None}

\* A host who is here stays, and one who dropped does until the grace is up.
HostStays(r, waited) ==
  /\ r.host \in DOMAIN r.reg
  /\ ~r.reg[r.host].left
  /\ \/ r.reg[r.host].sock # None
     \/ ~(waited /\ r.reg[r.host].gone)

\* The entries the title may leave: it goes to whoever came first of Heirs.
Passed(r) == IF Heirs(r) = {} THEN {r} ELSE {[r EXCEPT !.host = p] : p \in Heirs(r)}
TransferHost(r, waited) == IF HostStays(r, waited) THEN {r} ELSE Passed(r)

-----------------------------------------------------------------------------
(* Every game: what happens to the others when somebody moves on *)

\* Slip: the rail they were on keeps their place.
SlipMovedOn(G, p, g) ==
  [h \in Games |-> [G[h] EXCEPT !.pend = IF h = g THEN @ ELSE Without(@, {p})]]

\* withdrawAll but for g, and unwatchAll.
MovedOn(G, p, g) ==
  [h \in Games |-> [G[h] EXCEPT !.pend = IF h = g THEN @ ELSE Without(@, {p}),
                                !.watch = Without(@, {p})]]

\* The tabs bound to a request of theirs at another door.
DoorTabs(p, g) ==
  {game[h].pend[p] : h \in {h \in Games \ {g} : p \in DOMAIN game[h].pend}}

LeaveDoors(D, S) == [s \in Tabs |-> IF s \in S THEN [D[s] EXCEPT !.door = None] ELSE D[s]]
LeaveGames(D, S) == [s \in Tabs |-> IF s \in S THEN [D[s] EXCEPT !.game = None] ELSE D[s]]

\* A game goes: whoever waits or watches is told, and its name means nothing.
Forgotten(D, g) ==
  [s \in Tabs |-> [game |-> IF D[s].game = g THEN None ELSE D[s].game,
                   door |-> IF D[s].door = g THEN None ELSE D[s].door]]

Set(g, r) == game' = [game EXCEPT ![g] = r]
Remove(g, r) == Set(g, Gone(r)) /\ data' = Forgotten(data, g)

-----------------------------------------------------------------------------
(* Coming and going *)

Here(s) == s \in online

Create(s, g) ==
  LET p == Owner[s] IN
  /\ Here(s) /\ p = Maker[g] /\ game[g].st = "none" /\ MemberOf(p) = {}
  /\ game' = [MovedOn(game, p, g) EXCEPT
                ![g] = [NoGame EXCEPT !.st = "registering", !.host = p,
                                      !.reg = Put(Empty, p, At(s))]]
  /\ data' = [LeaveDoors(data, DoorTabs(p, g)) EXCEPT ![s].game = g]
  /\ UNCHANGED online

\* Their own seat, whatever has become of the game.
Rejoin(s, g) ==
  LET p == Owner[s] IN
  /\ Here(s) /\ Exists(g) /\ p \notin game[g].out /\ p \in DOMAIN game[g].reg
  /\ OldLinks \/ Live(g)
  /\ Set(g, Bind(game[g], p, s))
  /\ data' = [data EXCEPT ![s].game = g]
  /\ UNCHANGED online

\* Somebody with the code, or a game listed for everyone.
MayJoin(p, g) ==
  /\ Exists(g) /\ p \notin game[g].out /\ p \notin DOMAIN game[g].reg
  /\ MemberOf(p) = {} /\ Open(game[g])

Join(s, g) ==
  LET p == Owner[s] IN
  /\ Here(s) /\ MayJoin(p, g) /\ g \notin ByInvite
  /\ game' = [MovedOn(game, p, g) EXCEPT ![g] = Enter(@, p, s)]
  /\ data' = [LeaveDoors(data, DoorTabs(p, g)) EXCEPT ![s].game = g]
  /\ UNCHANGED online

\* At the door of a game by invitation; a second tab takes the request over.
Ask(s, g) ==
  LET p == Owner[s] IN
  /\ Here(s) /\ MayJoin(p, g) /\ g \in ByInvite
  /\ game' = [MovedOn(game, p, g) EXCEPT ![g].pend = Put(@, p, s)]
  /\ data' = [LeaveDoors(data, DoorTabs(p, g)) EXCEPT ![s].door = g]
  /\ UNCHANGED online

Withdraw(s) ==
  LET g == data[s].door IN
  /\ Here(s) /\ g # None /\ Owner[s] \in DOMAIN game[g].pend
  /\ game' = [game EXCEPT ![g].pend = Without(@, {Owner[s]})]
  /\ data' = [data EXCEPT ![s].door = None]
  /\ UNCHANGED online

Watch(s, g) ==
  LET p == Owner[s] IN
  /\ Here(s) /\ Live(g) /\ p \notin game[g].out
  /\ MemberOf(p) = {} /\ WaitingOn(p) = {}
  /\ game' = [h \in Games |->
                IF h = g THEN [game[g] EXCEPT !.watch = Put(@, p, s)]
                ELSE IF p \in DOMAIN game[g].watch THEN game[h]
                ELSE [game[h] EXCEPT !.watch = Without(@, {p})]]
  /\ data' = [data EXCEPT ![s].game = g]
  /\ UNCHANGED online

Unwatch(p, g) ==
  /\ p \in DOMAIN game[g].watch
  /\ game' = [game EXCEPT ![g].watch = Without(@, {p})]
  /\ data' = LeaveGames(data, {game[g].watch[p]})

StopWatching(s) ==
  /\ Here(s) /\ data[s].game # None
  /\ Unwatch(Owner[s], data[s].game)
  /\ UNCHANGED online

\* The host's title goes to somebody who is here, and an empty game goes.
Unregister(s) ==
  LET g == data[s].game
      p == Owner[s]
      r == [game[g] EXCEPT !.reg = Without(@, {p})]
  IN
  /\ Here(s) /\ g # None /\ game[g].st = "registering" /\ p \in DOMAIN game[g].reg
  /\ IF DOMAIN r.reg = {} THEN Remove(g, r)
     ELSE /\ \E q \in (IF p = r.host THEN Passed(r) ELSE {r}) : Set(g, q)
          /\ data' = LeaveGames(data, {s})
  /\ UNCHANGED online

\* The stack stays; only the tab the seat is bound to takes the person along.
Leave(s) ==
  LET g == data[s].game
      p == Owner[s]
  IN
  /\ Here(s) /\ g # None
  /\ \/ /\ p \notin DOMAIN game[g].reg
        /\ Unwatch(p, g)
     \/ /\ game[g].st # "registering" /\ p \in DOMAIN game[g].reg
        /\ Set(g, [Unbind(game[g], p, s) EXCEPT !.reg[p].left = TRUE])
        /\ data' = LeaveGames(data, {s})
  /\ UNCHANGED online

\* identify: the game they are in, or the door they wait at, or their rail.
Connect(s) ==
  LET p == Owner[s]
      in == {g \in MemberOf(p) : ~game[g].reg[p].left}
  IN
  /\ ~Here(s) /\ online' = online \cup {s}
  /\ \/ \E g \in in :
          Set(g, Bind(game[g], p, s)) /\ data' = [data EXCEPT ![s].game = g]
     \/ /\ in = {}
        /\ \E g \in WaitingOn(p) :
             Set(g, [game[g] EXCEPT !.pend[p] = s]) /\ data' = [data EXCEPT ![s].door = g]
     \/ /\ in = {} /\ WaitingOn(p) = {}
        /\ \E g \in RailOf(p) :
             Set(g, [game[g] EXCEPT !.watch[p] = s]) /\ data' = [data EXCEPT ![s].game = g]
     \/ in = {} /\ WaitingOn(p) = {} /\ RailOf(p) = {} /\ UNCHANGED <<game, data>>

Disconnect(s) ==
  LET p == Owner[s]
      Left(g) == LET r == IF g = data[s].door THEN UnbindPending(game[g], p, s) ELSE game[g]
                 IN  IF g = data[s].game THEN UnbindWatcher(Unbind(r, p, s), p, s) ELSE r
  IN
  /\ Here(s) /\ online' = online \ {s}
  /\ game' = [g \in Games |-> Left(g)]
  /\ data' = [data EXCEPT ![s] = NoData]

\* requestState: a phone that wakes up is present again.
Resume(s) ==
  LET g == data[s].game
      p == Owner[s]
  IN
  /\ Here(s) /\ g # None
  /\ \/ p \in DOMAIN game[g].reg /\ Set(g, Bind(game[g], p, s))
     \/ /\ p \notin DOMAIN game[g].reg /\ p \in DOMAIN game[g].watch
        /\ Set(g, [game[g] EXCEPT !.watch[p] = s])
  /\ UNCHANGED <<data, online>>

-----------------------------------------------------------------------------
(* The host *)

Hosts(s, g) == Here(s) /\ g # None /\ data[s].game = g /\ Owner[s] = game[g].host

\* The tab that waited is the one that sits down, if it is still there.
Admit(s, q) ==
  LET g == data[s].game
      row == game[g].pend[q]
      r == [game[g] EXCEPT !.pend = Without(@, {q})]
  IN
  /\ Hosts(s, g) /\ q \in DOMAIN game[g].pend
  /\ IF Open(game[g])
     THEN /\ Set(g, Enter(r, q, row))
          /\ data' = IF row = None THEN data
                     ELSE [data EXCEPT ![row] = [game |-> g, door |-> None]]
     ELSE /\ Set(g, r)
          /\ data' = LeaveDoors(data, {row})
  /\ UNCHANGED online

Decline(s, q) ==
  LET g == data[s].game IN
  /\ Hosts(s, g) /\ q \in DOMAIN game[g].pend
  /\ game' = [game EXCEPT ![g].pend = Without(@, {q})]
  /\ data' = LeaveDoors(data, {game[g].pend[q]})
  /\ UNCHANGED online

StartNow(s) ==
  LET g == data[s].game IN
  /\ Hosts(s, g) /\ game[g].st = "registering" /\ g \in Played
  /\ Cardinality(DOMAIN game[g].reg) >= 2
  /\ Set(g, Started(game[g]))
  /\ UNCHANGED <<data, online>>

\* A seat in a hand goes at its end; any other goes now.
TakenOut(r, p) == {Lose(r, p), [r EXCEPT !.leaving = @ \cup {p}]}

Expelled(r, q) == [r EXCEPT !.out = @ \cup {q}, !.reg = Without(@, {q})]

RemovePlayer(s, q) ==
  LET g == data[s].game IN
  /\ Hosts(s, g) /\ game[g].st = "running" /\ q \in game[g].stack /\ q # Owner[s]
  /\ \E r \in TakenOut(Expelled(game[g], q), q) : Set(g, r)
  /\ data' = IF q \in DOMAIN game[g].reg THEN LeaveGames(data, {game[g].reg[q].sock}) ELSE data
  /\ UNCHANGED online

\* By the host, whoever made it, an administrator, GameNight, or a tick that
\* threw.
Cancel(g) ==
  /\ Live(g) /\ Remove(g, game[g])
  /\ UNCHANGED online

-----------------------------------------------------------------------------
(* The game *)

Bust(g, p) ==
  /\ game[g].st = "running" /\ p \in game[g].stack
  /\ Set(g, Lose(game[g], p))
  /\ UNCHANGED <<data, online>>

\* The hand is over, and whoever was to go after it does.
HandEnds(g) ==
  /\ game[g].st = "running"
  /\ \E p \in game[g].leaving : Set(g, Lose(game[g], p))
  /\ UNCHANGED <<data, online>>

LateRegCloses(g) ==
  /\ game[g].st = "running" /\ game[g].late /\ ~game[g].away
  /\ game' = [game EXCEPT ![g].late = FALSE]
  /\ UNCHANGED <<data, online>>

\* From the lobby or from the table: a tab that is not in the game is bound
\* to it, and any other place of theirs is given up.
Reenter(s, g) ==
  LET p == Owner[s]
      r == [game[g] EXCEPT !.stack = @ \cup {p}]
  IN
  /\ Here(s) /\ game[g].st = "running" /\ game[g].late
  /\ p \in DOMAIN game[g].reg /\ p \notin game[g].stack \cup game[g].out \cup game[g].ffs
  /\ IF data[s].game = g
     THEN Set(g, [r EXCEPT !.reg[p] = At(s)]) /\ UNCHANGED data
     ELSE /\ game' = [MovedOn(game, p, g) EXCEPT ![g] = Bind(r, p, s)]
          /\ data' = [LeaveDoors(data, DoorTabs(p, g)) EXCEPT ![s].game = g]
  /\ UNCHANGED online

\* The add-on taken from the lobby, which is read as coming back.
TakeAddOn(s, g) ==
  LET p == Owner[s] IN
  /\ Here(s) /\ game[g].st = "running" /\ p \in game[g].stack \cap DOMAIN game[g].reg
  /\ data[s].game # g
  /\ game' = [MovedOn(game, p, g) EXCEPT ![g] = Bind(@, p, s)]
  /\ data' = [LeaveDoors(data, DoorTabs(p, g)) EXCEPT ![s].game = g]
  /\ UNCHANGED online

Forfeit(s, g) ==
  LET p == Owner[s] IN
  /\ Here(s) /\ game[g].st = "running" /\ p \in game[g].stack \cap DOMAIN game[g].reg
  /\ \E r \in TakenOut([game[g] EXCEPT !.ffs = @ \cup {p}], p) : Set(g, r)
  /\ UNCHANGED <<data, online>>

-----------------------------------------------------------------------------
(* The sweep, once a second *)

Waits == {"none", "minutes", "hours"}

\* A closed door sends everybody away, an open one whoever is long gone.
Waiting(r, wait) ==
  IF ~Open(r) THEN {}
  ELSE {p \in DOMAIN r.pend : wait = "none" \/ r.pend[p] # None}
Watching(r, wait) == {p \in DOMAIN r.watch : wait = "none" \/ r.watch[p] # None}

Swept(r, wait) ==
  [r EXCEPT !.pend = Restrict(@, Waiting(r, wait)), !.watch = Restrict(@, Watching(r, wait))]

SentAway(r, wait) == {r.pend[p] : p \in DOMAIN r.pend \ Waiting(r, wait)}

\* Held since long enough ago, and still nobody here to play it.
Forsaken(r, wait) == r.away /\ ShouldHold(r) /\ wait = "hours"

Overdue(r, wait, due) == due /\ Cardinality(DOMAIN r.reg) < 2 /\ wait = "hours"

\* wait: what has passed since whatever a row or a game waits for; due: its
\* start time has come.
Sweep(g, wait) ==
  LET r == Swept(game[g], wait)
      Keep(S) == /\ \E q \in S : Set(g, q)
                 /\ data' = LeaveDoors(data, SentAway(game[g], wait))
  IN
  /\ \/ /\ r.st = "registering"
        /\ \E due \in BOOLEAN :
             \/ /\ due /\ g \in Played /\ Cardinality(DOMAIN r.reg) >= 2
                /\ Keep(TransferHost(Started(r), wait # "none"))
             \/ Overdue(r, wait, due) /\ Remove(g, r)
             \/ /\ due => Cardinality(DOMAIN r.reg) < 2
                /\ ~Overdue(r, wait, due)
                /\ Keep(TransferHost(r, wait # "none"))
     \/ /\ r.st = "running" /\ ~Forsaken(r, wait)
        /\ Keep({Synced(q) : q \in TransferHost(r, wait # "none")})
     \/ r.st = "running" /\ Forsaken(r, wait) /\ Remove(g, r)
     \/ r.st = "finished" /\ wait = "hours" /\ Remove(g, r)
     \/ r.st = "finished" /\ wait # "hours" /\ Keep({r})
  /\ UNCHANGED online

-----------------------------------------------------------------------------
(* The server is shut down and started again *)

\* Everybody is seated again and nobody is bound; doors and rails are not
\* kept, nor what waited for the end of a hand, nor who had left.  A game the
\* host threw everybody out of is skipped, and stays behind in the store.
Restored(r) ==
  IF DOMAIN r.reg = {} THEN [NoGame EXCEPT !.st = "lost"]
  ELSE
  [r EXCEPT !.reg = [p \in DOMAIN @ |-> Fresh], !.pend = Empty, !.watch = Empty,
            !.leaving = {},
            !.host = IF @ \in DOMAIN r.reg THEN @ ELSE CHOOSE p \in DOMAIN r.reg : TRUE]

Restart ==
  /\ game' = [g \in Games |-> IF Live(g) THEN Restored(game[g])
                              ELSE IF Exists(g) THEN Gone(game[g]) ELSE game[g]]
  /\ data' = [s \in Tabs |-> NoData] /\ online' = {}

-----------------------------------------------------------------------------
Init ==
  /\ game = [g \in Games |-> NoGame] /\ data = [s \in Tabs |-> NoData]
  /\ online = {}

OfTab(s) ==
  \/ Connect(s) \/ Disconnect(s) \/ Resume(s) \/ Withdraw(s) \/ StopWatching(s)
  \/ Unregister(s) \/ Leave(s) \/ StartNow(s)
  \/ \E g \in Games : \/ Create(s, g) \/ Rejoin(s, g) \/ Join(s, g) \/ Ask(s, g)
                      \/ Watch(s, g) \/ Reenter(s, g) \/ TakeAddOn(s, g) \/ Forfeit(s, g)
  \/ \E q \in People : Admit(s, q) \/ Decline(s, q) \/ RemovePlayer(s, q)

OfGame(g) ==
  \/ Cancel(g) \/ HandEnds(g) \/ LateRegCloses(g)
  \/ \E p \in People : Bust(g, p)
  \/ \E wait \in Waits : Sweep(g, wait)

Next == (\E s \in Tabs : OfTab(s)) \/ (\E g \in Games : OfGame(g)) \/ Restart

Spec == Init /\ [][Next]_vars

-----------------------------------------------------------------------------
(* Types *)

Rows == [sock : Tabs \cup {None}, gone : BOOLEAN, left : BOOLEAN]
Bound == Tabs \cup {None}

\* From some of the people.
Maps(T) == UNION {[S -> T] : S \in SUBSET People}

Entry ==
  [st : {"none", "registering", "running", "finished", "gone", "lost"},
   host : People \cup {None}, reg : Maps(Rows), pend : Maps(Bound), watch : Maps(Bound),
   out : SUBSET People, ffs : SUBSET People, stack : SUBSET People,
   leaving : SUBSET People, late : BOOLEAN, away : BOOLEAN,
   books : {"open", "won", "called off"}]

TypeOK ==
  /\ game \in [Games -> Entry]
  /\ data \in [Tabs -> [game : Games \cup {None}, door : Games \cup {None}]]
  /\ online \subseteq Tabs

-----------------------------------------------------------------------------
(* Safety *)

\* "You are already in a tournament": through every order of joining, asking,
\* watching, moving on and being let in from another tab, a person has one
\* place among the games that are on, as a player, at a door or on a rail; and
\* whom the host removed has none in that game again, whichever tab they try
\* and however the server is restarted.
OnePlace ==
  /\ \A p \in People :
       Cardinality(MemberOf(p)) + Cardinality(WaitingOn(p)) + Cardinality(RailOf(p)) <= 1
  /\ \A g \in Games : game[g].out \cap
       (DOMAIN game[g].reg \cup DOMAIN game[g].pend \cup DOMAIN game[g].watch) = {}

\* Whoever a game that is on counts as present is: the tab it is bound to is
\* connected, is theirs, and will tell that game when it goes.
BoundBack ==
  \A g \in Games : Live(g) =>
    LET r == game[g] IN
    /\ \A p \in DOMAIN r.reg : r.reg[p].sock # None =>
         LET s == r.reg[p].sock IN s \in online /\ Owner[s] = p /\ data[s].game = g
    /\ \A p \in DOMAIN r.watch : r.watch[p] # None =>
         LET s == r.watch[p] IN s \in online /\ Owner[s] = p /\ data[s].game = g
    /\ \A p \in DOMAIN r.pend : r.pend[p] # None =>
         LET s == r.pend[p] IN s \in online /\ Owner[s] = p /\ data[s].door = g

\* "Once per game": every way a game goes passes through settle, and what was
\* written down of it first stands.
OneEnding ==
  [][\A g \in Games :
       /\ game[g].books # "open" => game'[g].books = game[g].books
       /\ game'[g].st \in {"finished", "gone"} => game'[g].books # "open"]_vars
=============================================================================
