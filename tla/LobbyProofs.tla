---------------------------- MODULE LobbyProofs ----------------------------
(***************************************************************************)
(* What the run of Lobby checks for two people and two games, for any      *)
(* number of people, tabs and games: that a game's end is written down     *)
(* once, that a person has one place, and that whoever counts as present   *)
(* is bound to a tab that is there and will say so when it goes.           *)
(***************************************************************************)
EXTENDS Lobby, FiniteSetTheorems, TLAPS

On(r) == r.st \in {"registering", "running"}

\* A game's end has been written down once it is over, and not before.
Ended ==
  \A g \in Games :
    /\ game[g].st \in {"finished", "gone"} => game[g].books # "open"
    /\ game[g].st = "none" \/ On(game[g]) => game[g].books = "open"

\* What OnePlace says, with what it takes to stay so: a request and a rail are
\* one even among games that are over, since moving on gives those up too.
Unshared ==
  \A p \in People : \A g, h \in Games :
    /\ On(game[g]) /\ p \in DOMAIN game[g].reg =>
         /\ On(game[h]) /\ p \in DOMAIN game[h].reg => g = h
         /\ p \notin DOMAIN game[h].pend /\ p \notin DOMAIN game[h].watch
    /\ p \in DOMAIN game[g].pend =>
         /\ p \in DOMAIN game[h].pend => g = h
         /\ On(game[g]) => p \notin DOMAIN game[h].watch
    /\ p \in DOMAIN game[g].watch /\ p \in DOMAIN game[h].watch => g = h

\* Whoever was thrown out has no place; chips are a player's or are leaving
\* with somebody thrown out; a door is only waited at where one has to wait.
Fair(g, r) ==
  /\ \A p \in r.out : p \notin DOMAIN r.reg /\ p \notin DOMAIN r.pend /\ p \notin DOMAIN r.watch
  /\ On(r) => \A p \in r.stack : p \in DOMAIN r.reg \/ p \in r.out
  /\ r.st = "registering" => r.stack = {}
  /\ g \notin ByInvite => DOMAIN r.pend = {}
Barred == \A g \in Games : Fair(g, game[g])

\* A row is only ever bound to a tab of its person's, and in a game that is on
\* to one that is connected and knows of it.
Told ==
  ~OldLinks =>
  \A g \in Games : \A p \in People :
    /\ p \in DOMAIN game[g].reg /\ game[g].reg[p].sock # None =>
         /\ Owner[game[g].reg[p].sock] = p
         /\ On(game[g]) => game[g].reg[p].sock \in online /\ data[game[g].reg[p].sock].game = g
    /\ p \in DOMAIN game[g].watch /\ game[g].watch[p] # None =>
         /\ Owner[game[g].watch[p]] = p
         /\ On(game[g]) => game[g].watch[p] \in online /\ data[game[g].watch[p]].game = g
    /\ p \in DOMAIN game[g].pend /\ game[g].pend[p] # None =>
         /\ Owner[game[g].pend[p]] = p
         /\ On(game[g]) => game[g].pend[p] \in online /\ data[game[g].pend[p]].door = g

Ind == TypeOK /\ Ended /\ Unshared /\ Barred /\ Told

\* What OneEnding says of a step.
Books ==
  \A g \in Games :
    /\ game[g].books # "open" => game'[g].books = game[g].books
    /\ game'[g].st \in {"finished", "gone"} => game'[g].books # "open"

-----------------------------------------------------------------------------
(* Maps *)

LEMMA MapPut ==
  ASSUME NEW T, NEW f \in Maps(T), NEW k \in People, NEW v \in T
  PROVE  /\ Put(f, k, v) \in Maps(T)
         /\ DOMAIN Put(f, k, v) = DOMAIN f \cup {k}
         /\ \A x \in DOMAIN f \cup {k} : Put(f, k, v)[x] = IF x = k THEN v ELSE f[x]
<1>1. PICK S \in SUBSET People : f \in [S -> T]
  BY DEF Maps
<1>2. Put(f, k, v) \in [S \cup {k} -> T]
  BY <1>1 DEF Put
<1>3. S \cup {k} \in SUBSET People
  OBVIOUS
<1> QED
  BY <1>1, <1>2, <1>3 DEF Maps, Put

LEMMA MapRestrict ==
  ASSUME NEW T, NEW f \in Maps(T), NEW S, S \subseteq DOMAIN f
  PROVE  /\ Restrict(f, S) \in Maps(T)
         /\ DOMAIN Restrict(f, S) = S
         /\ \A x \in S : Restrict(f, S)[x] = f[x]
<1>1. PICK R \in SUBSET People : f \in [R -> T]
  BY DEF Maps
<1>2. Restrict(f, S) \in [S -> T] /\ S \in SUBSET People
  BY <1>1 DEF Restrict
<1> QED
  BY <1>1, <1>2 DEF Maps, Restrict

LEMMA MapWithout ==
  ASSUME NEW T, NEW f \in Maps(T), NEW S
  PROVE  /\ Without(f, S) \in Maps(T)
         /\ DOMAIN Without(f, S) = DOMAIN f \ S
         /\ \A x \in DOMAIN f \ S : Without(f, S)[x] = f[x]
BY MapRestrict DEF Without

LEMMA BoundPut ==
  ASSUME NEW f \in Maps(Bound), NEW k \in People, NEW v \in Bound
  PROVE  Put(f, k, v) \in Maps(Bound)
BY MapPut

LEMMA BoundWithout ==
  ASSUME NEW f \in Maps(Bound), NEW p
  PROVE  /\ Without(f, {p}) \in Maps(Bound)
         /\ DOMAIN Without(f, {p}) = DOMAIN f \ {p}
         /\ \A x \in DOMAIN f \ {p} : Without(f, {p})[x] = f[x]
BY MapWithout

LEMMA MapExcept ==
  ASSUME NEW T, NEW f \in Maps(T), NEW k \in DOMAIN f, NEW v \in T
  PROVE  /\ [f EXCEPT ![k] = v] \in Maps(T)
         /\ DOMAIN [f EXCEPT ![k] = v] = DOMAIN f
         /\ \A x \in DOMAIN f : [f EXCEPT ![k] = v][x] = IF x = k THEN v ELSE f[x]
<1>1. PICK S \in SUBSET People : f \in [S -> T]
  BY DEF Maps
<1>2. [f EXCEPT ![k] = v] \in [S -> T]
  BY <1>1
<1> QED
  BY <1>1, <1>2 DEF Maps

LEMMA MapEmpty ==
  ASSUME NEW T
  PROVE  Empty \in Maps(T) /\ DOMAIN Empty = {}
<1>1. Empty \in [{} -> T]
  BY DEF Empty
<1> QED
  BY <1>1 DEF Maps, Empty

LEMMA MapType ==
  ASSUME NEW T, NEW f \in Maps(T)
  PROVE  DOMAIN f \subseteq People /\ \A x \in DOMAIN f : f[x] \in T
BY DEF Maps

-----------------------------------------------------------------------------
(* Entries *)

\* But for who sits where and whether the field is held.
Alike(q, r) ==
  /\ q.st = r.st /\ q.host = r.host /\ q.out = r.out /\ q.ffs = r.ffs /\ q.stack = r.stack
  /\ q.leaving = r.leaving /\ q.late = r.late /\ q.books = r.books

LEMMA RowTypes ==
  /\ Fresh \in Rows /\ \A s \in Tabs : At(s) \in Rows
  /\ \A row \in Rows : Away(row) \in Rows
BY DEF Fresh, At, Away, Rows

LEMMA SyncedFacts ==
  ASSUME NEW r \in Entry
  PROVE  /\ Synced(r) \in Entry /\ Alike(Synced(r), r)
         /\ Synced(r).reg = r.reg /\ Synced(r).pend = r.pend /\ Synced(r).watch = r.watch
BY DEF Synced, Entry, Alike, ShouldHold

LEMMA BindFacts ==
  ASSUME NEW r \in Entry, NEW p \in People, NEW s \in Tabs
  PROVE  /\ Bind(r, p, s) \in Entry /\ Alike(Bind(r, p, s), r)
         /\ Bind(r, p, s).reg = Put(r.reg, p, At(s))
         /\ Bind(r, p, s).pend = r.pend /\ Bind(r, p, s).watch = r.watch
<1> DEFINE b == [r EXCEPT !.reg = Put(@, p, At(s))]
<1>1. Put(r.reg, p, At(s)) \in Maps(Rows)
  BY MapPut, RowTypes DEF Entry
<1>2. /\ b \in Entry /\ Alike(b, r) /\ b.reg = Put(r.reg, p, At(s))
      /\ b.pend = r.pend /\ b.watch = r.watch
  BY <1>1 DEF Entry, Alike
<1> QED
  BY <1>2, SyncedFacts DEF Bind, Alike

LEMMA UnbindFacts ==
  ASSUME NEW r \in Entry, NEW p \in People, NEW s \in Tabs
  PROVE  LET q == Unbind(r, p, s) IN
         /\ q \in Entry /\ Alike(q, r) /\ q.pend = r.pend /\ q.watch = r.watch
         /\ DOMAIN q.reg = DOMAIN r.reg
         /\ \A x \in DOMAIN r.reg : q.reg[x] = r.reg[x] \/ q.reg[x].sock = None
         /\ p \in DOMAIN r.reg => q.reg[p].sock # s
<1> DEFINE b == [r EXCEPT !.reg[p] = Away(@)]
<1>0. r.reg \in Maps(Rows) /\ None \notin Tabs
  BY LobbyAssumption DEF Entry
<1>1. CASE p \in DOMAIN r.reg /\ r.reg[p].sock = s
  <2>1. Away(r.reg[p]) \in Rows /\ Away(r.reg[p]).sock = None
    BY <1>0, <1>1, MapType, RowTypes DEF Away, Rows
  <2>2. /\ [r.reg EXCEPT ![p] = Away(r.reg[p])] \in Maps(Rows)
        /\ DOMAIN [r.reg EXCEPT ![p] = Away(r.reg[p])] = DOMAIN r.reg
        /\ \A x \in DOMAIN r.reg : [r.reg EXCEPT ![p] = Away(r.reg[p])][x]
              = IF x = p THEN Away(r.reg[p]) ELSE r.reg[x]
    BY <1>0, <1>1, <2>1, MapExcept
  <2>3. /\ b \in Entry /\ Alike(b, r) /\ b.pend = r.pend /\ b.watch = r.watch
        /\ b.reg = [r.reg EXCEPT ![p] = Away(r.reg[p])]
    BY <2>2 DEF Entry, Alike
  <2>4. Unbind(r, p, s) = Synced(b)
    BY <1>1 DEF Unbind
  <2>5. /\ Synced(b) \in Entry /\ Alike(Synced(b), r)
        /\ Synced(b).reg = b.reg /\ Synced(b).pend = r.pend /\ Synced(b).watch = r.watch
    <3> HIDE DEF b
    <3> QED  BY <2>3, SyncedFacts DEF Alike
  <2> HIDE DEF b
  <2> QED
    BY <1>0, <1>1, <2>1, <2>2, <2>3, <2>4, <2>5
<1>2. CASE ~(p \in DOMAIN r.reg /\ r.reg[p].sock = s)
  BY <1>2 DEF Unbind, Alike
<1> QED
  BY <1>1, <1>2

LEMMA UnbindWatcherFacts ==
  ASSUME NEW r \in Entry, NEW p \in People, NEW s \in Tabs
  PROVE  LET q == UnbindWatcher(r, p, s) IN
         /\ q \in Entry /\ Alike(q, r) /\ q.pend = r.pend /\ q.reg = r.reg
         /\ DOMAIN q.watch = DOMAIN r.watch
         /\ \A x \in DOMAIN r.watch : q.watch[x] = r.watch[x] \/ q.watch[x] = None
         /\ p \in DOMAIN r.watch => q.watch[p] # s
<1>0. r.watch \in Maps(Bound) /\ None \in Bound /\ None \notin Tabs
  BY LobbyAssumption DEF Entry, Bound
<1>1. CASE p \in DOMAIN r.watch /\ r.watch[p] = s
  <2>1. /\ [r.watch EXCEPT ![p] = None] \in Maps(Bound)
        /\ DOMAIN [r.watch EXCEPT ![p] = None] = DOMAIN r.watch
        /\ \A x \in DOMAIN r.watch : [r.watch EXCEPT ![p] = None][x]
              = IF x = p THEN None ELSE r.watch[x]
    BY <1>0, <1>1, MapExcept
  <2> QED
    BY <1>0, <1>1, <2>1 DEF UnbindWatcher, Entry, Alike
<1>2. CASE ~(p \in DOMAIN r.watch /\ r.watch[p] = s)
  BY <1>2 DEF UnbindWatcher, Alike
<1> QED
  BY <1>1, <1>2

LEMMA UnbindPendingFacts ==
  ASSUME NEW r \in Entry, NEW p \in People, NEW s \in Tabs
  PROVE  LET q == UnbindPending(r, p, s) IN
         /\ q \in Entry /\ Alike(q, r) /\ q.watch = r.watch /\ q.reg = r.reg
         /\ DOMAIN q.pend = DOMAIN r.pend
         /\ \A x \in DOMAIN r.pend : q.pend[x] = r.pend[x] \/ q.pend[x] = None
         /\ p \in DOMAIN r.pend => q.pend[p] # s
<1>0. r.pend \in Maps(Bound) /\ None \in Bound /\ None \notin Tabs
  BY LobbyAssumption DEF Entry, Bound
<1>1. CASE p \in DOMAIN r.pend /\ r.pend[p] = s
  <2>1. /\ [r.pend EXCEPT ![p] = None] \in Maps(Bound)
        /\ DOMAIN [r.pend EXCEPT ![p] = None] = DOMAIN r.pend
        /\ \A x \in DOMAIN r.pend : [r.pend EXCEPT ![p] = None][x]
              = IF x = p THEN None ELSE r.pend[x]
    BY <1>0, <1>1, MapExcept
  <2> QED
    BY <1>0, <1>1, <2>1 DEF UnbindPending, Entry, Alike
<1>2. CASE ~(p \in DOMAIN r.pend /\ r.pend[p] = s)
  BY <1>2 DEF UnbindPending, Alike
<1> QED
  BY <1>1, <1>2

\* Whoever comes in has a seat, and chips once the cards are out.
LEMMA EnterFacts ==
  ASSUME NEW r \in Entry, NEW p \in People, NEW s \in Bound
  PROVE  LET q == Enter(r, p, s) IN
         /\ q \in Entry /\ q.st = r.st /\ q.out = r.out /\ q.books = r.books
         /\ q.stack = IF r.st = "running" THEN r.stack \cup {p} ELSE r.stack
         /\ DOMAIN q.reg = DOMAIN r.reg \cup {p}
         /\ \A x \in DOMAIN r.reg : x # p => q.reg[x] = r.reg[x]
         /\ q.reg[p].sock = s
         /\ q.pend = r.pend /\ q.watch = r.watch
<1> DEFINE e == [r EXCEPT !.reg = Put(@, p, Fresh),
                          !.stack = IF r.st = "running" THEN @ \cup {p} ELSE @]
<1>1. Put(r.reg, p, Fresh) \in Maps(Rows)
  BY MapPut, RowTypes DEF Entry
<1>2. /\ e \in Entry /\ e.st = r.st /\ e.out = r.out /\ e.books = r.books
      /\ e.stack = IF r.st = "running" THEN r.stack \cup {p} ELSE r.stack
      /\ e.reg = Put(r.reg, p, Fresh) /\ e.pend = r.pend /\ e.watch = r.watch
  BY <1>1 DEF Entry
<1>3. Enter(r, p, s) = IF s = None THEN e ELSE Bind(e, p, s)
  BY DEF Enter
<1> HIDE DEF e
<1>4. CASE s = None
  <2>1. /\ DOMAIN Put(r.reg, p, Fresh) = DOMAIN r.reg \cup {p}
        /\ \A x \in DOMAIN r.reg : x # p => Put(r.reg, p, Fresh)[x] = r.reg[x]
        /\ Put(r.reg, p, Fresh)[p] = Fresh
    BY DEF Put
  <2>2. Fresh.sock = None
    BY DEF Fresh
  <2> QED
    BY <1>2, <1>3, <1>4, <2>1, <2>2
<1>5. CASE s # None
  <2>1. s \in Tabs
    BY <1>5 DEF Bound
  <2>2. /\ Bind(e, p, s) \in Entry /\ Alike(Bind(e, p, s), e)
        /\ Bind(e, p, s).reg = Put(e.reg, p, At(s))
        /\ Bind(e, p, s).pend = e.pend /\ Bind(e, p, s).watch = e.watch
    BY <1>2, <2>1, BindFacts
  <2>3. /\ DOMAIN Put(e.reg, p, At(s)) = DOMAIN r.reg \cup {p}
        /\ \A x \in DOMAIN r.reg : x # p => Put(e.reg, p, At(s))[x] = r.reg[x]
        /\ Put(e.reg, p, At(s))[p] = At(s)
    BY <1>2 DEF Put
  <2> DEFINE b == Bind(e, p, s)
  <2>4. /\ b.st = e.st /\ b.out = e.out /\ b.books = e.books /\ b.stack = e.stack
    BY <2>2 DEF Alike
  <2>5. /\ DOMAIN b.reg = DOMAIN r.reg \cup {p} /\ b.reg[p].sock = s
        /\ \A x \in DOMAIN r.reg : x # p => b.reg[x] = r.reg[x]
    <3>1. At(s).sock = s
      BY DEF At
    <3> HIDE DEF b
    <3> QED  BY <2>2, <2>3, <3>1 DEF b
  <2>6. Enter(r, p, s) = b
    BY <1>3, <1>5
  <2> HIDE DEF b
  <2> QED
    BY <1>2, <2>2, <2>4, <2>5, <2>6 DEF b
<1> QED
  BY <1>4, <1>5

LEMMA SettleFacts ==
  ASSUME NEW r \in Entry, NEW ended \in {"won", "called off"}
  PROVE  LET q == Settle(r, ended) IN
         /\ q \in Entry /\ q.st = r.st /\ q.out = r.out /\ q.stack = r.stack
         /\ q.reg = r.reg /\ q.pend = r.pend /\ q.watch = r.watch
         /\ q.books # "open" /\ (r.books # "open" => q.books = r.books)
<1>1. CASE r.books = "open"
  BY <1>1 DEF Settle, Entry
<1>2. CASE r.books # "open"
  BY <1>2 DEF Settle
<1> QED
  BY <1>1, <1>2

\* A game that is played is over once one stack is left, and only then.
Ends(q, r) ==
  /\ q.out = r.out /\ q.reg = r.reg /\ q.pend = r.pend /\ q.watch = r.watch
  /\ q.stack \subseteq r.stack
  /\ \/ q.st = r.st /\ q.books = r.books
     \/ /\ r.st = "running" /\ q.st = "finished"
        /\ q.books # "open" /\ (r.books # "open" => q.books = r.books)

LEMMA JudgedFacts ==
  ASSUME NEW r \in Entry
  PROVE  Judged(r) \in Entry /\ Ends(Judged(r), r)
<1> DEFINE e == [r EXCEPT !.st = "finished", !.leaving = {}, !.late = FALSE, !.away = FALSE]
<1>1. CASE r.st = "running" /\ Cardinality(r.stack) <= 1
  <2>1. /\ e \in Entry /\ e.st = "finished" /\ e.out = r.out /\ e.stack = r.stack
        /\ e.reg = r.reg /\ e.pend = r.pend /\ e.watch = r.watch /\ e.books = r.books
    BY DEF Entry
  <2>2. Judged(r) = Settle(e, "won")
    BY <1>1 DEF Judged
  <2> HIDE DEF e
  <2> QED
    <3>1. LET q == Settle(e, "won") IN
          /\ q \in Entry /\ q.st = e.st /\ q.out = e.out /\ q.stack = e.stack
          /\ q.reg = e.reg /\ q.pend = e.pend /\ q.watch = e.watch
          /\ q.books # "open" /\ (e.books # "open" => q.books = e.books)
      BY <2>1, SettleFacts
    <3> QED  BY <1>1, <2>1, <2>2, <3>1 DEF Ends
<1>2. CASE ~(r.st = "running" /\ Cardinality(r.stack) <= 1)
  BY <1>2 DEF Judged, Ends
<1> QED
  BY <1>1, <1>2

LEMMA LoseFacts ==
  ASSUME NEW r \in Entry, NEW p \in People
  PROVE  Lose(r, p) \in Entry /\ Ends(Lose(r, p), r)
<1> DEFINE e == [r EXCEPT !.stack = @ \ {p}, !.leaving = @ \ {p}]
<1>1. /\ e \in Entry /\ e.st = r.st /\ e.out = r.out /\ e.stack \subseteq r.stack
      /\ e.reg = r.reg /\ e.pend = r.pend /\ e.watch = r.watch /\ e.books = r.books
  BY DEF Entry
<1>2. Lose(r, p) = Judged(e)
  BY DEF Lose
<1> HIDE DEF e
<1> QED
  BY <1>1, <1>2, JudgedFacts DEF Ends

LEMMA TakenOutFacts ==
  ASSUME NEW r \in Entry, NEW p \in People, NEW q \in TakenOut(r, p)
  PROVE  q \in Entry /\ Ends(q, r)
<1>1. CASE q = Lose(r, p)
  BY <1>1, LoseFacts
<1>2. CASE q = [r EXCEPT !.leaving = @ \cup {p}]
  BY <1>2 DEF Entry, Ends
<1> QED
  BY <1>1, <1>2 DEF TakenOut

LEMMA StartedFacts ==
  ASSUME NEW r \in Entry
  PROVE  LET q == Started(r) IN
         /\ q \in Entry /\ q.st = "running" /\ q.out = r.out /\ q.books = r.books
         /\ q.stack = DOMAIN r.reg
         /\ q.reg = r.reg /\ q.pend = r.pend /\ q.watch = r.watch
<1>1. DOMAIN r.reg \subseteq People
  BY MapType DEF Entry
<1> QED
  BY <1>1 DEF Started, Entry

\* A game nobody is in any more.
Vacant(q) ==
  /\ DOMAIN q.reg = {} /\ DOMAIN q.pend = {} /\ DOMAIN q.watch = {} /\ q.out = {} /\ q.stack = {}
  /\ q \in Entry

LEMMA NoGameFacts == Vacant(NoGame) /\ NoGame.st = "none" /\ NoGame.books = "open"
<1>1. /\ Empty \in Maps(Rows) /\ Empty \in Maps(Bound) /\ DOMAIN Empty = {}
  BY MapEmpty
<1> HIDE DEF Empty
<1> QED
  BY <1>1 DEF Vacant, NoGame, Entry

LEMMA GoneFacts ==
  ASSUME NEW r \in Entry
  PROVE  LET q == Gone(r) IN
         /\ Vacant(q) /\ q.st = "gone"
         /\ q.books # "open" /\ (r.books # "open" => q.books = r.books)
<1> DEFINE w == IF r.st = "finished" THEN "won" ELSE "called off"
<1>1. w \in {"won", "called off"}
  OBVIOUS
<1>2. /\ Settle(r, w).books \in {"open", "won", "called off"} /\ Settle(r, w).books # "open"
      /\ r.books # "open" => Settle(r, w).books = r.books
  BY <1>1, SettleFacts DEF Entry
<1>3. Gone(r) = [NoGame EXCEPT !.st = "gone", !.books = Settle(r, w).books]
  BY DEF Gone
<1> HIDE DEF w
<1>4. /\ NoGame \in Entry
  BY NoGameFacts DEF Vacant
<1>5. /\ Gone(r) \in Entry /\ Gone(r).st = "gone" /\ Gone(r).books = Settle(r, w).books
      /\ Gone(r).reg = NoGame.reg /\ Gone(r).pend = NoGame.pend /\ Gone(r).watch = NoGame.watch
      /\ Gone(r).out = NoGame.out /\ Gone(r).stack = NoGame.stack
  BY <1>2, <1>3, <1>4 DEF Entry
<1> QED
  BY <1>2, <1>5, NoGameFacts DEF Vacant

\* Another title at most.
LEMMA TransferHostFacts ==
  ASSUME NEW r \in Entry, NEW waited, NEW q \in TransferHost(r, waited) \cup Passed(r)
  PROVE  /\ q \in Entry /\ Ends(q, r) /\ q.st = r.st /\ q.books = r.books /\ q.stack = r.stack
<1>1. Heirs(r) \subseteq People
  BY MapType DEF Heirs, Entry
<1>2. CASE q = r
  BY <1>2 DEF Ends
<1>3. ASSUME NEW p \in Heirs(r), q = [r EXCEPT !.host = p]
      PROVE  q \in Entry /\ Ends(q, r) /\ q.st = r.st /\ q.books = r.books /\ q.stack = r.stack
  BY <1>1, <1>3 DEF Entry, Ends
<1> QED
  BY <1>2, <1>3 DEF TransferHost, Passed

LEMMA RestoredFacts ==
  ASSUME NEW r \in Entry
  PROVE  LET q == Restored(r) IN
         \/ Vacant(q) /\ q.st = "lost"
         \/ /\ q \in Entry /\ q.st = r.st /\ q.books = r.books /\ q.stack = r.stack
            /\ q.out = r.out /\ DOMAIN q.pend = {} /\ DOMAIN q.watch = {}
            /\ DOMAIN q.reg = DOMAIN r.reg /\ \A p \in DOMAIN q.reg : q.reg[p] = Fresh
<1>1. CASE DOMAIN r.reg = {}
  <2>1. NoGame \in Entry
    BY NoGameFacts DEF Vacant
  <2>2. /\ Restored(r) \in Entry /\ Restored(r).st = "lost"
        /\ Restored(r).reg = NoGame.reg /\ Restored(r).pend = NoGame.pend
        /\ Restored(r).watch = NoGame.watch
        /\ Restored(r).out = NoGame.out /\ Restored(r).stack = NoGame.stack
    BY <1>1, <2>1 DEF Restored, Entry
  <2> QED
    BY <2>2, NoGameFacts DEF Vacant
<1>2. CASE DOMAIN r.reg # {}
  <2> DEFINE back == [p \in DOMAIN r.reg |-> Fresh]
             host == IF r.host \in DOMAIN r.reg THEN r.host ELSE CHOOSE p \in DOMAIN r.reg : TRUE
  <2>1. DOMAIN r.reg \subseteq People
    BY MapType DEF Entry
  <2>2. back \in [DOMAIN r.reg -> Rows]
    BY RowTypes
  <2>3. back \in Maps(Rows)
    BY <2>1, <2>2 DEF Maps
  <2>4. host \in People
    BY <1>2, <2>1
  <2>5. /\ Empty \in Maps(Bound) /\ DOMAIN Empty = {}
    BY MapEmpty
  <2>6. DOMAIN back = DOMAIN r.reg /\ \A p \in DOMAIN back : back[p] = Fresh
    OBVIOUS
  <2>7. Restored(r) = [r EXCEPT !.reg = back, !.pend = Empty, !.watch = Empty, !.leaving = {},
                                !.host = host]
    BY <1>2 DEF Restored
  <2> HIDE DEF back, host
  <2> QED
    BY <2>3, <2>4, <2>5, <2>6, <2>7 DEF Entry
<1> QED
  BY <1>1, <1>2

\* A sweep lets requests and rails lapse.
LEMMA SweptFacts ==
  ASSUME NEW r \in Entry, NEW wait
  PROVE  LET q == Swept(r, wait) IN
         /\ q \in Entry /\ Alike(q, r) /\ q.reg = r.reg
         /\ DOMAIN q.pend = Waiting(r, wait) /\ Waiting(r, wait) \subseteq DOMAIN r.pend
         /\ \A p \in DOMAIN q.pend : q.pend[p] = r.pend[p]
         /\ DOMAIN q.watch \subseteq DOMAIN r.watch
         /\ \A p \in DOMAIN q.watch : q.watch[p] = r.watch[p]
<1>1. Waiting(r, wait) \subseteq DOMAIN r.pend /\ Watching(r, wait) \subseteq DOMAIN r.watch
  BY DEF Waiting, Watching
<1>4. r.pend \in Maps(Bound) /\ r.watch \in Maps(Bound)
  BY DEF Entry
<1>2. /\ Restrict(r.pend, Waiting(r, wait)) \in Maps(Bound)
      /\ DOMAIN Restrict(r.pend, Waiting(r, wait)) = Waiting(r, wait)
      /\ \A p \in Waiting(r, wait) : Restrict(r.pend, Waiting(r, wait))[p] = r.pend[p]
  BY <1>1, <1>4, MapRestrict
<1>3. /\ Restrict(r.watch, Watching(r, wait)) \in Maps(Bound)
      /\ DOMAIN Restrict(r.watch, Watching(r, wait)) = Watching(r, wait)
      /\ \A p \in Watching(r, wait) : Restrict(r.watch, Watching(r, wait))[p] = r.watch[p]
  BY <1>1, <1>4, MapRestrict
<1> QED
  BY <1>1, <1>2, <1>3 DEF Swept, Entry, Alike

-----------------------------------------------------------------------------
(* Steps *)

\* Nobody comes in.
Fewer(q, r) ==
  /\ DOMAIN q.reg \subseteq DOMAIN r.reg /\ DOMAIN q.pend \subseteq DOMAIN r.pend
  /\ DOMAIN q.watch \subseteq DOMAIN r.watch
  /\ On(q) => On(r)

\* What is written down stays, and nothing ends that is not.
Turns(q, r) ==
  /\ r.books # "open" => q.books = r.books
  /\ q.st = "none" => r.st = "none" /\ q.books = r.books
  /\ On(q) => q.books = r.books /\ (On(r) \/ r.st = "none")
  /\ q.st \in {"finished", "gone"} /\ q.st # r.st => q.books # "open"

Tame(g, q, r) == Fewer(q, r) /\ Turns(q, r) /\ (Fair(g, r) => Fair(g, q))

LEMMA TameSelf ==
  ASSUME NEW g, NEW r
  PROVE  Tame(g, r, r)
BY DEF Tame, Fewer, Turns

LEMMA TameTwice ==
  ASSUME NEW g, NEW a, NEW b, NEW c, Tame(g, a, b), Tame(g, b, c)
  PROVE  Tame(g, a, c)
BY DEF Tame, Fewer, Turns

\* People stay where they are, or leave a door or a rail.
Calm(q, r) ==
  /\ q.st = r.st /\ q.books = r.books /\ q.out = r.out
  /\ DOMAIN q.reg = DOMAIN r.reg /\ DOMAIN q.pend \subseteq DOMAIN r.pend
  /\ DOMAIN q.watch \subseteq DOMAIN r.watch
  /\ q.stack \subseteq r.stack \cup DOMAIN r.reg
  /\ r.st # "running" => q.stack \subseteq r.stack

LEMMA CalmTame ==
  ASSUME NEW g, NEW q, NEW r, Calm(q, r)
  PROVE  Tame(g, q, r)
BY DEF Calm, Tame, Fewer, Turns, Fair, On

LEMMA EndsTame ==
  ASSUME NEW g, NEW q, NEW r, Ends(q, r)
  PROVE  Tame(g, q, r)
BY DEF Ends, Tame, Fewer, Turns, Fair, On

LEMMA VacantTame ==
  ASSUME NEW g, NEW q, NEW r, Vacant(q), q.st \in {"gone", "lost"}, Turns(q, r)
  PROVE  Tame(g, q, r)
BY DEF Vacant, Tame, Fewer, Fair, On

LEMMA GoneTame ==
  ASSUME NEW g, NEW r \in Entry, r.st # "gone"
  PROVE  Gone(r) \in Entry /\ Vacant(Gone(r)) /\ ~On(Gone(r)) /\ Tame(g, Gone(r), r)
<1> DEFINE q == Gone(r)
<1>1. /\ Vacant(q) /\ q.st = "gone"
      /\ q.books # "open" /\ (r.books # "open" => q.books = r.books)
  BY GoneFacts
<1> HIDE DEF q
<1>2. Turns(q, r)
  BY <1>1 DEF Turns, On
<1>3. Vacant(q) /\ q \in Entry /\ ~On(q) /\ Tame(g, q, r)
  BY <1>1, <1>2, VacantTame DEF Vacant, On
<1> QED
  BY <1>3 DEF q

LEMMA StartedTame ==
  ASSUME NEW g, NEW r \in Entry, r.st = "registering"
  PROVE  Tame(g, Started(r), r)
<1> DEFINE q == Started(r)
<1>1. /\ q.st = "running" /\ q.out = r.out /\ q.books = r.books /\ q.stack = DOMAIN r.reg
      /\ q.reg = r.reg /\ q.pend = r.pend /\ q.watch = r.watch
  BY StartedFacts
<1> HIDE DEF q
<1>2. Tame(g, q, r)
  BY <1>1 DEF Tame, Fewer, Turns, Fair, On
<1> QED
  BY <1>2 DEF q

\* A step in which nobody comes in anywhere.
LEMMA TameStep ==
  ASSUME Ind, \A g \in Games : Tame(g, game'[g], game[g])
  PROVE  Ended' /\ Unshared' /\ Barred' /\ Books
<1>1. Ended' /\ Books
  BY DEF Ind, Ended, Books, Tame, Turns
<1>2. Barred'
  BY DEF Ind, Barred, Tame
<1>3. \A g \in Games : Fewer(game'[g], game[g])
  BY DEF Tame
<1>4. Unshared'
  BY <1>3 DEF Ind, Unshared, Fewer
<1> QED
  BY <1>1, <1>2, <1>4

-----------------------------------------------------------------------------
(* What a step writes *)

LEMMA SetFacts ==
  ASSUME TypeOK, NEW g \in Games, NEW q \in Entry, Set(g, q)
  PROVE  /\ game' \in [Games -> Entry] /\ game'[g] = q
         /\ \A h \in Games : h # g => game'[h] = game[h]
BY DEF Set, TypeOK

\* The step touches one game, and tamely.
LEMMA SetTame ==
  ASSUME Ind, NEW g \in Games, NEW q \in Entry, Set(g, q), Tame(g, q, game[g])
  PROVE  Ended' /\ Unshared' /\ Barred' /\ Books
<1>1. \A h \in Games : Tame(h, game'[h], game[h])
  BY SetFacts, TameSelf DEF Ind
<1> QED
  BY <1>1, TameStep

\* Nobody in that game is bound who was not.
Loose(q, r) ==
  /\ On(q) => On(r)
  /\ \A p \in DOMAIN q.reg : q.reg[p].sock # None =>
       p \in DOMAIN r.reg /\ q.reg[p].sock = r.reg[p].sock
  /\ \A p \in DOMAIN q.watch : q.watch[p] # None =>
       p \in DOMAIN r.watch /\ q.watch[p] = r.watch[p]
  /\ \A p \in DOMAIN q.pend : q.pend[p] # None =>
       p \in DOMAIN r.pend /\ q.pend[p] = r.pend[p]

\* Whoever is bound to one of these tabs is where it says.
Heard(C) ==
  ~OldLinks =>
  \A g \in Games : \A p \in People : On(game'[g]) =>
    /\ p \in DOMAIN game'[g].reg /\ game'[g].reg[p].sock \in C =>
         game'[g].reg[p].sock \in online' /\ data'[game'[g].reg[p].sock].game = g
    /\ p \in DOMAIN game'[g].watch /\ game'[g].watch[p] \in C =>
         game'[g].watch[p] \in online' /\ data'[game'[g].watch[p]].game = g
    /\ p \in DOMAIN game'[g].pend /\ game'[g].pend[p] \in C =>
         game'[g].pend[p] \in online' /\ data'[game'[g].pend[p]].door = g

\* Nobody is bound who was not, and a tab something happens to is bound nowhere.
LEMMA LooseStep ==
  ASSUME Ind, TypeOK', NEW C,
         \A s \in Tabs \ C : data'[s] = data[s] /\ (s \in online => s \in online'),
         \A g \in Games : Loose(game'[g], game[g]),
         Heard(C)
  PROVE  Told'
<1> SUFFICES ASSUME ~OldLinks, NEW g \in Games, NEW p \in People
    PROVE
    /\ p \in DOMAIN game'[g].reg /\ game'[g].reg[p].sock # None =>
         /\ Owner[game'[g].reg[p].sock] = p
         /\ On(game'[g]) => game'[g].reg[p].sock \in online' /\ data'[game'[g].reg[p].sock].game = g
    /\ p \in DOMAIN game'[g].watch /\ game'[g].watch[p] # None =>
         /\ Owner[game'[g].watch[p]] = p
         /\ On(game'[g]) => game'[g].watch[p] \in online' /\ data'[game'[g].watch[p]].game = g
    /\ p \in DOMAIN game'[g].pend /\ game'[g].pend[p] # None =>
         /\ Owner[game'[g].pend[p]] = p
         /\ On(game'[g]) => game'[g].pend[p] \in online' /\ data'[game'[g].pend[p]].door = g
  BY DEF Told, On
<1>1. online \subseteq Tabs
  BY DEF Ind, TypeOK
<1>2. CASE p \in DOMAIN game'[g].reg /\ game'[g].reg[p].sock # None
  BY <1>1, <1>2 DEF Ind, Told, Loose, Heard
<1>3. CASE p \in DOMAIN game'[g].watch /\ game'[g].watch[p] # None
  BY <1>1, <1>3 DEF Ind, Told, Loose, Heard
<1>4. CASE p \in DOMAIN game'[g].pend /\ game'[g].pend[p] # None
  BY <1>1, <1>4 DEF Ind, Told, Loose, Heard
<1> QED
  BY <1>2, <1>3, <1>4

LEMMA LooseSelf ==
  ASSUME NEW r
  PROVE  Loose(r, r)
BY DEF Loose

LEMMA LooseTwice ==
  ASSUME NEW a, NEW b, NEW c, Loose(a, b), Loose(b, c)
  PROVE  Loose(a, c)
BY DEF Loose

LEMMA EndsLoose ==
  ASSUME NEW q, NEW r, Ends(q, r)
  PROVE  Loose(q, r)
BY DEF Ends, Loose, On

LEMMA VacantLoose ==
  ASSUME NEW q, NEW r, Vacant(q), ~On(q)
  PROVE  Loose(q, r)
BY DEF Vacant, Loose

\* The step is in the game alone: no tab hears of it.
LEMMA QuietStep ==
  ASSUME Ind, NEW g \in Games, NEW q \in Entry, Set(g, q), UNCHANGED <<data, online>>,
         Tame(g, q, game[g]), Loose(q, game[g])
  PROVE  Ind' /\ Books
<1>1. TypeOK'
  BY SetFacts DEF Ind, TypeOK
<1>2. \A h \in Games : Loose(game'[h], game[h])
  BY SetFacts, LooseSelf DEF Ind
<1>3. \A s \in Tabs \ {} : data'[s] = data[s] /\ (s \in online => s \in online')
  OBVIOUS
<1>5. Heard({})
  BY DEF Heard
<1>4. Told'
  BY <1>1, <1>2, <1>3, <1>5, LooseStep
<1> QED
  BY <1>1, <1>4, SetTame DEF Ind

LEMMA EntryType ==
  ASSUME TypeOK, NEW g \in Games
  PROVE  /\ game[g] \in Entry
         /\ game[g].reg \in Maps(Rows) /\ game[g].pend \in Maps(Bound) /\ game[g].watch \in Maps(Bound)
         /\ DOMAIN game[g].reg \subseteq People /\ DOMAIN game[g].pend \subseteq People
         /\ DOMAIN game[g].watch \subseteq People
         /\ game[g].stack \subseteq People /\ game[g].leaving \subseteq People
         /\ \A p \in DOMAIN game[g].pend : game[g].pend[p] \in Bound
         /\ \A p \in DOMAIN game[g].watch : game[g].watch[p] \in Bound
         /\ \A p \in DOMAIN game[g].reg : game[g].reg[p] \in Rows /\ game[g].reg[p].sock \in Bound
<1>1. /\ game[g] \in Entry /\ game[g].reg \in Maps(Rows) /\ game[g].pend \in Maps(Bound)
      /\ game[g].watch \in Maps(Bound)
      /\ game[g].stack \subseteq People /\ game[g].leaving \subseteq People
  BY DEF TypeOK, Entry
<1>2. \A p \in DOMAIN game[g].reg : game[g].reg[p] \in Rows
  BY <1>1, MapType
<1>3. \A row \in Rows : row.sock \in Bound
  BY DEF Rows, Bound
<1> QED
  BY <1>1, <1>2, <1>3, MapType

LEMMA LeaveDoorsFacts ==
  ASSUME TypeOK, NEW S
  PROVE  /\ LeaveDoors(data, S) \in [Tabs -> [game : Games \cup {None}, door : Games \cup {None}]]
         /\ \A s \in Tabs : /\ LeaveDoors(data, S)[s].game = data[s].game
                            /\ LeaveDoors(data, S)[s].door = IF s \in S THEN None ELSE data[s].door
                            /\ s \notin S => LeaveDoors(data, S)[s] = data[s]
BY DEF LeaveDoors, TypeOK

LEMMA LeaveGamesFacts ==
  ASSUME TypeOK, NEW S
  PROVE  /\ LeaveGames(data, S) \in [Tabs -> [game : Games \cup {None}, door : Games \cup {None}]]
         /\ \A s \in Tabs : /\ LeaveGames(data, S)[s].door = data[s].door
                            /\ LeaveGames(data, S)[s].game = IF s \in S THEN None ELSE data[s].game
                            /\ s \notin S => LeaveGames(data, S)[s] = data[s]
BY DEF LeaveGames, TypeOK

LEMMA ForgottenFacts ==
  ASSUME TypeOK, NEW g \in Games
  PROVE  /\ Forgotten(data, g) \in [Tabs -> [game : Games \cup {None}, door : Games \cup {None}]]
         /\ \A s \in Tabs : /\ data[s].game # g => Forgotten(data, g)[s].game = data[s].game
                            /\ data[s].door # g => Forgotten(data, g)[s].door = data[s].door
BY DEF Forgotten, TypeOK

-----------------------------------------------------------------------------
(* The game *)

LEMMA IndStartNow ==
  ASSUME Ind, NEW s \in Tabs, StartNow(s)
  PROVE  Ind' /\ Books
<1> DEFINE g == data[s].game
<1>1. /\ g \in Games /\ game[g].st = "registering" /\ Set(g, Started(game[g]))
      /\ UNCHANGED <<data, online>>
  BY DEF StartNow, Hosts, Ind, TypeOK
<1> HIDE DEF g
<1>2. game[g] \in Entry
  BY <1>1, EntryType DEF Ind
<1>3. Started(game[g]) \in Entry /\ Loose(Started(game[g]), game[g])
  BY <1>1, <1>2, StartedFacts DEF Loose, On
<1> QED
  BY <1>1, <1>2, <1>3, StartedTame, QuietStep

LEMMA IndBust ==
  ASSUME Ind, NEW g \in Games, NEW p \in People, Bust(g, p)
  PROVE  Ind' /\ Books
<1>1. game[g] \in Entry
  BY EntryType DEF Ind
<1>2. Lose(game[g], p) \in Entry /\ Ends(Lose(game[g], p), game[g])
  BY <1>1, LoseFacts
<1> QED
  BY <1>2, EndsTame, EndsLoose, QuietStep DEF Bust

LEMMA IndHandEnds ==
  ASSUME Ind, NEW g \in Games, HandEnds(g)
  PROVE  Ind' /\ Books
<1>1. game[g] \in Entry /\ game[g].leaving \subseteq People
  BY EntryType DEF Ind
<1>2. PICK p \in game[g].leaving : Set(g, Lose(game[g], p))
  BY DEF HandEnds
<1>3. Lose(game[g], p) \in Entry /\ Ends(Lose(game[g], p), game[g])
  BY <1>1, LoseFacts
<1> QED
  BY <1>2, <1>3, EndsTame, EndsLoose, QuietStep DEF HandEnds

LEMMA IndLateRegCloses ==
  ASSUME Ind, NEW g \in Games, LateRegCloses(g)
  PROVE  Ind' /\ Books
<1> DEFINE q == [game[g] EXCEPT !.late = FALSE]
<1>1. game[g] \in Entry
  BY EntryType DEF Ind
<1>2. q \in Entry /\ Ends(q, game[g])
  BY <1>1 DEF Entry, Ends
<1>3. Set(g, q) /\ UNCHANGED <<data, online>>
  BY DEF LateRegCloses, Set
<1> HIDE DEF q
<1> QED
  BY <1>2, <1>3, EndsTame, EndsLoose, QuietStep

LEMMA IndForfeit ==
  ASSUME Ind, NEW s \in Tabs, NEW g \in Games, Forfeit(s, g)
  PROVE  Ind' /\ Books
<1> DEFINE p == Owner[s]
           r == [game[g] EXCEPT !.ffs = @ \cup {p}]
<1>1. game[g] \in Entry /\ p \in People
  BY EntryType, LobbyAssumption DEF Ind
<1>2. PICK q \in TakenOut(r, p) : Set(g, q)
  BY DEF Forfeit
<1>3. r \in Entry /\ Ends(r, game[g])
  BY <1>1 DEF Entry, Ends
<1> HIDE DEF r, p
<1>4. q \in Entry /\ Ends(q, r)
  BY <1>1, <1>3, TakenOutFacts
<1>5. Tame(g, q, game[g])
  BY <1>3, <1>4, EndsTame, TameTwice
<1>6. Loose(q, game[g])
  BY <1>3, <1>4, EndsLoose DEF Loose
<1> QED
  BY <1>2, <1>4, <1>5, <1>6, QuietStep DEF Forfeit

-----------------------------------------------------------------------------
(* A game goes *)

LEMMA RemoveStep ==
  ASSUME Ind, NEW g \in Games, NEW r \in Entry, Remove(g, r), UNCHANGED online,
         Exists(g), r.st = game[g].st, r.books = game[g].books
  PROVE  Ind' /\ Books
<1> DEFINE C == {s \in Tabs : data'[s] # data[s]}
           q == Gone(r)
<1>1. r.st # "gone" /\ r.st # "none" /\ game[g] \in Entry
  BY EntryType DEF Exists, Ind
<1>2. q \in Entry /\ Vacant(q) /\ ~On(q) /\ q.st = "gone" /\ q.books # "open"
      /\ (r.books # "open" => q.books = r.books)
  BY <1>1, GoneTame, GoneFacts
<1>3. Turns(q, game[g])
  BY <1>1, <1>2 DEF Turns
<1>4. Set(g, q)
  BY DEF Remove
<1> HIDE DEF q
<1>5. Tame(g, q, game[g]) /\ Loose(q, game[g])
  BY <1>2, <1>3, VacantTame, VacantLoose
<1>6. Ended' /\ Unshared' /\ Barred' /\ Books
  BY <1>2, <1>4, <1>5, SetTame
<1>7. /\ game' \in [Games -> Entry] /\ game'[g] = q
      /\ \A h \in Games : h # g => game'[h] = game[h]
  BY <1>2, <1>4, SetFacts DEF Ind
<1>8. data' = Forgotten(data, g)
  BY DEF Remove
<1>9. TypeOK'
  BY <1>7, <1>8, ForgottenFacts DEF Ind, TypeOK
<1>10. \A h \in Games : Loose(game'[h], game[h])
  BY <1>5, <1>7, LooseSelf
<1>11. Heard(C)
  <2> SUFFICES ASSUME ~OldLinks, NEW h \in Games, NEW p \in People, On(game'[h])
      PROVE
      /\ p \in DOMAIN game'[h].reg /\ game'[h].reg[p].sock \in C =>
           game'[h].reg[p].sock \in online' /\ data'[game'[h].reg[p].sock].game = h
      /\ p \in DOMAIN game'[h].watch /\ game'[h].watch[p] \in C =>
           game'[h].watch[p] \in online' /\ data'[game'[h].watch[p]].game = h
      /\ p \in DOMAIN game'[h].pend /\ game'[h].pend[p] \in C =>
           game'[h].pend[p] \in online' /\ data'[game'[h].pend[p]].door = h
    BY DEF Heard
  <2>1. h # g /\ game'[h] = game[h]
    BY <1>2, <1>7
  <2>2. /\ p \in DOMAIN game[h].reg /\ game[h].reg[p].sock # None =>
             game[h].reg[p].sock \in online /\ data[game[h].reg[p].sock].game = h
        /\ p \in DOMAIN game[h].watch /\ game[h].watch[p] # None =>
             game[h].watch[p] \in online /\ data[game[h].watch[p]].game = h
        /\ p \in DOMAIN game[h].pend /\ game[h].pend[p] # None =>
             game[h].pend[p] \in online /\ data[game[h].pend[p]].door = h
    BY <2>1 DEF Ind, Told
  <2>3. \A s \in C : s \in Tabs /\ s # None
    BY LobbyAssumption
  <2> HIDE DEF C
  <2> QED
    BY <1>8, <2>1, <2>2, <2>3, ForgottenFacts DEF Ind
<1>12. \A s \in Tabs \ C : data'[s] = data[s] /\ (s \in online => s \in online')
  OBVIOUS
<1> HIDE DEF C
<1>13. Told'
  BY <1>9, <1>10, <1>11, <1>12, LooseStep
<1> QED
  BY <1>6, <1>9, <1>13 DEF Ind

LEMMA IndCancel ==
  ASSUME Ind, NEW g \in Games, Cancel(g)
  PROVE  Ind' /\ Books
<1>1. game[g] \in Entry /\ Exists(g)
  BY EntryType DEF Ind, Cancel, Live, Exists
<1> QED
  BY <1>1, RemoveStep DEF Cancel

-----------------------------------------------------------------------------
(* A step of one person's *)

\* Whoever else is bound is bound as before.
Others(p, q, r) ==
  /\ \A x \in DOMAIN q.reg \ {p} : q.reg[x].sock # None =>
       x \in DOMAIN r.reg /\ q.reg[x].sock = r.reg[x].sock /\ (On(q) => On(r))
  /\ \A x \in DOMAIN q.watch \ {p} : q.watch[x] # None =>
       x \in DOMAIN r.watch /\ q.watch[x] = r.watch[x] /\ (On(q) => On(r))
  /\ \A x \in DOMAIN q.pend \ {p} : q.pend[x] # None =>
       x \in DOMAIN r.pend /\ q.pend[x] = r.pend[x] /\ (On(q) => On(r))

\* They are bound where their tab says they are.
Mine(p, g) ==
  /\ p \in DOMAIN game'[g].reg /\ game'[g].reg[p].sock # None =>
       /\ Owner[game'[g].reg[p].sock] = p
       /\ On(game'[g]) => game'[g].reg[p].sock \in online' /\ data'[game'[g].reg[p].sock].game = g
  /\ p \in DOMAIN game'[g].watch /\ game'[g].watch[p] # None =>
       /\ Owner[game'[g].watch[p]] = p
       /\ On(game'[g]) => game'[g].watch[p] \in online' /\ data'[game'[g].watch[p]].game = g
  /\ p \in DOMAIN game'[g].pend /\ game'[g].pend[p] # None =>
       /\ Owner[game'[g].pend[p]] = p
       /\ On(game'[g]) => game'[g].pend[p] \in online' /\ data'[game'[g].pend[p]].door = g

\* The step is of one person's tabs: nobody else is bound to them.
Owned(p, C) == ~OldLinks => \A s \in Tabs \cap C : Owner[s] = p

LEMMA OwnStep ==
  ASSUME Ind, TypeOK', NEW p \in People, NEW C, Owned(p, C),
         \A s \in Tabs \ C : data'[s] = data[s] /\ (s \in online => s \in online'),
         ~OldLinks => \A g \in Games : Others(p, game'[g], game[g]) /\ Mine(p, g)
  PROVE  Told'
<1> SUFFICES ASSUME ~OldLinks, NEW g \in Games, NEW x \in People
    PROVE
    /\ x \in DOMAIN game'[g].reg /\ game'[g].reg[x].sock # None =>
         /\ Owner[game'[g].reg[x].sock] = x
         /\ On(game'[g]) => game'[g].reg[x].sock \in online' /\ data'[game'[g].reg[x].sock].game = g
    /\ x \in DOMAIN game'[g].watch /\ game'[g].watch[x] # None =>
         /\ Owner[game'[g].watch[x]] = x
         /\ On(game'[g]) => game'[g].watch[x] \in online' /\ data'[game'[g].watch[x]].game = g
    /\ x \in DOMAIN game'[g].pend /\ game'[g].pend[x] # None =>
         /\ Owner[game'[g].pend[x]] = x
         /\ On(game'[g]) => game'[g].pend[x] \in online' /\ data'[game'[g].pend[x]].door = g
  BY DEF Told, On
<1>1. CASE x = p
  BY <1>1 DEF Mine
<1>2. CASE x # p
  <2>0. \A s \in online : s \in Tabs /\ (Owner[s] = x => s \notin C)
    BY <1>2 DEF Ind, TypeOK, Owned
  <2>1. ASSUME x \in DOMAIN game'[g].reg, game'[g].reg[x].sock # None
       PROVE  /\ Owner[game'[g].reg[x].sock] = x
              /\ On(game'[g]) => /\ game'[g].reg[x].sock \in online'
                                 /\ data'[game'[g].reg[x].sock].game = g
    <3>1. /\ x \in DOMAIN game[g].reg /\ game'[g].reg[x].sock = game[g].reg[x].sock
          /\ On(game'[g]) => On(game[g])
      BY <1>2, <2>1 DEF Others
    <3>2. /\ Owner[game[g].reg[x].sock] = x
          /\ On(game[g]) => /\ game[g].reg[x].sock \in online
                            /\ data[game[g].reg[x].sock].game = g
      BY <2>1, <3>1 DEF Ind, Told
    <3> QED  BY <2>0, <3>1, <3>2
  <2>2. ASSUME x \in DOMAIN game'[g].watch, game'[g].watch[x] # None
       PROVE  /\ Owner[game'[g].watch[x]] = x
              /\ On(game'[g]) => /\ game'[g].watch[x] \in online'
                                 /\ data'[game'[g].watch[x]].game = g
    <3>1. /\ x \in DOMAIN game[g].watch /\ game'[g].watch[x] = game[g].watch[x]
          /\ On(game'[g]) => On(game[g])
      BY <1>2, <2>2 DEF Others
    <3>2. /\ Owner[game[g].watch[x]] = x
          /\ On(game[g]) => /\ game[g].watch[x] \in online
                            /\ data[game[g].watch[x]].game = g
      BY <2>2, <3>1 DEF Ind, Told
    <3> QED  BY <2>0, <3>1, <3>2
  <2>3. ASSUME x \in DOMAIN game'[g].pend, game'[g].pend[x] # None
       PROVE  /\ Owner[game'[g].pend[x]] = x
              /\ On(game'[g]) => /\ game'[g].pend[x] \in online'
                                 /\ data'[game'[g].pend[x]].door = g
    <3>1. /\ x \in DOMAIN game[g].pend /\ game'[g].pend[x] = game[g].pend[x]
          /\ On(game'[g]) => On(game[g])
      BY <1>2, <2>3 DEF Others
    <3>2. /\ Owner[game[g].pend[x]] = x
          /\ On(game[g]) => /\ game[g].pend[x] \in online
                            /\ data[game[g].pend[x]].door = g
      BY <2>3, <3>1 DEF Ind, Told
    <3> QED  BY <2>0, <3>1, <3>2
  <2> QED
    BY <2>1, <2>2, <2>3
<1> QED
  BY <1>1, <1>2

LEMMA OthersSelf ==
  ASSUME NEW p, NEW r
  PROVE  Others(p, r, r)
BY DEF Others

\* Somebody takes a place in one game and has none in another that is on.
LEMMA ComeStep ==
  ASSUME Ind, NEW p \in People, NEW g \in Games,
         \A h \in Games : \A x \in People \ {p} :
           /\ x \in DOMAIN game'[h].reg =>
                x \in DOMAIN game[h].reg /\ (On(game'[h]) => On(game[h]))
           /\ x \in DOMAIN game'[h].pend =>
                x \in DOMAIN game[h].pend /\ (On(game'[h]) => On(game[h]))
           /\ x \in DOMAIN game'[h].watch => x \in DOMAIN game[h].watch,
         \A h \in Games \ {g} :
           /\ On(game'[h]) => p \notin DOMAIN game'[h].reg
           /\ p \notin DOMAIN game'[h].pend /\ p \notin DOMAIN game'[h].watch,
         p \notin DOMAIN game'[g].watch,
         p \notin DOMAIN game'[g].reg \/ p \notin DOMAIN game'[g].pend
  PROVE  Unshared'
<1> SUFFICES ASSUME NEW x \in People, NEW h \in Games, NEW k \in Games
    PROVE
    /\ On(game'[h]) /\ x \in DOMAIN game'[h].reg =>
         /\ On(game'[k]) /\ x \in DOMAIN game'[k].reg => h = k
         /\ x \notin DOMAIN game'[k].pend /\ x \notin DOMAIN game'[k].watch
    /\ x \in DOMAIN game'[h].pend =>
         /\ x \in DOMAIN game'[k].pend => h = k
         /\ On(game'[h]) => x \notin DOMAIN game'[k].watch
    /\ x \in DOMAIN game'[h].watch /\ x \in DOMAIN game'[k].watch => h = k
  BY DEF Unshared, On
<1>1. CASE x = p
  BY <1>1
<1>2. CASE x # p
  BY <1>2 DEF Ind, Unshared
<1> QED
  BY <1>1, <1>2

-----------------------------------------------------------------------------
(* Moving on *)

\* They have left the rail, and the door too but for one.
Onward(p, q, r, there) ==
  /\ q \in Entry /\ Alike(q, r) /\ q.reg = r.reg
  /\ DOMAIN q.watch = DOMAIN r.watch \ {p}
  /\ \A x \in DOMAIN q.watch : q.watch[x] = r.watch[x]
  /\ DOMAIN q.pend = IF there THEN DOMAIN r.pend ELSE DOMAIN r.pend \ {p}
  /\ \A x \in DOMAIN q.pend : q.pend[x] = r.pend[x]

LEMMA MovedOnFacts ==
  ASSUME TypeOK, NEW p, NEW g, NEW h \in Games
  PROVE  Onward(p, MovedOn(game, p, g)[h], game[h], h = g)
<1> DEFINE r == game[h]
           w == Without(r.watch, {p})
           d == IF h = g THEN r.pend ELSE Without(r.pend, {p})
<1>1. r \in Entry /\ r.watch \in Maps(Bound) /\ r.pend \in Maps(Bound)
  BY EntryType
<1>2. \A f \in Maps(Bound) :
        /\ Without(f, {p}) \in Maps(Bound)
        /\ DOMAIN Without(f, {p}) = DOMAIN f \ {p}
        /\ \A x \in DOMAIN f \ {p} : Without(f, {p})[x] = f[x]
  BY MapWithout
<1>3. /\ w \in Maps(Bound) /\ DOMAIN w = DOMAIN r.watch \ {p}
      /\ \A x \in DOMAIN w : w[x] = r.watch[x]
  BY <1>1, <1>2
<1>4. /\ d \in Maps(Bound)
      /\ DOMAIN d = IF h = g THEN DOMAIN r.pend ELSE DOMAIN r.pend \ {p}
      /\ \A x \in DOMAIN d : d[x] = r.pend[x]
  <2>1. CASE h = g
    BY <1>1, <2>1
  <2>2. CASE h # g
    BY <1>1, <1>2, <2>2
  <2> QED  BY <2>1, <2>2
<1>5. MovedOn(game, p, g)[h] = [r EXCEPT !.pend = d, !.watch = w]
  BY DEF MovedOn
<1> HIDE DEF r, w, d
<1>6. /\ [r EXCEPT !.pend = d, !.watch = w] \in Entry
      /\ Alike([r EXCEPT !.pend = d, !.watch = w], r)
      /\ [r EXCEPT !.pend = d, !.watch = w].reg = r.reg
      /\ [r EXCEPT !.pend = d, !.watch = w].pend = d
      /\ [r EXCEPT !.pend = d, !.watch = w].watch = w
  BY <1>1, <1>3, <1>4 DEF Entry, Alike
<1>7. Onward(p, [r EXCEPT !.pend = d, !.watch = w], r, h = g)
  BY <1>3, <1>4, <1>6 DEF Onward
<1> QED
  BY <1>5, <1>7 DEF r

LEMMA DoorTabsFacts ==
  ASSUME Ind, NEW s \in Tabs, NEW g \in Games
  PROVE  Owned(Owner[s], DoorTabs(Owner[s], g) \cup {s})
<1> DEFINE p == Owner[s]
<1>1. p \in People
  BY LobbyAssumption
<1> SUFFICES ASSUME ~OldLinks, NEW t \in Tabs, t \in DoorTabs(p, g)
    PROVE  Owner[t] = p
  BY DEF Owned
<1>2. PICK h \in Games : p \in DOMAIN game[h].pend /\ t = game[h].pend[p]
  BY DEF DoorTabs
<1> QED
  BY <1>1, <1>2, LobbyAssumption DEF Ind, Told

\* A person is bound in one game from one of their tabs, having given up the
\* doors and the rails of the others.
LEMMA MovedTold ==
  ASSUME Ind, TypeOK', NEW s \in Tabs, NEW g \in Games, UNCHANGED online,
         \A h \in Games \ {g} : game'[h] = MovedOn(game, Owner[s], g)[h],
         \A t \in Tabs \ (DoorTabs(Owner[s], g) \cup {s}) : data'[t] = data[t],
         \A h \in Games \ {g} : On(game[h]) => Owner[s] \notin DOMAIN game[h].reg,
         Others(Owner[s], game'[g], game[g]), Mine(Owner[s], g)
  PROVE  Told'
<1> DEFINE p == Owner[s]
           C == DoorTabs(p, g) \cup {s}
<1>1. p \in People
  BY LobbyAssumption
<1>2. Owned(p, C)
  BY DoorTabsFacts
<1>3. ASSUME ~OldLinks, NEW h \in Games \ {g}
      PROVE  Others(p, game'[h], game[h]) /\ Mine(p, h)
  <2> DEFINE q == game'[h]
             r == game[h]
  <2>1. /\ Alike(q, r) /\ q.reg = r.reg
        /\ DOMAIN q.watch = DOMAIN r.watch \ {p}
        /\ \A x \in DOMAIN q.watch : q.watch[x] = r.watch[x]
        /\ DOMAIN q.pend = DOMAIN r.pend \ {p}
        /\ \A x \in DOMAIN q.pend : q.pend[x] = r.pend[x]
    <3>1. q = MovedOn(game, p, g)[h] /\ h # g /\ h \in Games
      BY <1>3
    <3>2. Onward(p, q, r, h = g)
      BY <3>1, MovedOnFacts DEF Ind
    <3> QED  BY <3>1, <3>2 DEF Onward
  <2>2. On(q) <=> On(r)
    BY <2>1 DEF Alike, On
  <2>3. On(r) => p \notin DOMAIN r.reg
    OBVIOUS
  <2>4. p \in DOMAIN r.reg /\ r.reg[p].sock # None => Owner[r.reg[p].sock] = p
    BY <1>1, <1>3 DEF Ind, Told
  <2>5. Others(p, q, r)
    <3> HIDE DEF q, r, p
    <3> QED  BY <2>1, <2>2 DEF Others
  <2>6. Mine(p, h)
    <3> HIDE DEF p
    <3> QED  BY <2>1, <2>2, <2>3, <2>4 DEF Mine
  <2> QED
    BY <2>5, <2>6
<1>4. \A t \in Tabs \ C : data'[t] = data[t] /\ (t \in online => t \in online')
  OBVIOUS
<1>5. ~OldLinks => \A h \in Games : Others(p, game'[h], game[h]) /\ Mine(p, h)
  BY <1>3
<1> HIDE DEF C, p
<1> QED
  BY <1>1, <1>2, <1>4, <1>5, OwnStep

-----------------------------------------------------------------------------
(* A step of one person's in one game *)

DataType == [Tabs -> [game : Games \cup {None}, door : Games \cup {None}]]

\* What happens to those tabs leaves alone what they are bound to in that game.
Spared(C, p, h) ==
  ~OldLinks /\ On(game[h]) =>
    /\ p \in DOMAIN game[h].reg /\ game[h].reg[p].sock \in C \ {None} =>
         game[h].reg[p].sock \in online' /\ data'[game[h].reg[p].sock].game = h
    /\ p \in DOMAIN game[h].watch /\ game[h].watch[p] \in C \ {None} =>
         game[h].watch[p] \in online' /\ data'[game[h].watch[p]].game = h
    /\ p \in DOMAIN game[h].pend /\ game[h].pend[p] \in C \ {None} =>
         game[h].pend[p] \in online' /\ data'[game[h].pend[p]].door = h

\* Nothing happens to the other tabs.
Still(C) == \A s \in Tabs \ C : data'[s] = data[s] /\ (s \in online => s \in online')

LEMMA SparedMine ==
  ASSUME Ind, NEW p \in People, NEW h \in Games, game'[h] = game[h], NEW C, Still(C),
         Spared(C, p, h), ~OldLinks
  PROVE  Mine(p, h)
<1>1. online \subseteq Tabs
  BY DEF Ind, TypeOK
<1>2. /\ p \in DOMAIN game[h].reg /\ game[h].reg[p].sock # None =>
           /\ Owner[game[h].reg[p].sock] = p
           /\ On(game[h]) => game[h].reg[p].sock \in online /\ data[game[h].reg[p].sock].game = h
      /\ p \in DOMAIN game[h].watch /\ game[h].watch[p] # None =>
           /\ Owner[game[h].watch[p]] = p
           /\ On(game[h]) => game[h].watch[p] \in online /\ data[game[h].watch[p]].game = h
      /\ p \in DOMAIN game[h].pend /\ game[h].pend[p] # None =>
           /\ Owner[game[h].pend[p]] = p
           /\ On(game[h]) => game[h].pend[p] \in online /\ data[game[h].pend[p]].door = h
  BY DEF Ind, Told
<1> QED
  BY <1>1, <1>2 DEF Mine, Spared, Still

LEMMA SetOwnStep ==
  ASSUME Ind, NEW p \in People, NEW g \in Games, NEW q \in Entry, Set(g, q),
         data' \in DataType, online' \subseteq Tabs,
         NEW C, Owned(p, C), Still(C),
         \A h \in Games \ {g} : Spared(C, p, h),
         ~OldLinks => Others(p, q, game[g]) /\ Mine(p, g)
  PROVE  TypeOK' /\ Told'
<1>1. /\ game' \in [Games -> Entry] /\ game'[g] = q
      /\ \A h \in Games : h # g => game'[h] = game[h]
  BY SetFacts DEF Ind
<1>2. TypeOK'
  BY <1>1 DEF TypeOK, DataType
<1>3. ~OldLinks => \A h \in Games : Others(p, game'[h], game[h]) /\ Mine(p, h)
  BY <1>1, SparedMine, OthersSelf
<1>4. \A s \in Tabs \ C : data'[s] = data[s] /\ (s \in online => s \in online')
  BY DEF Still
<1> QED
  BY <1>2, <1>3, <1>4, OwnStep

LEMMA TameOwnStep ==
  ASSUME Ind, NEW p \in People, NEW g \in Games, NEW q \in Entry, Set(g, q),
         data' \in DataType, online' \subseteq Tabs,
         NEW C, Owned(p, C), Still(C),
         \A h \in Games \ {g} : Spared(C, p, h),
         ~OldLinks => Others(p, q, game[g]) /\ Mine(p, g),
         Tame(g, q, game[g])
  PROVE  Ind' /\ Books
BY SetOwnStep, SetTame DEF Ind

\* Somebody with a place in a game has none in another that is on.
LEMMA Alone ==
  ASSUME Ind, NEW p \in People, NEW g \in Games, NEW h \in Games \ {g},
         On(game[h]),
         \/ On(game[g]) /\ p \in DOMAIN game[g].reg
         \/ p \in DOMAIN game[g].watch
         \/ On(game[g]) /\ p \in DOMAIN game[g].pend
  PROVE  p \notin DOMAIN game[h].reg /\ p \notin DOMAIN game[h].pend /\ p \notin DOMAIN game[h].watch
BY DEF Ind, Unshared

LEMMA AloneSpared ==
  ASSUME Ind, NEW p \in People, NEW g \in Games, NEW C,
         \/ On(game[g]) /\ p \in DOMAIN game[g].reg
         \/ p \in DOMAIN game[g].watch
         \/ On(game[g]) /\ p \in DOMAIN game[g].pend
  PROVE  \A h \in Games \ {g} : Spared(C, p, h)
BY Alone DEF Spared

LEMMA OnePlaceHere ==
  ASSUME Ind, NEW p \in People, NEW g \in Games, On(game[g])
  PROVE  /\ p \in DOMAIN game[g].reg => p \notin DOMAIN game[g].pend /\ p \notin DOMAIN game[g].watch
         /\ p \in DOMAIN game[g].pend => p \notin DOMAIN game[g].watch
BY DEF Ind, Unshared

\* Where they are bound now, as Told has it.
LEMMA ToldHere ==
  ASSUME Ind, ~OldLinks, NEW p \in People, NEW g \in Games
  PROVE  /\ p \in DOMAIN game[g].reg /\ game[g].reg[p].sock # None =>
              /\ Owner[game[g].reg[p].sock] = p
              /\ On(game[g]) => game[g].reg[p].sock \in online /\ data[game[g].reg[p].sock].game = g
         /\ p \in DOMAIN game[g].watch /\ game[g].watch[p] # None =>
              /\ Owner[game[g].watch[p]] = p
              /\ On(game[g]) => game[g].watch[p] \in online /\ data[game[g].watch[p]].game = g
         /\ p \in DOMAIN game[g].pend /\ game[g].pend[p] # None =>
              /\ Owner[game[g].pend[p]] = p
              /\ On(game[g]) => game[g].pend[p] \in online /\ data[game[g].pend[p]].door = g
BY DEF Ind, Told

\* A tab of theirs takes over their seat.
LEMMA BoundStep ==
  ASSUME Ind, NEW s \in Tabs, NEW g \in Games, Owner[s] \in DOMAIN game[g].reg,
         Set(g, Bind(game[g], Owner[s], s)), s \in online', data'[s].game = g,
         data' \in DataType, online' \subseteq Tabs,
         NEW C, Owned(Owner[s], C), Still(C),
         \A h \in Games \ {g} : Spared(C, Owner[s], h)
  PROVE  Ind' /\ Books
<1> DEFINE p == Owner[s]
           r == game[g]
           q == Bind(r, p, s)
<1>1. p \in People /\ r \in Entry
  BY LobbyAssumption, EntryType DEF Ind
<1>2. q \in Entry /\ Alike(q, r) /\ q.reg = Put(r.reg, p, At(s)) /\ q.pend = r.pend /\ q.watch = r.watch
  BY <1>1, BindFacts
<1>3. /\ DOMAIN Put(r.reg, p, At(s)) = DOMAIN r.reg
      /\ \A x \in DOMAIN r.reg \ {p} : Put(r.reg, p, At(s))[x] = r.reg[x]
      /\ Put(r.reg, p, At(s))[p].sock = s
  BY DEF Put, At
<1>4. Set(g, q) /\ game'[g] = q
  BY <1>2, SetFacts DEF Ind
<1> HIDE DEF q
<1>5. Calm(q, r) /\ (On(q) <=> On(r))
  BY <1>2, <1>3 DEF Calm, Alike, On
<1>6. Others(p, q, r)
  BY <1>2, <1>3, <1>5 DEF Others
<1>7. ~OldLinks => Mine(p, g)
  <2> SUFFICES ASSUME ~OldLinks PROVE Mine(p, g)
    OBVIOUS
  <2>1. On(r) => p \notin DOMAIN r.pend /\ p \notin DOMAIN r.watch
    BY <1>1, OnePlaceHere
  <2>2. /\ p \in DOMAIN r.watch /\ r.watch[p] # None => Owner[r.watch[p]] = p
        /\ p \in DOMAIN r.pend /\ r.pend[p] # None => Owner[r.pend[p]] = p
    BY <1>1, ToldHere
  <2>3. p = Owner[s]
    OBVIOUS
  <2> HIDE DEF p, r
  <2> QED
    BY <1>2, <1>3, <1>4, <1>5, <2>1, <2>2, <2>3 DEF Mine
<1>8. Tame(g, q, r)
  BY <1>5, CalmTame
<1> QED
  BY <1>1, <1>2, <1>4, <1>6, <1>7, <1>8, TameOwnStep

\* Or their place on the rail.
LEMMA RailStep ==
  ASSUME Ind, NEW s \in Tabs, NEW g \in Games, Owner[s] \in DOMAIN game[g].watch,
         Set(g, [game[g] EXCEPT !.watch[Owner[s]] = s]), s \in online', data'[s].game = g,
         data' \in DataType, online' \subseteq Tabs,
         NEW C, Owned(Owner[s], C), Still(C),
         \A h \in Games \ {g} : Spared(C, Owner[s], h)
  PROVE  Ind' /\ Books
<1> DEFINE p == Owner[s]
           r == game[g]
           w == [r.watch EXCEPT ![p] = s]
           q == [r EXCEPT !.watch[p] = s]
<1>1. p \in People /\ r \in Entry /\ r.watch \in Maps(Bound) /\ s \in Bound
  BY LobbyAssumption, EntryType DEF Ind, Bound
<1>3. /\ w \in Maps(Bound) /\ DOMAIN w = DOMAIN r.watch
      /\ \A x \in DOMAIN r.watch : w[x] = IF x = p THEN s ELSE r.watch[x]
  BY <1>1, MapExcept
<1>2. q \in Entry /\ Alike(q, r) /\ q.reg = r.reg /\ q.pend = r.pend /\ q.watch = w
  BY <1>1, <1>3 DEF Entry, Alike
<1>4. Set(g, q) /\ game'[g] = q
  BY <1>2, SetFacts DEF Ind
<1> HIDE DEF q, w
<1>5. Calm(q, r) /\ (On(q) <=> On(r))
  BY <1>2, <1>3 DEF Calm, Alike, On
<1>6. Others(p, q, r)
  BY <1>2, <1>3, <1>5 DEF Others
<1>7. ~OldLinks => Mine(p, g)
  <2> SUFFICES ASSUME ~OldLinks PROVE Mine(p, g)
    OBVIOUS
  <2>1. On(r) => p \notin DOMAIN r.pend /\ p \notin DOMAIN r.reg
    BY <1>1, OnePlaceHere
  <2>2. /\ p \in DOMAIN r.reg /\ r.reg[p].sock # None => Owner[r.reg[p].sock] = p
        /\ p \in DOMAIN r.pend /\ r.pend[p] # None => Owner[r.pend[p]] = p
    BY <1>1, ToldHere
  <2>3. p = Owner[s]
    OBVIOUS
  <2> HIDE DEF p, r
  <2> QED
    BY <1>2, <1>3, <1>4, <1>5, <2>1, <2>2, <2>3 DEF Mine
<1>8. Tame(g, q, r)
  BY <1>5, CalmTame
<1> QED
  BY <1>1, <1>2, <1>4, <1>6, <1>7, <1>8, TameOwnStep

\* Or their place at a door.
LEMMA DoorStep ==
  ASSUME Ind, NEW s \in Tabs, NEW g \in Games, Owner[s] \in DOMAIN game[g].pend,
         Set(g, [game[g] EXCEPT !.pend[Owner[s]] = s]), s \in online', data'[s].door = g,
         data' \in DataType, online' \subseteq Tabs,
         NEW C, Owned(Owner[s], C), Still(C),
         \A h \in Games \ {g} : Spared(C, Owner[s], h)
  PROVE  Ind' /\ Books
<1> DEFINE p == Owner[s]
           r == game[g]
           w == [r.pend EXCEPT ![p] = s]
           q == [r EXCEPT !.pend[p] = s]
<1>1. p \in People /\ r \in Entry /\ r.pend \in Maps(Bound) /\ s \in Bound
  BY LobbyAssumption, EntryType DEF Ind, Bound
<1>3. /\ w \in Maps(Bound) /\ DOMAIN w = DOMAIN r.pend
      /\ \A x \in DOMAIN r.pend : w[x] = IF x = p THEN s ELSE r.pend[x]
  BY <1>1, MapExcept
<1>2. q \in Entry /\ Alike(q, r) /\ q.reg = r.reg /\ q.watch = r.watch /\ q.pend = w
  BY <1>1, <1>3 DEF Entry, Alike
<1>4. Set(g, q) /\ game'[g] = q
  BY <1>2, SetFacts DEF Ind
<1> HIDE DEF q, w
<1>5. Calm(q, r) /\ (On(q) <=> On(r))
  BY <1>2, <1>3 DEF Calm, Alike, On
<1>6. Others(p, q, r)
  BY <1>2, <1>3, <1>5 DEF Others
<1>7. ~OldLinks => Mine(p, g)
  <2> SUFFICES ASSUME ~OldLinks PROVE Mine(p, g)
    OBVIOUS
  <2>1. On(r) => p \notin DOMAIN r.watch /\ p \notin DOMAIN r.reg
    BY <1>1, OnePlaceHere
  <2>2. /\ p \in DOMAIN r.reg /\ r.reg[p].sock # None => Owner[r.reg[p].sock] = p
        /\ p \in DOMAIN r.watch /\ r.watch[p] # None => Owner[r.watch[p]] = p
    BY <1>1, ToldHere
  <2>3. p = Owner[s]
    OBVIOUS
  <2> HIDE DEF p, r
  <2> QED
    BY <1>2, <1>3, <1>4, <1>5, <2>1, <2>2, <2>3 DEF Mine
<1>8. Tame(g, q, r)
  BY <1>5, CalmTame
<1> QED
  BY <1>1, <1>2, <1>4, <1>6, <1>7, <1>8, TameOwnStep

-----------------------------------------------------------------------------
(* Coming back *)

LEMMA OwnedTab ==
  ASSUME NEW s
  PROVE  Owned(Owner[s], {s})
BY DEF Owned

LEMMA GameSet ==
  ASSUME TypeOK, NEW s \in Tabs, NEW g \in Games \cup {None}, data' = [data EXCEPT ![s].game = g]
  PROVE  /\ data' \in DataType /\ data'[s].game = g /\ data'[s].door = data[s].door
         /\ \A t \in Tabs \ {s} : data'[t] = data[t]
<1>1. data[s] \in [game : Games \cup {None}, door : Games \cup {None}]
  BY DEF TypeOK
<1>2. /\ [data[s] EXCEPT !.game = g] \in [game : Games \cup {None}, door : Games \cup {None}]
      /\ [data[s] EXCEPT !.game = g].game = g /\ [data[s] EXCEPT !.game = g].door = data[s].door
  BY <1>1
<1>3. data' = [data EXCEPT ![s] = [data[s] EXCEPT !.game = g]]
  BY DEF TypeOK
<1> QED
  BY <1>2, <1>3 DEF TypeOK, DataType

LEMMA DoorSet ==
  ASSUME TypeOK, NEW s \in Tabs, NEW g \in Games \cup {None}, data' = [data EXCEPT ![s].door = g]
  PROVE  /\ data' \in DataType /\ data'[s].door = g /\ data'[s].game = data[s].game
         /\ \A t \in Tabs \ {s} : data'[t] = data[t]
<1>1. data[s] \in [game : Games \cup {None}, door : Games \cup {None}]
  BY DEF TypeOK
<1>2. /\ [data[s] EXCEPT !.door = g] \in [game : Games \cup {None}, door : Games \cup {None}]
      /\ [data[s] EXCEPT !.door = g].door = g /\ [data[s] EXCEPT !.door = g].game = data[s].game
  BY <1>1
<1>3. data' = [data EXCEPT ![s] = [data[s] EXCEPT !.door = g]]
  BY DEF TypeOK
<1> QED
  BY <1>2, <1>3 DEF TypeOK, DataType

LEMMA IndRejoin ==
  ASSUME Ind, NEW s \in Tabs, NEW g \in Games, Rejoin(s, g)
  PROVE  Ind' /\ Books
<1> DEFINE p == Owner[s]
<1>1. /\ s \in online' /\ p \in DOMAIN game[g].reg /\ Set(g, Bind(game[g], p, s))
      /\ online' = online /\ online' \subseteq Tabs /\ p \in People
  BY LobbyAssumption DEF Rejoin, Here, Ind, TypeOK
<1>2. /\ data' \in DataType /\ data'[s].game = g /\ Still({s})
  BY <1>1, GameSet DEF Rejoin, Ind, Still
<1>3. \A h \in Games \ {g} : Spared({s}, p, h)
  <2>1. CASE OldLinks
    BY <2>1 DEF Spared
  <2>2. CASE Live(g)
    <3>1. On(game[g])
      BY <2>2 DEF Live, On
    <3> QED  BY <1>1, <3>1, AloneSpared
  <2> QED
    BY <2>1, <2>2 DEF Rejoin
<1>4. Owned(p, {s})
  BY OwnedTab
<1> QED
  BY <1>1, <1>2, <1>3, <1>4, BoundStep

\* A tab that has just connected is bound nowhere.
LEMMA NewTab ==
  ASSUME Ind, NEW s \in Tabs, s \notin online
  PROVE  \A h \in Games : Spared({s}, Owner[s], h)
<1> SUFFICES ASSUME NEW h \in Games, ~OldLinks, On(game[h])
    PROVE  Spared({s}, Owner[s], h)
  BY DEF Spared
<1>1. Owner[s] \in People /\ s # None
  BY LobbyAssumption
<1> QED
  BY <1>1, ToldHere DEF Spared

LEMMA IndConnect ==
  ASSUME Ind, NEW s \in Tabs, Connect(s)
  PROVE  Ind' /\ Books
<1> DEFINE p == Owner[s]
<1>1. /\ s \notin online /\ online' = online \cup {s} /\ online' \subseteq Tabs /\ s \in online'
      /\ p \in People
  BY LobbyAssumption DEF Connect, Here, Ind, TypeOK
<1>2. Owned(p, {s}) /\ \A h \in Games : Spared({s}, p, h)
  BY <1>1, NewTab, OwnedTab
<1>3. ASSUME NEW g \in Games, p \in DOMAIN game[g].reg, Set(g, Bind(game[g], p, s)),
             data' = [data EXCEPT ![s].game = g]
      PROVE  Ind' /\ Books
  <2>1. data' \in DataType /\ data'[s].game = g /\ Still({s})
    BY <1>1, <1>3, GameSet DEF Ind, Still
  <2> QED
    BY <1>1, <1>2, <1>3, <2>1, BoundStep
<1>4. ASSUME NEW g \in Games, p \in DOMAIN game[g].pend, Set(g, [game[g] EXCEPT !.pend[p] = s]),
             data' = [data EXCEPT ![s].door = g]
      PROVE  Ind' /\ Books
  <2>1. data' \in DataType /\ data'[s].door = g /\ Still({s})
    BY <1>1, <1>4, DoorSet DEF Ind, Still
  <2> QED
    BY <1>1, <1>2, <1>4, <2>1, DoorStep
<1>5. ASSUME NEW g \in Games, p \in DOMAIN game[g].watch, Set(g, [game[g] EXCEPT !.watch[p] = s]),
             data' = [data EXCEPT ![s].game = g]
      PROVE  Ind' /\ Books
  <2>1. data' \in DataType /\ data'[s].game = g /\ Still({s})
    BY <1>1, <1>5, GameSet DEF Ind, Still
  <2> QED
    BY <1>1, <1>2, <1>5, <2>1, RailStep
<1>6. ASSUME UNCHANGED <<game, data>>
      PROVE  Ind' /\ Books
  <2>1. \A h \in Games : Tame(h, game'[h], game[h]) /\ Loose(game'[h], game[h])
    BY <1>6, TameSelf, LooseSelf
  <2>2. TypeOK' /\ Heard({})
    BY <1>1, <1>6 DEF Ind, TypeOK, Heard
  <2>3. \A t \in Tabs \ {} : data'[t] = data[t] /\ (t \in online => t \in online')
    BY <1>1, <1>6
  <2>4. Told'
    BY <2>1, <2>2, <2>3, LooseStep
  <2> QED
    BY <2>1, <2>2, <2>4, TameStep DEF Ind
<1> QED
  BY <1>3, <1>4, <1>5, <1>6 DEF Connect, MemberOf, WaitingOn, RailOf

LEMMA IndResume ==
  ASSUME Ind, NEW s \in Tabs, Resume(s)
  PROVE  Ind' /\ Books
<1> DEFINE p == Owner[s]
           g == data[s].game
<1>1. /\ s \in online' /\ online' \subseteq Tabs /\ data' = data /\ data' \in DataType
      /\ g \in Games /\ online' = online
  BY DEF Resume, Here, Ind, TypeOK, DataType
<1>2. data'[s].game = g
  BY <1>1
<1>3. Owned(p, {}) /\ Still({}) /\ \A h \in Games : Spared({}, p, h)
  BY <1>1 DEF Owned, Still, Spared
<1>4. \/ p \in DOMAIN game[g].reg /\ Set(g, Bind(game[g], p, s))
      \/ p \in DOMAIN game[g].watch /\ Set(g, [game[g] EXCEPT !.watch[p] = s])
  BY DEF Resume
<1> HIDE DEF g
<1>5. CASE p \in DOMAIN game[g].reg /\ Set(g, Bind(game[g], p, s))
  BY <1>1, <1>2, <1>3, <1>5, BoundStep
<1>6. CASE p \in DOMAIN game[g].watch /\ Set(g, [game[g] EXCEPT !.watch[p] = s])
  BY <1>1, <1>2, <1>3, <1>6, RailStep
<1> QED
  BY <1>4, <1>5, <1>6

-----------------------------------------------------------------------------
(* Leaving a rail or a door *)

LEMMA IndUnwatch ==
  ASSUME Ind, NEW p \in People, NEW g \in Games, Unwatch(p, g), UNCHANGED online
  PROVE  Ind' /\ Books
<1> DEFINE r == game[g]
           w == Without(r.watch, {p})
           q == [r EXCEPT !.watch = w]
           C == {r.watch[p]}
<1>1. /\ p \in DOMAIN r.watch /\ r \in Entry /\ r.watch \in Maps(Bound) /\ r.watch[p] \in Bound
      /\ online' \subseteq Tabs
  BY EntryType DEF Ind, TypeOK, Unwatch
<1>2. /\ w \in Maps(Bound) /\ DOMAIN w = DOMAIN r.watch \ {p}
      /\ \A x \in DOMAIN w : w[x] = r.watch[x]
  BY <1>1, BoundWithout
<1>3. q \in Entry /\ Alike(q, r) /\ q.reg = r.reg /\ q.pend = r.pend /\ q.watch = w
  BY <1>1, <1>2 DEF Entry, Alike
<1>4. Set(g, q)
  BY DEF Unwatch, Set
<1>5. game'[g] = q
  BY <1>3, <1>4, SetFacts DEF Ind
<1>6. data' = LeaveGames(data, C)
  BY DEF Unwatch
<1>7. data' \in DataType /\ Still(C)
  BY <1>6, LeaveGamesFacts DEF Ind, Still, DataType
<1>8. Owned(p, C)
  BY <1>1, ToldHere, LobbyAssumption DEF Owned
<1>9. \A h \in Games \ {g} : Spared(C, p, h)
  BY <1>1, AloneSpared
<1> HIDE DEF w, q
<1>10. Calm(q, r) /\ Others(p, q, r) /\ (On(q) <=> On(r))
  BY <1>2, <1>3 DEF Calm, Others, Alike, On
<1>11. ~OldLinks => Mine(p, g)
  <2> SUFFICES ASSUME ~OldLinks PROVE Mine(p, g)
    OBVIOUS
  <2>1. On(r) => p \notin DOMAIN r.pend /\ p \notin DOMAIN r.reg
    BY <1>1, OnePlaceHere
  <2>2. /\ p \in DOMAIN r.reg /\ r.reg[p].sock # None => Owner[r.reg[p].sock] = p
        /\ p \in DOMAIN r.pend /\ r.pend[p] # None => Owner[r.pend[p]] = p
    BY ToldHere
  <2> HIDE DEF r
  <2> QED
    BY <1>2, <1>3, <1>5, <1>10, <2>1, <2>2 DEF Mine
<1>12. Tame(g, q, r)
  BY <1>10, CalmTame
<1> QED
  BY <1>1, <1>3, <1>4, <1>7, <1>8, <1>9, <1>10, <1>11, <1>12, TameOwnStep

LEMMA IndStopWatching ==
  ASSUME Ind, NEW s \in Tabs, StopWatching(s)
  PROVE  Ind' /\ Books
<1>1. /\ Owner[s] \in People /\ data[s].game \in Games
      /\ Unwatch(Owner[s], data[s].game) /\ UNCHANGED online
  BY LobbyAssumption DEF StopWatching, Ind, TypeOK
<1> QED
  BY <1>1, IndUnwatch

\* A request is taken back or turned down; the tabs forget the door at most.
LEMMA DoorClosed ==
  ASSUME Ind, NEW p \in People, NEW g \in Games, p \in DOMAIN game[g].pend,
         Set(g, [game[g] EXCEPT !.pend = Without(@, {p})]), UNCHANGED online,
         data' \in DataType, NEW C, Owned(p, C), Still(C),
         \A t \in Tabs : data'[t].game = data[t].game
  PROVE  Ind' /\ Books
<1> DEFINE r == game[g]
           w == Without(r.pend, {p})
           q == [r EXCEPT !.pend = Without(@, {p})]
<1>1. /\ r \in Entry /\ r.pend \in Maps(Bound) /\ online' \subseteq Tabs /\ online \subseteq Tabs
  BY EntryType DEF Ind, TypeOK
<1>2. /\ w \in Maps(Bound) /\ DOMAIN w = DOMAIN r.pend \ {p}
      /\ \A x \in DOMAIN w : w[x] = r.pend[x]
  BY <1>1, BoundWithout
<1>3. q \in Entry /\ Alike(q, r) /\ q.reg = r.reg /\ q.watch = r.watch /\ q.pend = w
  BY <1>1, <1>2 DEF Entry, Alike
<1>4. game'[g] = q
  BY <1>3, SetFacts DEF Ind
<1>5. \A h \in Games \ {g} : Spared(C, p, h)
  <2> SUFFICES ASSUME NEW h \in Games \ {g}, ~OldLinks, On(game[h])
      PROVE  Spared(C, p, h)
    BY DEF Spared
  <2>1. p \notin DOMAIN game[h].pend
    BY DEF Ind, Unshared
  <2>2. \A t \in C : t # None => t \in Tabs \/ t \notin online
    BY <1>1
  <2>3. /\ p \in DOMAIN game[h].reg => game[h].reg[p].sock \in Bound
        /\ p \in DOMAIN game[h].watch => game[h].watch[p] \in Bound
    BY EntryType DEF Ind
  <2>4. ASSUME p \in DOMAIN game[h].reg, game[h].reg[p].sock \in C \ {None}
        PROVE  game[h].reg[p].sock \in online' /\ data'[game[h].reg[p].sock].game = h
    <3>1. game[h].reg[p].sock \in Tabs /\ game[h].reg[p].sock # None
      BY <2>3, <2>4, LobbyAssumption DEF Bound
    <3>2. game[h].reg[p].sock \in online /\ data[game[h].reg[p].sock].game = h
      BY <2>4, <3>1, ToldHere
    <3> QED  BY <1>1, <3>1, <3>2
  <2>5. ASSUME p \in DOMAIN game[h].watch, game[h].watch[p] \in C \ {None}
        PROVE  game[h].watch[p] \in online' /\ data'[game[h].watch[p]].game = h
    <3>1. game[h].watch[p] \in Tabs /\ game[h].watch[p] # None
      BY <2>3, <2>5, LobbyAssumption DEF Bound
    <3>2. game[h].watch[p] \in online /\ data[game[h].watch[p]].game = h
      BY <2>5, <3>1, ToldHere
    <3> QED  BY <1>1, <3>1, <3>2
  <2> QED
    BY <2>1, <2>4, <2>5 DEF Spared
<1> HIDE DEF w, q
<1>6. Calm(q, r) /\ Others(p, q, r) /\ (On(q) <=> On(r))
  BY <1>2, <1>3 DEF Calm, Others, Alike, On
<1>7. ~OldLinks => Mine(p, g)
  <2> SUFFICES ASSUME ~OldLinks PROVE Mine(p, g)
    OBVIOUS
  <2>2. /\ p \in DOMAIN r.reg /\ r.reg[p].sock # None =>
             /\ Owner[r.reg[p].sock] = p
             /\ On(r) => r.reg[p].sock \in online /\ data[r.reg[p].sock].game = g
        /\ p \in DOMAIN r.watch /\ r.watch[p] # None =>
             /\ Owner[r.watch[p]] = p
             /\ On(r) => r.watch[p] \in online /\ data[r.watch[p]].game = g
    BY ToldHere
  <2> HIDE DEF r
  <2> QED
    BY <1>1, <1>2, <1>3, <1>4, <1>6, <2>2 DEF Mine
<1>8. Tame(g, q, r)
  BY <1>6, CalmTame
<1> QED
  BY <1>1, <1>3, <1>5, <1>6, <1>7, <1>8, TameOwnStep DEF q

LEMMA IndWithdraw ==
  ASSUME Ind, NEW s \in Tabs, Withdraw(s)
  PROVE  Ind' /\ Books
<1> DEFINE g == data[s].door
<1>1. /\ g \in Games /\ Owner[s] \in People /\ Owner[s] \in DOMAIN game[g].pend
      /\ UNCHANGED online /\ Set(g, [game[g] EXCEPT !.pend = Without(@, {Owner[s]})])
  BY LobbyAssumption DEF Withdraw, Ind, TypeOK, Set
<1>2. /\ data' \in DataType /\ Still({s}) /\ \A t \in Tabs : data'[t].game = data[t].game
  BY <1>1, DoorSet DEF Withdraw, Ind, Still
<1> QED
  BY <1>1, <1>2, OwnedTab, DoorClosed

LEMMA IndTurnedDown ==
  ASSUME Ind, NEW q \in People, NEW g \in Games, q \in DOMAIN game[g].pend, UNCHANGED online,
         Set(g, [game[g] EXCEPT !.pend = Without(@, {q})]),
         data' = LeaveDoors(data, {game[g].pend[q]})
  PROVE  Ind' /\ Books
<1>1. data' \in DataType /\ Still({game[g].pend[q]}) /\ \A t \in Tabs : data'[t].game = data[t].game
  BY LeaveDoorsFacts DEF Ind, Still, DataType
<1>2. Owned(q, {game[g].pend[q]})
  BY ToldHere, LobbyAssumption DEF Owned
<1> QED
  BY <1>1, <1>2, DoorClosed

LEMMA IndDecline ==
  ASSUME Ind, NEW s \in Tabs, NEW q \in People, Decline(s, q)
  PROVE  Ind' /\ Books
<1> DEFINE g == data[s].game
<1>1. /\ g \in Games /\ q \in DOMAIN game[g].pend /\ UNCHANGED online
      /\ Set(g, [game[g] EXCEPT !.pend = Without(@, {q})])
      /\ data' = LeaveDoors(data, {game[g].pend[q]})
  BY DEF Decline, Hosts, Ind, TypeOK, Set
<1> QED
  BY <1>1, IndTurnedDown

-----------------------------------------------------------------------------
(* Leaving a game *)

\* Somebody with a place in a game gives it up, and nobody else is touched.
LEMMA GoneFromStep ==
  ASSUME Ind, NEW p \in People, NEW g \in Games, NEW q \in Entry, Set(g, q), UNCHANGED online,
         On(game[g]), p \in DOMAIN game[g].reg,
         NEW C, Owned(p, C), data' = LeaveGames(data, C),
         Tame(g, q, game[g]), Loose(q, game[g]), p \notin DOMAIN q.reg
  PROVE  Ind' /\ Books
<1>1. /\ data' \in DataType /\ Still(C) /\ online' \subseteq Tabs
  BY LeaveGamesFacts DEF Ind, TypeOK, DataType, Still
<1>2. \A h \in Games \ {g} : Spared(C, p, h)
  BY AloneSpared
<1>3. Others(p, q, game[g])
  BY DEF Others, Loose
<1>4. game'[g] = q
  BY SetFacts DEF Ind
<1>5. Mine(p, g)
  <2>1. p \notin DOMAIN game[g].pend /\ p \notin DOMAIN game[g].watch
    BY OnePlaceHere
  <2>2. p \notin DOMAIN q.pend /\ p \notin DOMAIN q.watch
    BY <2>1 DEF Tame, Fewer
  <2> QED
    BY <1>4, <2>2 DEF Mine
<1> QED
  BY <1>1, <1>2, <1>3, <1>5, TameOwnStep

LEMMA IndUnregister ==
  ASSUME Ind, NEW s \in Tabs, Unregister(s)
  PROVE  Ind' /\ Books
<1> DEFINE g == data[s].game
           p == Owner[s]
           w == Without(game[g].reg, {p})
           r == [game[g] EXCEPT !.reg = Without(@, {p})]
<1>1. /\ g \in Games /\ p \in People /\ game[g].st = "registering" /\ p \in DOMAIN game[g].reg
      /\ UNCHANGED online
  BY LobbyAssumption DEF Unregister, Ind, TypeOK
<1>2. game[g] \in Entry /\ game[g].reg \in Maps(Rows)
  BY <1>1, EntryType DEF Ind
<1>3. /\ w \in Maps(Rows) /\ DOMAIN w = DOMAIN game[g].reg \ {p}
      /\ \A x \in DOMAIN w : w[x] = game[g].reg[x]
  <2>1. \A f \in Maps(Rows) : /\ Without(f, {p}) \in Maps(Rows)
                              /\ DOMAIN Without(f, {p}) = DOMAIN f \ {p}
                              /\ \A x \in DOMAIN f \ {p} : Without(f, {p})[x] = f[x]
    BY MapWithout
  <2> QED  BY <1>2, <2>1
<1>4. /\ r \in Entry /\ Alike(r, game[g]) /\ r.reg = w
      /\ r.pend = game[g].pend /\ r.watch = game[g].watch
  BY <1>2, <1>3 DEF Entry, Alike
<1>5. \/ Remove(g, r)
      \/ /\ \E q \in (IF p = r.host THEN Passed(r) ELSE {r}) : Set(g, q)
         /\ data' = LeaveGames(data, {s})
  BY DEF Unregister
<1>6. On(game[g]) /\ Exists(g)
  BY <1>1 DEF On, Exists
<1>7. Owned(p, {s})
  BY OwnedTab
<1> HIDE DEF r, w, g
<1>8. Tame(g, r, game[g]) /\ Loose(r, game[g])
  BY <1>1, <1>3, <1>4 DEF Tame, Fewer, Turns, Fair, Loose, Alike, On
<1>9. CASE Remove(g, r)
  BY <1>1, <1>4, <1>6, <1>9, RemoveStep DEF Alike
<1>10. ASSUME NEW q \in Passed(r) \cup {r}, Set(g, q), data' = LeaveGames(data, {s})
       PROVE  Ind' /\ Books
  <2>1. q \in Entry /\ Ends(q, r)
    <3>1. CASE q = r
      BY <1>4, <3>1 DEF Ends
    <3>2. CASE q \in Passed(r)
      BY <1>4, <3>2, TransferHostFacts
    <3> QED  BY <3>1, <3>2
  <2>2. Tame(g, q, game[g])
    BY <1>8, <2>1, EndsTame, TameTwice
  <2>3. Loose(q, game[g]) /\ p \notin DOMAIN q.reg
    BY <1>3, <1>4, <1>8, <2>1, EndsLoose DEF Ends, Loose
  <2> QED
    BY <1>1, <1>6, <1>7, <1>10, <2>1, <2>2, <2>3, GoneFromStep
<1> QED
  BY <1>5, <1>9, <1>10

LEMMA IndLeave ==
  ASSUME Ind, NEW s \in Tabs, Leave(s)
  PROVE  Ind' /\ Books
<1> DEFINE g == data[s].game
           p == Owner[s]
           r == game[g]
           u == Unbind(game[g], p, s)
           q == [Unbind(game[g], p, s) EXCEPT !.reg[p].left = TRUE]
<1>1. /\ g \in Games /\ p \in People /\ UNCHANGED online /\ s \in Tabs /\ s \in online
  BY LobbyAssumption DEF Leave, Here, Ind, TypeOK
<1>2. CASE Unwatch(p, g)
  BY <1>1, <1>2, IndUnwatch
<1>3. CASE p \in DOMAIN game[g].reg /\ Set(g, q) /\ data' = LeaveGames(data, {s})
  <2>1. r \in Entry /\ online' \subseteq Tabs /\ data[s].game = g
    BY <1>1, EntryType DEF Ind, TypeOK
  <2>2. /\ u \in Entry /\ Alike(u, r) /\ u.pend = r.pend /\ u.watch = r.watch
        /\ DOMAIN u.reg = DOMAIN r.reg
        /\ \A x \in DOMAIN r.reg : u.reg[x] = r.reg[x] \/ u.reg[x].sock = None
        /\ p \in DOMAIN r.reg => u.reg[p].sock # s
    BY <1>1, <2>1, UnbindFacts
  <2>3. q = [u EXCEPT !.reg[p].left = TRUE]
    OBVIOUS
  <2> DEFINE w == [u.reg EXCEPT ![p] = [u.reg[p] EXCEPT !.left = TRUE]]
  <2> HIDE DEF u, q, r, g
  <2>4. u.reg \in Maps(Rows) /\ p \in DOMAIN u.reg
    BY <1>3, <2>2 DEF Entry, r
  <2>5. u.reg[p] \in Rows
    BY <2>4, MapType
  <2>6. [u.reg[p] EXCEPT !.left = TRUE] \in Rows /\ [u.reg[p] EXCEPT !.left = TRUE].sock = u.reg[p].sock
    BY <2>5 DEF Rows
  <2>7. /\ w \in Maps(Rows) /\ DOMAIN w = DOMAIN u.reg
        /\ \A x \in DOMAIN u.reg : w[x] = IF x = p THEN [u.reg[p] EXCEPT !.left = TRUE] ELSE u.reg[x]
    BY <2>4, <2>6, MapExcept
  <2>8. q = [u EXCEPT !.reg = w]
    BY <2>2, <2>3, <2>4 DEF Entry, Maps
  <2> HIDE DEF w
  <2>9. /\ q \in Entry /\ Alike(q, r) /\ q.reg = w /\ q.pend = r.pend /\ q.watch = r.watch
    BY <2>2, <2>7, <2>8 DEF Entry, Alike
  <2>10. game'[g] = q
    BY <1>1, <1>3, <2>9, SetFacts DEF Ind
  <2>11. Calm(q, r) /\ (On(q) <=> On(r)) /\ Loose(q, r)
    <3>1. \A x \in DOMAIN u.reg : w[x].sock = u.reg[x].sock
      BY <2>6, <2>7
    <3>2. \A x \in DOMAIN q.reg : q.reg[x].sock # None =>
            x \in DOMAIN r.reg /\ q.reg[x].sock = r.reg[x].sock
      BY <2>2, <2>7, <2>9, <3>1
    <3>3. Calm(q, r) /\ (On(q) <=> On(r))
      BY <2>2, <2>7, <2>9 DEF Calm, Alike, On
    <3> QED
      BY <2>9, <3>2, <3>3 DEF Loose
  <2>12. Tame(g, q, r) /\ Others(p, q, r)
    BY <2>11, CalmTame DEF Loose, Others
  <2>13. /\ data' \in DataType /\ Still({s}) /\ \A t \in Tabs : data'[t].door = data[t].door
    BY <1>1, <1>3, LeaveGamesFacts DEF Ind, DataType, Still
  <2>14. \A h \in Games \ {g} : Spared({s}, p, h)
    <3> SUFFICES ASSUME NEW h \in Games \ {g}, ~OldLinks, On(game[h])
        PROVE  Spared({s}, p, h)
      BY DEF Spared
    <3>1. /\ p \in DOMAIN game[h].reg => game[h].reg[p].sock # s
          /\ p \in DOMAIN game[h].watch => game[h].watch[p] # s
      BY <1>1, <2>1, ToldHere, LobbyAssumption
    <3>2. p \in DOMAIN game[h].pend /\ game[h].pend[p] = s => data[s].door = h
      BY <1>1, ToldHere, LobbyAssumption
    <3> QED  BY <1>1, <2>13, <3>1, <3>2 DEF Spared
  <2>15. ~OldLinks => Mine(p, g)
    <3> SUFFICES ASSUME ~OldLinks PROVE Mine(p, g)
      OBVIOUS
    <3>1. On(r) => p \notin DOMAIN r.pend /\ p \notin DOMAIN r.watch
      BY <1>1, <1>3, OnePlaceHere DEF r
    <3>2. /\ p \in DOMAIN r.watch /\ r.watch[p] # None => Owner[r.watch[p]] = p
          /\ p \in DOMAIN r.pend /\ r.pend[p] # None => Owner[r.pend[p]] = p
          /\ p \in DOMAIN r.reg /\ r.reg[p].sock # None =>
               /\ Owner[r.reg[p].sock] = p
               /\ On(r) => r.reg[p].sock \in online /\ data[r.reg[p].sock].game = g
      BY <1>1, ToldHere DEF r
    <3>3. q.reg[p].sock # s /\ (q.reg[p].sock # None => q.reg[p].sock = r.reg[p].sock)
      BY <2>2, <2>4, <2>6, <2>7, <2>9
    <3>4. On(q) /\ q.reg[p].sock # None => q.reg[p].sock \in online' /\ data'[q.reg[p].sock].game = g
      BY <1>1, <2>1, <2>2, <2>4, <2>11, <2>13, <3>2, <3>3 DEF Still
    <3> QED
      BY <2>2, <2>4, <2>9, <2>10, <2>11, <3>1, <3>2, <3>3, <3>4 DEF Mine
  <2> QED
    BY <1>1, <1>3, <2>1, <2>9, <2>12, <2>13, <2>14, <2>15, OwnedTab, TameOwnStep DEF r
<1> QED
  BY <1>2, <1>3 DEF Leave

LEMMA IndRemovePlayer ==
  ASSUME Ind, NEW s \in Tabs, NEW q \in People, RemovePlayer(s, q)
  PROVE  Ind' /\ Books
<1> DEFINE g == data[s].game
           r == game[g]
           w == Without(r.reg, {q})
           x == Expelled(r, q)
<1>1. /\ g \in Games /\ r.st = "running" /\ q \in r.stack /\ UNCHANGED online
      /\ data' = IF q \in DOMAIN r.reg THEN LeaveGames(data, {r.reg[q].sock}) ELSE data
  BY DEF RemovePlayer, Hosts, Ind, TypeOK
<1>2. PICK z \in TakenOut(x, q) : Set(g, z)
  BY DEF RemovePlayer
<1>3. r \in Entry /\ r.reg \in Maps(Rows)
  BY <1>1, EntryType DEF Ind
<1>4. /\ w \in Maps(Rows) /\ DOMAIN w = DOMAIN r.reg \ {q}
      /\ \A y \in DOMAIN w : w[y] = r.reg[y]
  <2>1. \A f \in Maps(Rows) : /\ Without(f, {q}) \in Maps(Rows)
                              /\ DOMAIN Without(f, {q}) = DOMAIN f \ {q}
                              /\ \A y \in DOMAIN f \ {q} : Without(f, {q})[y] = f[y]
    BY MapWithout
  <2> HIDE DEF r
  <2> QED  BY <1>3, <2>1
<1>5. /\ x \in Entry /\ x.st = r.st /\ x.books = r.books /\ x.stack = r.stack
      /\ x.reg = w /\ x.out = r.out \cup {q} /\ x.pend = r.pend /\ x.watch = r.watch
  BY <1>3, <1>4 DEF Expelled, Entry
<1>6. Fair(g, r) /\ On(r)
  BY <1>1 DEF Ind, Barred, On
<1>7. q \notin DOMAIN r.pend /\ q \notin DOMAIN r.watch
  BY <1>1, <1>6, OnePlaceHere DEF Fair
<1> HIDE DEF x, w
<1>8. Tame(g, x, r) /\ Loose(x, r)
  <2> HIDE DEF r, g
  <2> QED  BY <1>1, <1>4, <1>5, <1>6, <1>7 DEF Tame, Fewer, Turns, Fair, Loose, On
<1>9. z \in Entry /\ Ends(z, x)
  BY <1>5, TakenOutFacts
<1>10. Tame(g, z, r)
  BY <1>8, <1>9, EndsTame, TameTwice
<1>11. Loose(z, r) /\ q \notin DOMAIN z.reg
  <2> HIDE DEF r, g
  <2>1. Loose(z, x) /\ z.reg = x.reg
    BY <1>9, EndsLoose DEF Ends
  <2> QED  BY <1>4, <1>5, <1>8, <2>1, LooseTwice
<1>12. CASE q \in DOMAIN r.reg
  <2>1. Owned(q, {r.reg[q].sock})
    BY <1>1, <1>12, ToldHere, LobbyAssumption DEF Owned
  <2>2. data' = LeaveGames(data, {r.reg[q].sock})
    BY <1>1, <1>12
  <2> HIDE DEF g
  <2> QED
    BY <1>1, <1>2, <1>6, <1>9, <1>10, <1>11, <1>12, <2>1, <2>2, GoneFromStep
<1>13. CASE q \notin DOMAIN r.reg
  BY <1>1, <1>2, <1>9, <1>10, <1>11, <1>13, QuietStep
<1> QED
  BY <1>12, <1>13

-----------------------------------------------------------------------------
(* Coming in *)

\* Beside the one who comes, and whom it concerns, a game is as it was.
LEMMA IndLetIn ==
  ASSUME Ind, NEW q \in People, NEW g \in Games, q \in DOMAIN game[g].pend, Open(game[g]),
         UNCHANGED online,
         Set(g, Enter([game[g] EXCEPT !.pend = Without(@, {q})], q, game[g].pend[q])),
         data' = IF game[g].pend[q] = None THEN data
                 ELSE [data EXCEPT ![game[g].pend[q]] = [game |-> g, door |-> None]]
  PROVE  Ind' /\ Books
<1> DEFINE r == game[g]
           row == r.pend[q]
           w == Without(r.pend, {q})
           d == [r EXCEPT !.pend = Without(@, {q})]
           e == Enter(d, q, row)
<1>1. /\ r \in Entry /\ r.pend \in Maps(Bound) /\ row \in Bound /\ online' \subseteq Tabs
      /\ DOMAIN r.reg \subseteq People
  BY EntryType DEF Ind, TypeOK
<1>2. /\ w \in Maps(Bound) /\ DOMAIN w = DOMAIN r.pend \ {q}
      /\ \A x \in DOMAIN w : w[x] = r.pend[x]
  BY <1>1, BoundWithout
<1>3. /\ d \in Entry /\ Alike(d, r) /\ d.reg = r.reg /\ d.watch = r.watch /\ d.pend = w
  BY <1>1, <1>2 DEF Entry, Alike
<1>4. On(r) /\ Fair(g, r)
  BY DEF Open, On, Ind, Barred
<1>5. Set(g, e)
  OBVIOUS
<1>6. data' = IF row = None THEN data ELSE [data EXCEPT ![row] = [game |-> g, door |-> None]]
  OBVIOUS
<1> HIDE DEF d, w
<1>7. /\ e \in Entry /\ e.st = d.st /\ e.out = d.out /\ e.books = d.books
      /\ e.stack = IF d.st = "running" THEN d.stack \cup {q} ELSE d.stack
      /\ DOMAIN e.reg = DOMAIN d.reg \cup {q}
      /\ \A x \in DOMAIN d.reg : x # q => e.reg[x] = d.reg[x]
      /\ e.reg[q].sock = row
      /\ e.pend = d.pend /\ e.watch = d.watch
  BY <1>1, <1>3, EnterFacts
<1>8. /\ e.st = r.st /\ e.out = r.out /\ e.books = r.books
      /\ e.stack = IF r.st = "running" THEN r.stack \cup {q} ELSE r.stack
      /\ DOMAIN e.reg = DOMAIN r.reg \cup {q}
      /\ \A x \in DOMAIN r.reg : x # q => e.reg[x] = r.reg[x]
      /\ e.pend = w /\ e.watch = r.watch
  BY <1>3, <1>7 DEF Alike
<1> HIDE DEF e
<1>9. /\ game'[g] = e /\ \A h \in Games : h # g => game'[h] = game[h]
  BY <1>5, <1>7, SetFacts DEF Ind
<1>10. Fair(g, e)
  BY <1>2, <1>4, <1>8 DEF Fair, On
<1>11. Ended' /\ Barred' /\ Books
  <2>1. Ended'
    BY <1>8, <1>9 DEF Ind, Ended, On
  <2>2. Barred'
    BY <1>9, <1>10 DEF Ind, Barred
  <2>3. Books
    BY <1>8, <1>9 DEF Ind, Ended, Books
  <2> QED  BY <2>1, <2>2, <2>3
<1>12. \A h \in Games \ {g} :
         /\ On(game[h]) => q \notin DOMAIN game[h].reg
         /\ q \notin DOMAIN game[h].pend /\ q \notin DOMAIN game[h].watch
  BY <1>4 DEF Ind, Unshared
<1>13. q \notin DOMAIN r.watch
  BY <1>4, OnePlaceHere
<1>14. Unshared'
  <2>1. \A h \in Games : \A x \in People \ {q} :
           /\ x \in DOMAIN game'[h].reg =>
                x \in DOMAIN game[h].reg /\ (On(game'[h]) => On(game[h]))
           /\ x \in DOMAIN game'[h].pend =>
                x \in DOMAIN game[h].pend /\ (On(game'[h]) => On(game[h]))
           /\ x \in DOMAIN game'[h].watch => x \in DOMAIN game[h].watch
    BY <1>2, <1>4, <1>8, <1>9
  <2>2. \A h \in Games \ {g} :
           /\ On(game'[h]) => q \notin DOMAIN game'[h].reg
           /\ q \notin DOMAIN game'[h].pend /\ q \notin DOMAIN game'[h].watch
    BY <1>9, <1>12
  <2>3. q \notin DOMAIN game'[g].watch /\ q \notin DOMAIN game'[g].pend
    BY <1>2, <1>8, <1>9, <1>13
  <2> QED
    BY <2>1, <2>2, <2>3, ComeStep
<1>15. /\ data' \in DataType /\ Still({row})
       /\ row # None => data'[row].game = g
  BY <1>1, <1>6 DEF Ind, TypeOK, DataType, Still, Bound
<1>16. Owned(q, {row})
  BY ToldHere, LobbyAssumption DEF Owned
<1>17. \A h \in Games \ {g} : Spared({row}, q, h)
  BY <1>4, AloneSpared
<1>18. Others(q, e, r)
  BY <1>2, <1>4, <1>8 DEF Others
<1>19. ~OldLinks => Mine(q, g)
  <2> SUFFICES ASSUME ~OldLinks PROVE Mine(q, g)
    OBVIOUS
  <2>1. row # None => Owner[row] = q /\ row \in online
    BY <1>4, ToldHere
  <2>2. q \notin DOMAIN e.watch /\ q \notin DOMAIN e.pend
    BY <1>2, <1>8, <1>13
  <2> HIDE DEF r, row
  <2> QED
    BY <1>7, <1>9, <1>15, <2>1, <2>2 DEF Mine
<1>20. TypeOK' /\ Told'
  BY <1>1, <1>5, <1>7, <1>15, <1>16, <1>17, <1>18, <1>19, SetOwnStep
<1> QED
  BY <1>11, <1>14, <1>20 DEF Ind

LEMMA IndAdmit ==
  ASSUME Ind, NEW s \in Tabs, NEW q \in People, Admit(s, q)
  PROVE  Ind' /\ Books
<1> DEFINE g == data[s].game
<1>1. g \in Games /\ q \in DOMAIN game[g].pend /\ UNCHANGED online
  BY DEF Admit, Hosts, Ind, TypeOK
<1>2. CASE Open(game[g])
  <2>1. /\ Set(g, Enter([game[g] EXCEPT !.pend = Without(@, {q})], q, game[g].pend[q]))
        /\ data' = IF game[g].pend[q] = None THEN data
                   ELSE [data EXCEPT ![game[g].pend[q]] = [game |-> g, door |-> None]]
    BY <1>2 DEF Admit
  <2> HIDE DEF g
  <2> QED  BY <1>1, <1>2, <2>1, IndLetIn
<1>3. CASE ~Open(game[g])
  <2>1. /\ Set(g, [game[g] EXCEPT !.pend = Without(@, {q})])
        /\ data' = LeaveDoors(data, {game[g].pend[q]})
    BY <1>3 DEF Admit
  <2> HIDE DEF g
  <2> QED  BY <1>1, <2>1, IndTurnedDown
<1> QED
  BY <1>2, <1>3

\* They come to this rail, or leave that one.
Railed(p, s, q, r, here, there) ==
  /\ q \in Entry /\ Alike(q, r) /\ q.reg = r.reg /\ q.pend = r.pend
  /\ DOMAIN q.watch = IF here THEN DOMAIN r.watch \cup {p}
                      ELSE IF there THEN DOMAIN r.watch ELSE DOMAIN r.watch \ {p}
  /\ \A x \in DOMAIN q.watch \ {p} : q.watch[x] = r.watch[x]
  /\ here => q.watch[p] = s
  /\ ~here => \A x \in DOMAIN q.watch : q.watch[x] = r.watch[x]

LEMMA WatchFacts ==
  ASSUME Ind, NEW s \in Tabs, NEW g \in Games, Watch(s, g), NEW h \in Games
  PROVE  Railed(Owner[s], s, game'[h], game[h], h = g, Owner[s] \in DOMAIN game[g].watch)
<1> DEFINE p == Owner[s]
           r == game[h]
           u == Put(r.watch, p, s)
           w == Without(r.watch, {p})
<1>1. p \in People /\ r \in Entry /\ r.watch \in Maps(Bound) /\ s \in Bound
  BY LobbyAssumption, EntryType DEF Ind, Bound
<1>2. game'[h] = IF h = g THEN [r EXCEPT !.watch = u]
                 ELSE IF p \in DOMAIN game[g].watch THEN r ELSE [r EXCEPT !.watch = w]
  BY DEF Watch
<1>3. /\ u \in Maps(Bound) /\ DOMAIN u = DOMAIN r.watch \cup {p}
      /\ \A x \in DOMAIN u : u[x] = IF x = p THEN s ELSE r.watch[x]
  <2> HIDE DEF r, p
  <2>1. Put(r.watch, p, s) \in Maps(Bound)
    BY <1>1, BoundPut
  <2> QED  BY <2>1 DEF Put
<1>4. /\ w \in Maps(Bound) /\ DOMAIN w = DOMAIN r.watch \ {p}
      /\ \A x \in DOMAIN w : w[x] = r.watch[x]
  BY <1>1, BoundWithout
<1> HIDE DEF u, w, r, p
<1>5. \A v \in Maps(Bound) :
        /\ [r EXCEPT !.watch = v] \in Entry /\ Alike([r EXCEPT !.watch = v], r)
        /\ [r EXCEPT !.watch = v].reg = r.reg /\ [r EXCEPT !.watch = v].pend = r.pend
        /\ [r EXCEPT !.watch = v].watch = v
  BY <1>1 DEF Entry, Alike
<1>6. CASE h = g
  <2>1. game'[h] = [r EXCEPT !.watch = u]
    BY <1>2, <1>6
  <2> QED
    BY <1>3, <1>5, <1>6, <2>1 DEF r, p, Railed
<1>7. CASE h # g /\ p \in DOMAIN game[g].watch
  BY <1>1, <1>2, <1>7 DEF r, p, Alike, Railed
<1>8. CASE h # g /\ p \notin DOMAIN game[g].watch
  <2>1. game'[h] = [r EXCEPT !.watch = w]
    BY <1>2, <1>8
  <2> QED
    BY <1>4, <1>5, <1>8, <2>1 DEF r, p, Railed
<1> QED
  BY <1>6, <1>7, <1>8

LEMMA IndWatch ==
  ASSUME Ind, NEW s \in Tabs, NEW g \in Games, Watch(s, g)
  PROVE  Ind' /\ Books
<1> DEFINE p == Owner[s]
<1>1. /\ p \in People /\ s \in online /\ UNCHANGED online /\ On(game[g]) /\ p \notin game[g].out
      /\ online' \subseteq Tabs
  BY LobbyAssumption DEF Watch, Here, Live, On, Ind, TypeOK
<1>2. \A h \in Games : On(game[h]) => p \notin DOMAIN game[h].reg /\ p \notin DOMAIN game[h].pend
  BY DEF Watch, MemberOf, WaitingOn, Live, On
<1>3. data' \in DataType /\ data'[s].game = g /\ Still({s})
  <2>1. data' = [data EXCEPT ![s].game = g]
    BY DEF Watch
  <2> QED  BY <1>1, <2>1, GameSet DEF Ind, Still
<1>4. \A h \in Games :
         /\ game'[h] \in Entry /\ Alike(game'[h], game[h])
         /\ game'[h].reg = game[h].reg /\ game'[h].pend = game[h].pend
         /\ DOMAIN game'[h].watch = IF h = g THEN DOMAIN game[h].watch \cup {p}
                                    ELSE IF p \in DOMAIN game[g].watch THEN DOMAIN game[h].watch
                                    ELSE DOMAIN game[h].watch \ {p}
         /\ \A x \in DOMAIN game'[h].watch \ {p} : game'[h].watch[x] = game[h].watch[x]
         /\ h = g => game'[h].watch[p] = s
         /\ h # g => \A x \in DOMAIN game'[h].watch : game'[h].watch[x] = game[h].watch[x]
  <2>1. \A h \in Games :
           Railed(p, s, game'[h], game[h], h = g, p \in DOMAIN game[g].watch)
    BY WatchFacts
  <2> HIDE DEF p
  <2> QED  BY <2>1 DEF Railed
<1>5. game' \in [Games -> Entry]
  <2>1. game' = [h \in Games |-> game'[h]]
    BY DEF Watch
  <2> QED  BY <1>4, <2>1
<1>6. TypeOK'
  BY <1>1, <1>3, <1>5 DEF TypeOK, DataType
<1>7. \A h \in Games : game'[h].st = game[h].st /\ game'[h].books = game[h].books
                       /\ game'[h].out = game[h].out /\ game'[h].stack = game[h].stack
                       /\ (On(game'[h]) <=> On(game[h]))
  BY <1>4 DEF Alike, On
<1>8. Ended' /\ Books
  BY <1>7 DEF Ind, Ended, Books
<1>9. Barred'
  <2> SUFFICES ASSUME NEW h \in Games PROVE Fair(h, game'[h])
    BY DEF Barred, Fair, On
  <2>1. Fair(h, game[h])
    BY DEF Ind, Barred
  <2>2. DOMAIN game'[h].watch \subseteq DOMAIN game[h].watch \cup (IF h = g THEN {p} ELSE {})
    BY <1>4
  <2>3. h = g => p \notin game[h].out
    BY <1>1
  <2>4. game'[h].out = game[h].out /\ game'[h].reg = game[h].reg /\ game'[h].pend = game[h].pend
        /\ game'[h].stack = game[h].stack /\ game'[h].st = game[h].st
    BY <1>4, <1>7
  <2> HIDE DEF p
  <2> QED
    BY <2>1, <2>2, <2>3, <2>4 DEF Fair, On
<1>10. \A h \in Games \ {g} : p \notin DOMAIN game'[h].watch
  <2>1. \A h \in Games \ {g} : p \in DOMAIN game[g].watch => p \notin DOMAIN game[h].watch
    BY <1>1 DEF Ind, Unshared
  <2> HIDE DEF p
  <2> QED  BY <1>4, <2>1
<1>11. Unshared'
  <2> SUFFICES ASSUME NEW x \in People, NEW h \in Games, NEW k \in Games
      PROVE
      /\ On(game'[h]) /\ x \in DOMAIN game'[h].reg =>
           /\ On(game'[k]) /\ x \in DOMAIN game'[k].reg => h = k
           /\ x \notin DOMAIN game'[k].pend /\ x \notin DOMAIN game'[k].watch
      /\ x \in DOMAIN game'[h].pend =>
           /\ x \in DOMAIN game'[k].pend => h = k
           /\ On(game'[h]) => x \notin DOMAIN game'[k].watch
      /\ x \in DOMAIN game'[h].watch /\ x \in DOMAIN game'[k].watch => h = k
    BY DEF Unshared, On
  <2>0. /\ On(game[h]) /\ x \in DOMAIN game[h].reg =>
             /\ On(game[k]) /\ x \in DOMAIN game[k].reg => h = k
             /\ x \notin DOMAIN game[k].pend /\ x \notin DOMAIN game[k].watch
        /\ x \in DOMAIN game[h].pend =>
             /\ x \in DOMAIN game[k].pend => h = k
             /\ On(game[h]) => x \notin DOMAIN game[k].watch
        /\ x \in DOMAIN game[h].watch /\ x \in DOMAIN game[k].watch => h = k
    BY DEF Ind, Unshared
  <2>1. CASE x # p
    <3>1. /\ x \in DOMAIN game'[h].watch <=> x \in DOMAIN game[h].watch
          /\ x \in DOMAIN game'[k].watch <=> x \in DOMAIN game[k].watch
      <4> HIDE DEF p
      <4> QED  BY <1>4, <2>1
    <3> QED  BY <1>4, <1>7, <2>0, <3>1
  <2>2. CASE x = p
    BY <1>2, <1>4, <1>7, <1>10, <2>0, <2>2
  <2> QED  BY <2>1, <2>2
<1>12. ASSUME ~OldLinks, NEW h \in Games
       PROVE  Others(p, game'[h], game[h]) /\ Mine(p, h)
  <2>1. Others(p, game'[h], game[h])
    BY <1>4, <1>7 DEF Others
  <2>2. /\ p \in DOMAIN game[h].reg /\ game[h].reg[p].sock # None => Owner[game[h].reg[p].sock] = p
        /\ p \in DOMAIN game[h].pend /\ game[h].pend[p] # None => Owner[game[h].pend[p]] = p
    BY <1>1, <1>12, ToldHere
  <2>3. Mine(p, h)
    BY <1>1, <1>2, <1>3, <1>4, <1>7, <1>10, <2>2 DEF Mine
  <2> QED  BY <2>1, <2>3
<1>13. Told'
  <2>1. \A t \in Tabs \ {s} : data'[t] = data[t] /\ (t \in online => t \in online')
    BY <1>3 DEF Still
  <2>2. Owned(p, {s})
    BY OwnedTab
  <2> HIDE DEF p
  <2> QED  BY <1>1, <1>6, <1>12, <2>1, <2>2, OwnStep
<1> QED
  BY <1>6, <1>8, <1>9, <1>11, <1>13 DEF Ind

-----------------------------------------------------------------------------
(* A tab goes *)

\* Their seat, rail or request there is no longer bound to that tab.
Unbound(p, s, q, r, inside, waits) ==
  /\ q \in Entry /\ Calm(q, r) /\ Loose(q, r)
  /\ inside /\ p \in DOMAIN q.reg => q.reg[p].sock # s
  /\ inside /\ p \in DOMAIN q.watch => q.watch[p] # s
  /\ waits /\ p \in DOMAIN q.pend => q.pend[p] # s

LEMMA CalmTwice ==
  ASSUME NEW a, NEW b, NEW c, Calm(a, b), Calm(b, c)
  PROVE  Calm(a, c)
BY DEF Calm

LEMMA UnbindUnbound ==
  ASSUME NEW r \in Entry, NEW p \in People, NEW s \in Tabs
  PROVE  LET q == UnbindWatcher(Unbind(r, p, s), p, s) IN
         /\ q \in Entry /\ Calm(q, r) /\ Loose(q, r) /\ q.pend = r.pend
         /\ p \in DOMAIN q.reg => q.reg[p].sock # s
         /\ p \in DOMAIN q.watch => q.watch[p] # s
<1> DEFINE u == Unbind(r, p, s)
           q == UnbindWatcher(u, p, s)
<1>1. /\ u \in Entry /\ Alike(u, r) /\ u.pend = r.pend /\ u.watch = r.watch
      /\ DOMAIN u.reg = DOMAIN r.reg
      /\ \A x \in DOMAIN r.reg : u.reg[x] = r.reg[x] \/ u.reg[x].sock = None
      /\ p \in DOMAIN r.reg => u.reg[p].sock # s
  BY UnbindFacts
<1> HIDE DEF u
<1>2. /\ q \in Entry /\ Alike(q, u) /\ q.pend = u.pend /\ q.reg = u.reg
      /\ DOMAIN q.watch = DOMAIN u.watch
      /\ \A x \in DOMAIN u.watch : q.watch[x] = u.watch[x] \/ q.watch[x] = None
      /\ p \in DOMAIN u.watch => q.watch[p] # s
  BY <1>1, UnbindWatcherFacts
<1> HIDE DEF q
<1>3. /\ q \in Entry /\ Calm(q, r) /\ Loose(q, r) /\ q.pend = r.pend
      /\ p \in DOMAIN q.reg => q.reg[p].sock # s
      /\ p \in DOMAIN q.watch => q.watch[p] # s
  BY <1>1, <1>2 DEF Calm, Loose, Alike, On
<1> QED
  BY <1>3 DEF q, u

LEMMA DisconnectFacts ==
  ASSUME Ind, NEW s \in Tabs, Disconnect(s), NEW g \in Games
  PROVE  Unbound(Owner[s], s, game'[g], game[g], g = data[s].game, g = data[s].door)
<1> DEFINE p == Owner[s]
           a == game[g]
           b == IF g = data[s].door THEN UnbindPending(a, p, s) ELSE a
           c == IF g = data[s].game THEN UnbindWatcher(Unbind(b, p, s), p, s) ELSE b
<1>1. p \in People /\ a \in Entry
  BY LobbyAssumption, EntryType DEF Ind
<1>2. game'[g] = c
  BY DEF Disconnect
<1> HIDE DEF a, p
<1>3. /\ b \in Entry /\ Calm(b, a) /\ Loose(b, a)
      /\ g = data[s].door /\ p \in DOMAIN b.pend => b.pend[p] # s
  <2>1. CASE g = data[s].door
    <3>1. b = UnbindPending(a, p, s)
      BY <2>1
    <3> HIDE DEF b
    <3>2. /\ b \in Entry /\ Alike(b, a) /\ b.watch = a.watch /\ b.reg = a.reg
          /\ DOMAIN b.pend = DOMAIN a.pend
          /\ \A x \in DOMAIN a.pend : b.pend[x] = a.pend[x] \/ b.pend[x] = None
          /\ p \in DOMAIN a.pend => b.pend[p] # s
      BY <1>1, <3>1, UnbindPendingFacts
    <3> QED  BY <3>2 DEF Calm, Loose, Alike, On
  <2>2. CASE g # data[s].door
    BY <1>1, <2>2, LooseSelf DEF Calm
  <2> QED  BY <2>1, <2>2
<1> HIDE DEF b
<1>4. CASE g = data[s].game
  <2>1. c = UnbindWatcher(Unbind(b, p, s), p, s)
    BY <1>4
  <2> HIDE DEF c
  <2>2. /\ c \in Entry /\ Calm(c, b) /\ Loose(c, b) /\ c.pend = b.pend
        /\ p \in DOMAIN c.reg => c.reg[p].sock # s
        /\ p \in DOMAIN c.watch => c.watch[p] # s
    BY <1>1, <1>3, <2>1, UnbindUnbound
  <2>3. Calm(c, a) /\ Loose(c, a)
    BY <1>3, <2>2, CalmTwice, LooseTwice
  <2> QED
    BY <1>2, <1>3, <2>2, <2>3 DEF Unbound, a, p
<1>5. CASE g # data[s].game
  BY <1>2, <1>3, <1>5 DEF Unbound, a, p
<1> QED
  BY <1>4, <1>5

LEMMA IndDisconnect ==
  ASSUME Ind, NEW s \in Tabs, Disconnect(s)
  PROVE  Ind' /\ Books
<1> DEFINE p == Owner[s]
<1>1. p \in People /\ s # None
  BY LobbyAssumption
<1>2. \A g \in Games : Unbound(p, s, game'[g], game[g], g = data[s].game, g = data[s].door)
  BY DisconnectFacts
<1>3. game' \in [Games -> Entry]
  <2>1. game' = [g \in Games |-> game'[g]]
    BY DEF Disconnect
  <2> HIDE DEF p
  <2> QED  BY <1>2, <2>1 DEF Unbound
<1>4. TypeOK' /\ \A t \in Tabs \ {s} : data'[t] = data[t] /\ (t \in online => t \in online')
  BY <1>3 DEF Ind, TypeOK, Disconnect, NoData
<1>5. \A g \in Games : Tame(g, game'[g], game[g]) /\ Loose(game'[g], game[g])
  BY <1>2, CalmTame DEF Unbound
<1>6. Heard({s})
  <2> SUFFICES ASSUME ~OldLinks, NEW g \in Games, NEW x \in People, On(game'[g])
      PROVE
      /\ x \in DOMAIN game'[g].reg => game'[g].reg[x].sock # s
      /\ x \in DOMAIN game'[g].watch => game'[g].watch[x] # s
      /\ x \in DOMAIN game'[g].pend => game'[g].pend[x] # s
    BY DEF Heard
  <2>1. On(game[g])
    BY <1>5 DEF Loose
  <2>2. ASSUME x \in DOMAIN game'[g].reg, game'[g].reg[x].sock = s
        PROVE  FALSE
    <3>1. x \in DOMAIN game[g].reg /\ game[g].reg[x].sock = s
      BY <1>1, <1>5, <2>2 DEF Loose
    <3>2. x = p /\ g = data[s].game
      BY <1>1, <2>1, <3>1, ToldHere
    <3> QED  BY <1>2, <2>2, <3>2 DEF Unbound
  <2>3. ASSUME x \in DOMAIN game'[g].watch, game'[g].watch[x] = s
        PROVE  FALSE
    <3>1. x \in DOMAIN game[g].watch /\ game[g].watch[x] = s
      BY <1>1, <1>5, <2>3 DEF Loose
    <3>2. x = p /\ g = data[s].game
      BY <1>1, <2>1, <3>1, ToldHere
    <3> QED  BY <1>2, <2>3, <3>2 DEF Unbound
  <2>4. ASSUME x \in DOMAIN game'[g].pend, game'[g].pend[x] = s
        PROVE  FALSE
    <3>1. x \in DOMAIN game[g].pend /\ game[g].pend[x] = s
      BY <1>1, <1>5, <2>4 DEF Loose
    <3>2. x = p /\ g = data[s].door
      BY <1>1, <2>1, <3>1, ToldHere
    <3> QED  BY <1>2, <2>4, <3>2 DEF Unbound
  <2> QED
    BY <2>2, <2>3, <2>4
<1>7. Told'
  BY <1>4, <1>5, <1>6, LooseStep
<1> QED
  BY <1>4, <1>5, <1>7, TameStep DEF Ind

-----------------------------------------------------------------------------
(* Moving on to a game *)

LEMMA OnwardTame ==
  ASSUME NEW p, NEW g, NEW q, NEW r, NEW there, Onward(p, q, r, there)
  PROVE  Tame(g, q, r)
<1>1. Calm(q, r)
  BY DEF Onward, Calm, Alike
<1> QED
  BY <1>1, CalmTame

\* What somebody's place in a game they come to has to satisfy.
Welcome(p, g, q, r) ==
  /\ Fair(g, q) /\ Turns(q, r)
  /\ p \notin DOMAIN q.watch /\ (p \notin DOMAIN q.reg \/ p \notin DOMAIN q.pend)
  /\ \A x \in DOMAIN q.reg \ {p} : x \in DOMAIN r.reg /\ (On(q) => On(r))
  /\ \A x \in DOMAIN q.pend \ {p} : x \in DOMAIN r.pend /\ (On(q) => On(r))
  /\ DOMAIN q.watch \ {p} \subseteq DOMAIN r.watch
  /\ Others(p, q, r)

LEMMA MoveStep ==
  ASSUME Ind, NEW s \in Tabs, NEW g \in Games, NEW q \in Entry,
         game' = [MovedOn(game, Owner[s], g) EXCEPT ![g] = q], UNCHANGED online,
         data' \in DataType,
         \A t \in Tabs \ (DoorTabs(Owner[s], g) \cup {s}) : data'[t] = data[t],
         \A h \in Games \ {g} : On(game[h]) => Owner[s] \notin DOMAIN game[h].reg,
         Welcome(Owner[s], g, q, game[g]), Mine(Owner[s], g)
  PROVE  Ind' /\ Books
<1> DEFINE p == Owner[s]
<1>1. p \in People
  BY LobbyAssumption
<1>2. game'[g] = q /\ \A h \in Games \ {g} : game'[h] = MovedOn(game, p, g)[h]
  BY DEF MovedOn
<1>3. \A h \in Games \ {g} : Onward(p, game'[h], game[h], FALSE)
  <2> SUFFICES ASSUME NEW h \in Games \ {g} PROVE Onward(p, game'[h], game[h], FALSE)
    OBVIOUS
  <2>1. Onward(p, MovedOn(game, p, g)[h], game[h], h = g)
    BY MovedOnFacts DEF Ind
  <2>2. (h = g) = FALSE
    OBVIOUS
  <2> HIDE DEF p
  <2> QED
    BY <1>2, <2>1, <2>2
<1>4. game' \in [Games -> Entry]
  <2>1. game' = [h \in Games |-> game'[h]]
    BY DEF MovedOn
  <2>2. \A h \in Games : game'[h] \in Entry
    BY <1>2, <1>3 DEF Onward
  <2> QED  BY <2>1, <2>2
<1>5. TypeOK'
  BY <1>4 DEF Ind, TypeOK, DataType
<1> HIDE DEF p
<1>6. \A h \in Games \ {g} : Tame(h, game'[h], game[h])
  BY <1>3, OnwardTame
<1>7. \A h \in Games : Turns(game'[h], game[h]) /\ (Fair(h, game[h]) => Fair(h, game'[h]))
  BY <1>2, <1>6 DEF Tame, Welcome, p
<1>8. Ended' /\ Books
  BY <1>7 DEF Ind, Ended, Books, Turns
<1>9. Barred'
  BY <1>7 DEF Ind, Barred
<1>10. Unshared'
  <2>1. \A h \in Games : \A x \in People \ {p} :
           /\ x \in DOMAIN game'[h].reg =>
                x \in DOMAIN game[h].reg /\ (On(game'[h]) => On(game[h]))
           /\ x \in DOMAIN game'[h].pend =>
                x \in DOMAIN game[h].pend /\ (On(game'[h]) => On(game[h]))
           /\ x \in DOMAIN game'[h].watch => x \in DOMAIN game[h].watch
    <3> TAKE h \in Games
    <3>1. CASE h = g
      BY <1>2, <3>1 DEF Welcome, p
    <3>2. CASE h # g
      BY <1>6, <3>2 DEF Tame, Fewer
    <3> QED  BY <3>1, <3>2
  <2>2. \A h \in Games \ {g} :
           /\ On(game'[h]) => p \notin DOMAIN game'[h].reg
           /\ p \notin DOMAIN game'[h].pend /\ p \notin DOMAIN game'[h].watch
    <3> TAKE h \in Games \ {g}
    <3>1. /\ DOMAIN game'[h].watch = DOMAIN game[h].watch \ {p}
          /\ DOMAIN game'[h].pend = DOMAIN game[h].pend \ {p}
          /\ game'[h].reg = game[h].reg /\ game'[h].st = game[h].st
      BY <1>3 DEF Onward, Alike
    <3> QED  BY <3>1 DEF On, p
  <2>3. p \notin DOMAIN game'[g].watch /\ (p \notin DOMAIN game'[g].reg \/ p \notin DOMAIN game'[g].pend)
    BY <1>2 DEF Welcome, p
  <2> QED
    BY <1>1, <2>1, <2>2, <2>3, ComeStep
<1>11. Told'
  BY <1>2, <1>5, MovedTold DEF Welcome, p
<1> QED
  BY <1>5, <1>8, <1>9, <1>10, <1>11 DEF Ind

\* The data of a tab that goes there.
LEMMA GoesInFacts ==
  ASSUME Ind, NEW s \in Tabs, NEW g \in Games,
         data' = [LeaveDoors(data, DoorTabs(Owner[s], g)) EXCEPT ![s].game = g]
  PROVE  /\ data' \in DataType /\ data'[s].game = g
         /\ \A t \in Tabs \ (DoorTabs(Owner[s], g) \cup {s}) : data'[t] = data[t]
<1> DEFINE S == DoorTabs(Owner[s], g)
           D == LeaveDoors(data, S)
<1>1. /\ D \in DataType /\ \A t \in Tabs \ S : D[t] = data[t]
  BY LeaveDoorsFacts DEF Ind, DataType
<1>2. data' = [D EXCEPT ![s].game = g]
  OBVIOUS
<1> HIDE DEF D, S
<1>3. D[s] \in [game : Games \cup {None}, door : Games \cup {None}]
  BY <1>1 DEF DataType
<1>4. /\ [D[s] EXCEPT !.game = g] \in [game : Games \cup {None}, door : Games \cup {None}]
      /\ [D[s] EXCEPT !.game = g].game = g
  BY <1>3
<1>5. data' = [D EXCEPT ![s] = [D[s] EXCEPT !.game = g]]
  BY <1>1, <1>2 DEF DataType
<1> QED
  BY <1>1, <1>4, <1>5 DEF DataType, S

LEMMA GoesToDoorFacts ==
  ASSUME Ind, NEW s \in Tabs, NEW g \in Games,
         data' = [LeaveDoors(data, DoorTabs(Owner[s], g)) EXCEPT ![s].door = g]
  PROVE  /\ data' \in DataType /\ data'[s].door = g
         /\ \A t \in Tabs \ (DoorTabs(Owner[s], g) \cup {s}) : data'[t] = data[t]
<1> DEFINE S == DoorTabs(Owner[s], g)
           D == LeaveDoors(data, S)
<1>1. /\ D \in DataType /\ \A t \in Tabs \ S : D[t] = data[t]
  BY LeaveDoorsFacts DEF Ind, DataType
<1>2. data' = [D EXCEPT ![s].door = g]
  OBVIOUS
<1> HIDE DEF D, S
<1>3. D[s] \in [game : Games \cup {None}, door : Games \cup {None}]
  BY <1>1 DEF DataType
<1>4. /\ [D[s] EXCEPT !.door = g] \in [game : Games \cup {None}, door : Games \cup {None}]
      /\ [D[s] EXCEPT !.door = g].door = g
  BY <1>3
<1>5. data' = [D EXCEPT ![s] = [D[s] EXCEPT !.door = g]]
  BY <1>1, <1>2 DEF DataType
<1> QED
  BY <1>1, <1>4, <1>5 DEF DataType, S

\* They sit in it, bound to the tab they came with.
LEMMA SitDownStep ==
  ASSUME Ind, NEW s \in Tabs, s \in online, NEW g \in Games, NEW q \in Entry,
         game' = [MovedOn(game, Owner[s], g) EXCEPT ![g] = q], UNCHANGED online,
         data' = [LeaveDoors(data, DoorTabs(Owner[s], g)) EXCEPT ![s].game = g],
         \A h \in Games \ {g} : On(game[h]) => Owner[s] \notin DOMAIN game[h].reg,
         Welcome(Owner[s], g, q, game[g]),
         Owner[s] \in DOMAIN q.reg, q.reg[Owner[s]].sock = s
  PROVE  Ind' /\ Books
<1>1. /\ data' \in DataType /\ data'[s].game = g
      /\ \A t \in Tabs \ (DoorTabs(Owner[s], g) \cup {s}) : data'[t] = data[t]
  BY GoesInFacts
<1>2. game'[g] = q
  BY DEF MovedOn
<1>3. Mine(Owner[s], g)
  BY <1>1, <1>2 DEF Mine, Welcome
<1> QED
  BY <1>1, <1>3, MoveStep

LEMMA IndCreate ==
  ASSUME Ind, NEW s \in Tabs, NEW g \in Games, Create(s, g)
  PROVE  Ind' /\ Books
<1> DEFINE p == Owner[s]
           w == Put(Empty, p, At(s))
           q == [NoGame EXCEPT !.st = "registering", !.host = p, !.reg = Put(Empty, p, At(s))]
<1>1. /\ p \in People /\ s \in online /\ UNCHANGED online /\ game[g].st = "none"
      /\ game' = [MovedOn(game, p, g) EXCEPT ![g] = q]
      /\ data' = [LeaveDoors(data, DoorTabs(p, g)) EXCEPT ![s].game = g]
  BY LobbyAssumption DEF Create, Here
<1>2. \A h \in Games : On(game[h]) => p \notin DOMAIN game[h].reg
  BY DEF Create, MemberOf, Live, On
<1>3. w \in Maps(Rows) /\ DOMAIN w = {p} /\ w[p].sock = s
  <2>1. Empty \in Maps(Rows) /\ DOMAIN Empty = {} /\ At(s) \in Rows
    BY MapEmpty, RowTypes
  <2>2. Put(Empty, p, At(s)) \in Maps(Rows)
    BY <1>1, <2>1, MapPut
  <2> HIDE DEF Empty
  <2> QED  BY <2>1, <2>2 DEF Put, At
<1>4. q = [NoGame EXCEPT !.st = "registering", !.host = p, !.reg = w]
  OBVIOUS
<1> HIDE DEF w, q, p
<1>5. /\ q \in Entry /\ q.st = "registering" /\ q.reg = w /\ q.pend = NoGame.pend
      /\ q.watch = NoGame.watch /\ q.out = NoGame.out /\ q.stack = NoGame.stack
      /\ q.books = NoGame.books
  BY <1>1, <1>3, <1>4, NoGameFacts DEF Entry, Vacant
<1>6. /\ DOMAIN q.pend = {} /\ DOMAIN q.watch = {} /\ q.out = {} /\ q.stack = {} /\ q.books = "open"
  BY <1>5, NoGameFacts DEF Vacant
<1>7. game[g].books = "open"
  BY <1>1 DEF Ind, Ended
<1>8. Welcome(p, g, q, game[g])
  BY <1>1, <1>3, <1>5, <1>6, <1>7 DEF Welcome, Fair, Turns, Others, On
<1> QED
  BY <1>1, <1>2, <1>3, <1>5, <1>8, SitDownStep DEF p

\* Themselves, on the way to it.
LEMMA OnTheWay ==
  ASSUME Ind, NEW p \in People, NEW g \in Games
  PROVE  LET m == MovedOn(game, p, g)[g] IN
         /\ m \in Entry /\ Alike(m, game[g]) /\ m.reg = game[g].reg
         /\ DOMAIN m.watch = DOMAIN game[g].watch \ {p}
         /\ \A x \in DOMAIN m.watch : m.watch[x] = game[g].watch[x]
         /\ m.pend = game[g].pend
<1>1. Onward(p, MovedOn(game, p, g)[g], game[g], g = g)
  BY MovedOnFacts DEF Ind
<1>2. MovedOn(game, p, g)[g].pend = game[g].pend
  BY EntryType DEF MovedOn, Ind, Entry
<1> QED
  BY <1>1, <1>2 DEF Onward

LEMMA MayJoinFacts ==
  ASSUME Ind, NEW p, NEW g \in Games, MayJoin(p, g)
  PROVE  /\ p \notin game[g].out /\ p \notin DOMAIN game[g].reg /\ On(game[g])
         /\ \A h \in Games : On(game[h]) => p \notin DOMAIN game[h].reg
BY DEF MayJoin, MemberOf, Open, Live, On

LEMMA IndJoin ==
  ASSUME Ind, NEW s \in Tabs, NEW g \in Games, Join(s, g)
  PROVE  Ind' /\ Books
<1> DEFINE p == Owner[s]
           r == game[g]
           m == MovedOn(game, p, g)[g]
           q == Enter(m, p, s)
<1>1. /\ p \in People /\ s \in online /\ UNCHANGED online /\ g \notin ByInvite /\ s \in Bound
      /\ game' = [MovedOn(game, p, g) EXCEPT ![g] = q]
      /\ data' = [LeaveDoors(data, DoorTabs(p, g)) EXCEPT ![s].game = g]
  BY LobbyAssumption DEF Join, Here, Bound, MovedOn
<1>2. /\ p \notin r.out /\ p \notin DOMAIN r.reg /\ On(r)
      /\ \A h \in Games : On(game[h]) => p \notin DOMAIN game[h].reg
  BY MayJoinFacts DEF Join
<1>3. /\ m \in Entry /\ Alike(m, r) /\ m.reg = r.reg
      /\ DOMAIN m.watch = DOMAIN r.watch \ {p}
      /\ \A x \in DOMAIN m.watch : m.watch[x] = r.watch[x]
      /\ m.pend = r.pend
  BY <1>1, OnTheWay
<1> HIDE DEF m
<1>4. /\ q \in Entry /\ q.st = m.st /\ q.out = m.out /\ q.books = m.books
      /\ q.stack = IF m.st = "running" THEN m.stack \cup {p} ELSE m.stack
      /\ DOMAIN q.reg = DOMAIN m.reg \cup {p}
      /\ \A x \in DOMAIN m.reg : x # p => q.reg[x] = m.reg[x]
      /\ q.reg[p].sock = s
      /\ q.pend = m.pend /\ q.watch = m.watch
  BY <1>1, <1>3, EnterFacts
<1>5. Fair(g, r)
  BY DEF Ind, Barred
<1> HIDE DEF q, p, r
<1>6. Welcome(p, g, q, r)
  <2>1. /\ q.st = r.st /\ q.out = r.out /\ q.books = r.books
        /\ q.stack = IF r.st = "running" THEN r.stack \cup {p} ELSE r.stack
        /\ DOMAIN q.reg = DOMAIN r.reg \cup {p} /\ q.pend = r.pend
        /\ DOMAIN q.watch = DOMAIN r.watch \ {p}
    BY <1>3, <1>4 DEF Alike
  <2>2. Fair(g, q)
    BY <1>1, <1>2, <1>5, <2>1 DEF Fair, On
  <2>3. Turns(q, r)
    BY <1>2, <2>1 DEF Turns, On
  <2>4. DOMAIN q.pend = {}
    BY <1>1, <1>5, <2>1 DEF Fair
  <2>5. Others(p, q, r)
    BY <1>2, <1>3, <1>4, <2>1 DEF Others
  <2> QED
    BY <1>2, <2>1, <2>2, <2>3, <2>4, <2>5 DEF Welcome
<1> QED
  BY <1>1, <1>2, <1>4, <1>6, SitDownStep DEF p, r

LEMMA IndAsk ==
  ASSUME Ind, NEW s \in Tabs, NEW g \in Games, Ask(s, g)
  PROVE  Ind' /\ Books
<1> DEFINE p == Owner[s]
           r == game[g]
           m == MovedOn(game, p, g)[g]
           w == Put(m.pend, p, s)
           q == [m EXCEPT !.pend = w]
<1>1. /\ p \in People /\ s \in online /\ UNCHANGED online /\ g \in ByInvite /\ s \in Bound
      /\ s # None
      /\ game' = [MovedOn(game, p, g) EXCEPT ![g] = q]
      /\ data' = [LeaveDoors(data, DoorTabs(p, g)) EXCEPT ![s].door = g]
  BY LobbyAssumption DEF Ask, Here, Bound, MovedOn
<1>2. /\ p \notin r.out /\ p \notin DOMAIN r.reg /\ On(r)
      /\ \A h \in Games : On(game[h]) => p \notin DOMAIN game[h].reg
  BY MayJoinFacts DEF Ask
<1>3. /\ m \in Entry /\ Alike(m, r) /\ m.reg = r.reg
      /\ DOMAIN m.watch = DOMAIN r.watch \ {p}
      /\ \A x \in DOMAIN m.watch : m.watch[x] = r.watch[x]
      /\ m.pend = r.pend
  BY <1>1, OnTheWay
<1> HIDE DEF m
<1>4. m.pend \in Maps(Bound)
  BY <1>3 DEF Entry
<1>5. /\ w \in Maps(Bound) /\ DOMAIN w = DOMAIN r.pend \cup {p} /\ w[p] = s
      /\ \A x \in DOMAIN r.pend \ {p} : w[x] = r.pend[x]
  <2>1. w \in Maps(Bound)
    BY <1>1, <1>4, BoundPut
  <2> QED
    BY <1>3, <2>1 DEF Put
<1> HIDE DEF w
<1>6. /\ q \in Entry /\ Alike(q, r) /\ q.reg = r.reg /\ q.pend = w /\ q.watch = m.watch
  BY <1>3, <1>5 DEF Entry, Alike
<1>7. Fair(g, r)
  BY DEF Ind, Barred
<1> HIDE DEF q
<1>8. Welcome(p, g, q, r)
  <2> HIDE DEF p, r
  <2>1. /\ q.st = r.st /\ q.out = r.out /\ q.books = r.books /\ q.stack = r.stack
    BY <1>6 DEF Alike
  <2>2. Fair(g, q)
    BY <1>1, <1>2, <1>3, <1>5, <1>6, <1>7, <2>1 DEF Fair, On
  <2>3. Turns(q, r)
    BY <1>2, <2>1 DEF Turns, On
  <2>5. Others(p, q, r)
    BY <1>2, <1>3, <1>5, <1>6, <2>1 DEF Others
  <2> QED
    BY <1>2, <1>3, <1>5, <1>6, <2>1, <2>2, <2>3, <2>5 DEF Welcome
<1>9. /\ data' \in DataType /\ data'[s].door = g
      /\ \A t \in Tabs \ (DoorTabs(p, g) \cup {s}) : data'[t] = data[t]
  BY <1>1, GoesToDoorFacts
<1>10. game'[g] = q
  BY <1>1 DEF MovedOn
<1>11. Mine(p, g)
  <2>1. p \notin DOMAIN q.reg /\ p \notin DOMAIN q.watch /\ q.pend[p] = s
    BY <1>2, <1>3, <1>5, <1>6
  <2>2. p = Owner[s]
    OBVIOUS
  <2> HIDE DEF p
  <2> QED
    BY <1>1, <1>9, <1>10, <2>1, <2>2 DEF Mine
<1> QED
  BY <1>1, <1>2, <1>6, <1>8, <1>9, <1>11, MoveStep

\* With chips in a game that is played, and the chips' tab bound to it.
LEMMA SeatWelcome ==
  ASSUME Ind, NEW s \in Tabs, NEW g \in Games, game[g].st = "running",
         Owner[s] \in DOMAIN game[g].reg,
         NEW m \in Entry, m.st = game[g].st, m.out = game[g].out, m.books = game[g].books,
         m.reg = game[g].reg, m.pend = game[g].pend, m.stack \subseteq game[g].stack \cup {Owner[s]},
         DOMAIN m.watch \subseteq DOMAIN game[g].watch,
         \A x \in DOMAIN m.watch : m.watch[x] = game[g].watch[x],
         NEW q \in Entry, q.st = m.st, q.out = m.out, q.books = m.books, q.stack = m.stack,
         q.pend = m.pend, q.watch = m.watch, DOMAIN q.reg = DOMAIN m.reg,
         \A x \in DOMAIN m.reg \ {Owner[s]} : q.reg[x] = m.reg[x]
  PROVE  Welcome(Owner[s], g, q, game[g])
<1> DEFINE p == Owner[s]
           r == game[g]
<1>1. p \in People /\ On(r) /\ Fair(g, r)
  BY LobbyAssumption DEF On, Ind, Barred
<1>2. p \notin DOMAIN r.pend /\ p \notin DOMAIN r.watch
  BY <1>1, OnePlaceHere
<1>3. Fair(g, q)
  BY <1>1 DEF Fair, On
<1>4. Turns(q, r)
  BY <1>1 DEF Turns, On
<1>5. Others(p, q, r)
  BY <1>1 DEF Others, On
<1> QED
  BY <1>1, <1>2, <1>3, <1>4, <1>5 DEF Welcome

LEMMA ElsewhereOut ==
  ASSUME Ind, NEW p \in People, NEW g \in Games, game[g].st = "running", p \in DOMAIN game[g].reg
  PROVE  \A h \in Games \ {g} : On(game[h]) => p \notin DOMAIN game[h].reg
BY Alone DEF On

LEMMA IndTakeAddOn ==
  ASSUME Ind, NEW s \in Tabs, NEW g \in Games, TakeAddOn(s, g)
  PROVE  Ind' /\ Books
<1> DEFINE p == Owner[s]
           m == MovedOn(game, p, g)[g]
           q == Bind(m, p, s)
<1>1. /\ p \in People /\ s \in online /\ UNCHANGED online /\ game[g].st = "running"
      /\ p \in DOMAIN game[g].reg
      /\ game' = [MovedOn(game, p, g) EXCEPT ![g] = q]
      /\ data' = [LeaveDoors(data, DoorTabs(p, g)) EXCEPT ![s].game = g]
  BY LobbyAssumption DEF TakeAddOn, Here, MovedOn
<1>2. /\ m \in Entry /\ Alike(m, game[g]) /\ m.reg = game[g].reg
      /\ DOMAIN m.watch = DOMAIN game[g].watch \ {p}
      /\ \A x \in DOMAIN m.watch : m.watch[x] = game[g].watch[x]
      /\ m.pend = game[g].pend
  BY <1>1, OnTheWay
<1> HIDE DEF m
<1>3. /\ q \in Entry /\ Alike(q, m) /\ q.reg = Put(m.reg, p, At(s))
      /\ q.pend = m.pend /\ q.watch = m.watch
  BY <1>1, <1>2, BindFacts
<1>4. /\ DOMAIN q.reg = DOMAIN m.reg /\ q.reg[p].sock = s
      /\ \A x \in DOMAIN m.reg \ {p} : q.reg[x] = m.reg[x]
  <2> HIDE DEF q, p
  <2> QED  BY <1>1, <1>2, <1>3 DEF Put, At
<1>5. Welcome(p, g, q, game[g])
  <2> HIDE DEF q
  <2>1. /\ m.st = game[g].st /\ m.out = game[g].out /\ m.books = game[g].books
        /\ m.stack = game[g].stack
        /\ q.st = m.st /\ q.out = m.out /\ q.books = m.books /\ q.stack = m.stack
    BY <1>2, <1>3 DEF Alike
  <2> QED
    BY <1>1, <1>2, <1>3, <1>4, <2>1, SeatWelcome
<1>6. \A h \in Games \ {g} : On(game[h]) => p \notin DOMAIN game[h].reg
  BY <1>1, ElsewhereOut
<1> HIDE DEF q
<1> QED
  BY <1>1, <1>2, <1>3, <1>4, <1>5, <1>6, SitDownStep

LEMMA IndReenter ==
  ASSUME Ind, NEW s \in Tabs, NEW g \in Games, Reenter(s, g)
  PROVE  Ind' /\ Books
<1> DEFINE p == Owner[s]
           r == [game[g] EXCEPT !.stack = @ \cup {p}]
<1>1. /\ p \in People /\ s \in online /\ UNCHANGED online /\ game[g].st = "running"
      /\ p \in DOMAIN game[g].reg /\ game[g] \in Entry /\ game[g].reg \in Maps(Rows)
  BY LobbyAssumption, EntryType DEF Reenter, Here, Ind
<1>2. /\ r \in Entry /\ r.st = game[g].st /\ r.out = game[g].out /\ r.books = game[g].books
      /\ r.reg = game[g].reg /\ r.pend = game[g].pend /\ r.watch = game[g].watch
      /\ r.stack = game[g].stack \cup {p}
  BY <1>1 DEF Entry
<1>3. \/ data[s].game = g /\ Set(g, [r EXCEPT !.reg[p] = At(s)]) /\ UNCHANGED data
      \/ /\ game' = [MovedOn(game, p, g) EXCEPT ![g] = Bind(r, p, s)]
         /\ data' = [LeaveDoors(data, DoorTabs(p, g)) EXCEPT ![s].game = g]
  BY DEF Reenter
<1> HIDE DEF r, p
<1>4. CASE data[s].game = g /\ Set(g, [r EXCEPT !.reg[p] = At(s)]) /\ UNCHANGED data
  <2> DEFINE w == [r.reg EXCEPT ![p] = At(s)]
             q == [r EXCEPT !.reg[p] = At(s)]
  <2>1. r.reg \in Maps(Rows) /\ p \in DOMAIN r.reg /\ At(s) \in Rows
    BY <1>1, <1>2, RowTypes
  <2>2. /\ w \in Maps(Rows) /\ DOMAIN w = DOMAIN r.reg
        /\ \A x \in DOMAIN r.reg : w[x] = IF x = p THEN At(s) ELSE r.reg[x]
    BY <2>1, MapExcept
  <2>3. q = [r EXCEPT !.reg = w]
    BY <1>2 DEF Entry
  <2> HIDE DEF w, q
  <2>4. /\ q \in Entry /\ q.st = r.st /\ q.out = r.out /\ q.books = r.books /\ q.stack = r.stack
        /\ q.reg = w /\ q.pend = r.pend /\ q.watch = r.watch
    BY <1>2, <2>2, <2>3 DEF Entry
  <2>5. w[p].sock = s
    BY <2>1, <2>2 DEF At
  <2>6. Set(g, q)
    BY <1>4 DEF q
  <2>7. Welcome(p, g, q, game[g])
    <3>1. DOMAIN q.reg = DOMAIN r.reg /\ \A x \in DOMAIN r.reg \ {p} : q.reg[x] = r.reg[x]
      BY <2>2, <2>4
    <3> QED
      BY <1>1, <1>2, <2>4, <3>1, SeatWelcome DEF p
  <2>8. Calm(q, game[g])
    BY <1>1, <1>2, <2>2, <2>4 DEF Calm
  <2>9. game'[g] = q
    BY <2>4, <2>6, SetFacts DEF Ind
  <2>10. Mine(p, g)
    <3>1. p \notin DOMAIN q.watch /\ p \notin DOMAIN q.pend /\ p \in DOMAIN q.reg /\ q.reg[p].sock = s
      BY <2>1, <2>2, <2>4, <2>5, <2>7 DEF Welcome
    <3>2. s \in online' /\ data'[s].game = g /\ Owner[s] = p
      BY <1>1, <1>4 DEF p
    <3> QED
      BY <2>9, <3>1, <3>2 DEF Mine
  <2>11. /\ data' \in DataType /\ online' \subseteq Tabs
         /\ Owned(p, {}) /\ Still({}) /\ \A h \in Games \ {g} : Spared({}, p, h)
    BY <1>1, <1>4 DEF Ind, TypeOK, DataType, Owned, Still, Spared
  <2>12. Others(p, q, game[g])
    BY <2>7 DEF Welcome
  <2>13. Tame(g, q, game[g])
    BY <2>8, CalmTame
  <2> QED
    BY <1>1, <2>4, <2>6, <2>10, <2>11, <2>12, <2>13, TameOwnStep
<1>5. CASE /\ game' = [MovedOn(game, p, g) EXCEPT ![g] = Bind(r, p, s)]
           /\ data' = [LeaveDoors(data, DoorTabs(p, g)) EXCEPT ![s].game = g]
  <2> DEFINE q == Bind(r, p, s)
  <2>1. /\ q \in Entry /\ Alike(q, r) /\ q.reg = Put(r.reg, p, At(s))
        /\ q.pend = r.pend /\ q.watch = r.watch
    BY <1>1, <1>2, BindFacts
  <2>2. /\ game' = [MovedOn(game, p, g) EXCEPT ![g] = q]
    BY <1>5
  <2> HIDE DEF q
  <2>3. /\ DOMAIN q.reg = DOMAIN r.reg /\ q.reg[p].sock = s /\ p \in DOMAIN q.reg
        /\ \A x \in DOMAIN r.reg \ {p} : q.reg[x] = r.reg[x]
    BY <1>1, <1>2, <2>1 DEF Put, At
  <2>4. Welcome(p, g, q, game[g])
    <3>1. q.st = r.st /\ q.out = r.out /\ q.books = r.books /\ q.stack = r.stack
      BY <2>1 DEF Alike
    <3> QED
      BY <1>1, <1>2, <2>1, <2>3, <3>1, SeatWelcome DEF p
  <2>5. \A h \in Games \ {g} : On(game[h]) => p \notin DOMAIN game[h].reg
    BY <1>1, ElsewhereOut
  <2> QED
    BY <1>1, <1>5, <2>1, <2>2, <2>3, <2>4, <2>5, SitDownStep DEF p
<1> QED
  BY <1>3, <1>4, <1>5

-----------------------------------------------------------------------------
(* The sweep *)

\* A game that stays: whoever's request lapsed is sent away from its door.
LEMMA KeepStep ==
  ASSUME Ind, NEW g \in Games, NEW wait, NEW q \in Entry, Set(g, q), UNCHANGED online,
         Tame(g, q, Swept(game[g], wait)), Loose(q, Swept(game[g], wait)),
         data' = LeaveDoors(data, SentAway(game[g], wait))
  PROVE  Ind' /\ Books
<1> DEFINE r == Swept(game[g], wait)
           C == SentAway(game[g], wait) \ {None}
<1>1. /\ r \in Entry /\ Alike(r, game[g]) /\ r.reg = game[g].reg
      /\ DOMAIN r.pend = Waiting(game[g], wait) /\ Waiting(game[g], wait) \subseteq DOMAIN game[g].pend
      /\ \A p \in DOMAIN r.pend : r.pend[p] = game[g].pend[p]
      /\ DOMAIN r.watch \subseteq DOMAIN game[g].watch
      /\ \A p \in DOMAIN r.watch : r.watch[p] = game[g].watch[p]
  BY SweptFacts, EntryType DEF Ind
<1>2. Tame(g, q, r) /\ Loose(q, r)
  OBVIOUS
<1> HIDE DEF r
<1>3. Calm(r, game[g]) /\ Loose(r, game[g])
  BY <1>1 DEF Calm, Loose, Alike, On
<1>4. Tame(g, q, game[g]) /\ Loose(q, game[g])
  BY <1>2, <1>3, CalmTame, TameTwice, LooseTwice
<1>5. /\ game' \in [Games -> Entry] /\ game'[g] = q
      /\ \A h \in Games : h # g => game'[h] = game[h]
  BY SetFacts DEF Ind
<1>6. /\ data' \in DataType
      /\ \A t \in Tabs : data'[t].game = data[t].game
      /\ \A t \in Tabs : t \notin SentAway(game[g], wait) => data'[t] = data[t]
  BY LeaveDoorsFacts DEF Ind, DataType
<1>7. TypeOK' /\ online \subseteq Tabs
  BY <1>5, <1>6 DEF Ind, TypeOK, DataType
<1>8. \A h \in Games : Loose(game'[h], game[h])
  BY <1>4, <1>5, LooseSelf
<1>9. Heard(C)
  <2> SUFFICES ASSUME ~OldLinks, NEW h \in Games, NEW p \in People, On(game'[h])
      PROVE
      /\ p \in DOMAIN game'[h].reg /\ game'[h].reg[p].sock \in C =>
           game'[h].reg[p].sock \in online' /\ data'[game'[h].reg[p].sock].game = h
      /\ p \in DOMAIN game'[h].watch /\ game'[h].watch[p] \in C =>
           game'[h].watch[p] \in online' /\ data'[game'[h].watch[p]].game = h
      /\ p \in DOMAIN game'[h].pend => game'[h].pend[p] \notin C
    BY DEF Heard
  <2>1. On(game[h])
    BY <1>8 DEF Loose
  <2>2. ASSUME p \in DOMAIN game'[h].reg, game'[h].reg[p].sock \in C
        PROVE  game'[h].reg[p].sock \in online' /\ data'[game'[h].reg[p].sock].game = h
    <3>1. p \in DOMAIN game[h].reg /\ game'[h].reg[p].sock = game[h].reg[p].sock
          /\ game[h].reg[p].sock # None
      BY <1>8, <2>2 DEF Loose
    <3>2. game[h].reg[p].sock \in online /\ data[game[h].reg[p].sock].game = h
      BY <2>1, <3>1, ToldHere
    <3> QED  BY <1>6, <1>7, <3>1, <3>2
  <2>3. ASSUME p \in DOMAIN game'[h].watch, game'[h].watch[p] \in C
        PROVE  game'[h].watch[p] \in online' /\ data'[game'[h].watch[p]].game = h
    <3>1. p \in DOMAIN game[h].watch /\ game'[h].watch[p] = game[h].watch[p]
          /\ game[h].watch[p] # None
      BY <1>8, <2>3 DEF Loose
    <3>2. game[h].watch[p] \in online /\ data[game[h].watch[p]].game = h
      BY <2>1, <3>1, ToldHere
    <3> QED  BY <1>6, <1>7, <3>1, <3>2
  <2>4. ASSUME p \in DOMAIN game'[h].pend, game'[h].pend[p] \in C
        PROVE  FALSE
    <3>1. p \in DOMAIN game[h].pend /\ game'[h].pend[p] = game[h].pend[p]
          /\ game[h].pend[p] # None
      BY <1>8, <2>4 DEF Loose
    <3>2. PICK y \in DOMAIN game[g].pend \ Waiting(game[g], wait) : game[h].pend[p] = game[g].pend[y]
      BY <2>4, <3>1 DEF SentAway
    <3>3. y \in People
      BY EntryType DEF Ind
    <3>4. Owner[game[h].pend[p]] = p /\ Owner[game[g].pend[y]] = y
      BY <3>1, <3>2, <3>3, ToldHere
    <3>5. y = p
      BY <3>2, <3>4
    <3>6. h = g
      BY <3>1, <3>2, <3>5 DEF Ind, Unshared
    <3> QED
      BY <1>1, <1>2, <1>5, <2>4, <3>2, <3>5, <3>6 DEF Tame, Fewer
  <2> QED
    BY <2>2, <2>3, <2>4
<1>10. \A t \in Tabs \ C : data'[t] = data[t] /\ (t \in online => t \in online')
  BY <1>6, LobbyAssumption
<1> HIDE DEF C
<1>11. Told'
  BY <1>7, <1>8, <1>9, <1>10, LooseStep
<1> QED
  BY <1>4, <1>7, <1>11, SetTame DEF Ind

LEMMA StartedLoose ==
  ASSUME NEW r \in Entry, r.st = "registering"
  PROVE  Loose(Started(r), r)
BY StartedFacts DEF Loose, On

LEMMA IndSweep ==
  ASSUME Ind, NEW g \in Games, NEW wait, Sweep(g, wait)
  PROVE  Ind' /\ Books
<1> DEFINE r == Swept(game[g], wait)
           d == LeaveDoors(data, SentAway(game[g], wait))
           over == wait # "none"
<1>1. /\ game[g] \in Entry /\ r \in Entry /\ r.st = game[g].st /\ r.books = game[g].books
      /\ UNCHANGED online
  BY EntryType, SweptFacts DEF Ind, Alike, Sweep
<1>2. \/ /\ r.st = "registering" /\ data' = d
         /\ \E q \in TransferHost(Started(r), over) : Set(g, q)
      \/ /\ data' = d
         /\ \E q \in TransferHost(r, over) : Set(g, q)
      \/ /\ data' = d
         /\ \E q \in TransferHost(r, over) : Set(g, Synced(q))
      \/ data' = d /\ Set(g, r)
      \/ Remove(g, r) /\ r.st \in {"registering", "running", "finished"}
  BY DEF Sweep
<1> HIDE DEF d, r, over
<1>3. ASSUME r.st = "registering", data' = d, NEW q \in TransferHost(Started(r), over), Set(g, q)
      PROVE  Ind' /\ Books
  <2>1. Started(r) \in Entry /\ Tame(g, Started(r), r) /\ Loose(Started(r), r)
    BY <1>1, <1>3, StartedFacts, StartedTame, StartedLoose
  <2>2. q \in Entry /\ Ends(q, Started(r))
    BY <1>3, <2>1, TransferHostFacts
  <2>3. Tame(g, q, r) /\ Loose(q, r)
    BY <2>1, <2>2, EndsTame, EndsLoose, TameTwice, LooseTwice
  <2> QED
    BY <1>1, <1>3, <2>2, <2>3, KeepStep DEF d, r
<1>4. ASSUME data' = d, NEW q \in TransferHost(r, over), Set(g, q)
      PROVE  Ind' /\ Books
  <2>1. q \in Entry /\ Ends(q, r)
    BY <1>1, <1>4, TransferHostFacts
  <2>2. Tame(g, q, r) /\ Loose(q, r)
    BY <2>1, EndsTame, EndsLoose
  <2> QED
    BY <1>1, <1>4, <2>1, <2>2, KeepStep DEF d, r
<1>5. ASSUME data' = d, NEW q \in TransferHost(r, over), Set(g, Synced(q))
      PROVE  Ind' /\ Books
  <2>1. q \in Entry /\ Ends(q, r)
    BY <1>1, <1>5, TransferHostFacts
  <2>2. /\ Synced(q) \in Entry /\ Alike(Synced(q), q)
        /\ Synced(q).reg = q.reg /\ Synced(q).pend = q.pend /\ Synced(q).watch = q.watch
    BY <2>1, SyncedFacts
  <2>3. Ends(Synced(q), r)
    BY <2>1, <2>2 DEF Ends, Alike
  <2>4. Tame(g, Synced(q), r) /\ Loose(Synced(q), r)
    BY <2>3, EndsTame, EndsLoose
  <2> QED
    BY <1>1, <1>5, <2>2, <2>4, KeepStep DEF d, r
<1>6. ASSUME data' = d, Set(g, r)
      PROVE  Ind' /\ Books
  BY <1>1, <1>6, TameSelf, LooseSelf, KeepStep DEF d, r
<1>7. ASSUME Remove(g, r), r.st \in {"registering", "running", "finished"}
      PROVE  Ind' /\ Books
  BY <1>1, <1>7, RemoveStep DEF Exists
<1> QED
  BY <1>2, <1>3, <1>4, <1>5, <1>6, <1>7

-----------------------------------------------------------------------------
(* The restart *)

LEMMA RestoredTame ==
  ASSUME NEW g, NEW r \in Entry, On(r), r.books = "open"
  PROVE  /\ Restored(r) \in Entry /\ Tame(g, Restored(r), r) /\ Loose(Restored(r), r)
         /\ On(Restored(r)) =>
              /\ DOMAIN Restored(r).pend = {} /\ DOMAIN Restored(r).watch = {}
              /\ \A p \in DOMAIN Restored(r).reg : Restored(r).reg[p].sock = None
<1> DEFINE q == Restored(r)
<1>1. \/ Vacant(q) /\ q.st = "lost"
      \/ /\ q \in Entry /\ q.st = r.st /\ q.books = r.books /\ q.stack = r.stack
         /\ q.out = r.out /\ DOMAIN q.pend = {} /\ DOMAIN q.watch = {}
         /\ DOMAIN q.reg = DOMAIN r.reg /\ \A p \in DOMAIN q.reg : q.reg[p] = Fresh
  BY RestoredFacts
<1> HIDE DEF q
<1>2. Fresh.sock = None
  BY DEF Fresh
<1>3. CASE Vacant(q) /\ q.st = "lost"
  <2>1. Turns(q, r) /\ ~On(q)
    BY <1>3 DEF Turns, On
  <2> QED
    BY <1>3, <2>1, VacantTame, VacantLoose DEF Vacant, q
<1>4. CASE /\ q \in Entry /\ q.st = r.st /\ q.books = r.books /\ q.stack = r.stack
           /\ q.out = r.out /\ DOMAIN q.pend = {} /\ DOMAIN q.watch = {}
           /\ DOMAIN q.reg = DOMAIN r.reg /\ \A p \in DOMAIN q.reg : q.reg[p] = Fresh
  <2>1. Calm(q, r)
    BY <1>4 DEF Calm
  <2>2. Loose(q, r)
    BY <1>2, <1>4 DEF Loose, On
  <2> QED
    BY <1>2, <1>4, <2>1, <2>2, CalmTame DEF q
<1> QED
  BY <1>1, <1>3, <1>4

LEMMA RestartFacts ==
  ASSUME Ind, Restart, NEW g \in Games
  PROVE  /\ game'[g] \in Entry /\ Tame(g, game'[g], game[g]) /\ Loose(game'[g], game[g])
         /\ On(game'[g]) =>
              /\ DOMAIN game'[g].pend = {} /\ DOMAIN game'[g].watch = {}
              /\ \A p \in DOMAIN game'[g].reg : game'[g].reg[p].sock = None
<1>1. game[g] \in Entry
  BY EntryType DEF Ind
<1>2. CASE Live(g)
  <2>1. On(game[g]) /\ game[g].books = "open"
    BY <1>2 DEF Live, On, Ind, Ended
  <2>2. game'[g] = Restored(game[g])
    BY <1>2 DEF Restart
  <2> QED
    BY <1>1, <2>1, <2>2, RestoredTame
<1>3. CASE ~Live(g) /\ Exists(g)
  <2>1. game'[g] = Gone(game[g]) /\ game[g].st # "gone"
    BY <1>3 DEF Restart, Exists
  <2> QED
    BY <1>1, <2>1, GoneTame, VacantLoose
<1>4. CASE ~Live(g) /\ ~Exists(g)
  <2>1. game'[g] = game[g] /\ ~On(game[g])
    BY <1>4 DEF Restart, Live, On
  <2> QED
    BY <1>1, <2>1, TameSelf, LooseSelf
<1> QED
  BY <1>2, <1>3, <1>4

LEMMA IndRestart ==
  ASSUME Ind, Restart
  PROVE  Ind' /\ Books
<1>1. \A g \in Games :
        /\ game'[g] \in Entry /\ Tame(g, game'[g], game[g]) /\ Loose(game'[g], game[g])
        /\ On(game'[g]) =>
             /\ DOMAIN game'[g].pend = {} /\ DOMAIN game'[g].watch = {}
             /\ \A p \in DOMAIN game'[g].reg : game'[g].reg[p].sock = None
  BY RestartFacts
<1>2. game' \in [Games -> Entry]
  <2>1. game' = [g \in Games |-> game'[g]]
    BY DEF Restart
  <2> QED  BY <1>1, <2>1
<1>3. TypeOK'
  BY <1>2 DEF Restart, TypeOK, NoData
<1>4. Heard(Tabs)
  BY <1>1, LobbyAssumption DEF Heard
<1>5. Told'
  BY <1>1, <1>3, <1>4, LooseStep
<1> QED
  BY <1>1, <1>3, <1>5, TameStep DEF Ind

-----------------------------------------------------------------------------
(* Every step *)

LEMMA IndInit == Init => Ind
<1> SUFFICES ASSUME Init PROVE Ind
  OBVIOUS
<1>1. \A g \in Games : game[g] = NoGame
  BY DEF Init
<1>2. NoGame \in Entry /\ ~On(NoGame) /\ NoGame.st = "none" /\ NoGame.books = "open"
      /\ DOMAIN NoGame.reg = {} /\ DOMAIN NoGame.pend = {} /\ DOMAIN NoGame.watch = {}
      /\ NoGame.out = {} /\ NoGame.stack = {}
  BY NoGameFacts DEF Vacant, On
<1>3. TypeOK
  BY <1>2 DEF Init, TypeOK, NoData
<1>4. Ended /\ Unshared /\ Told
  BY <1>1, <1>2 DEF Ended, Unshared, Told
<1>5. Barred
  BY <1>1, <1>2 DEF Barred, Fair
<1> QED
  BY <1>3, <1>4, <1>5 DEF Ind

LEMMA IndOfTab ==
  ASSUME Ind, NEW s \in Tabs, OfTab(s)
  PROVE  Ind' /\ Books
<1>1. CASE Connect(s) \/ Disconnect(s) \/ Resume(s) \/ Withdraw(s) \/ StopWatching(s)
           \/ Unregister(s) \/ Leave(s) \/ StartNow(s)
  BY <1>1, IndConnect, IndDisconnect, IndResume, IndWithdraw, IndStopWatching, IndUnregister,
     IndLeave, IndStartNow
<1>2. ASSUME NEW g \in Games,
             Create(s, g) \/ Rejoin(s, g) \/ Join(s, g) \/ Ask(s, g) \/ Watch(s, g)
             \/ Reenter(s, g) \/ TakeAddOn(s, g) \/ Forfeit(s, g)
      PROVE  Ind' /\ Books
  BY <1>2, IndCreate, IndRejoin, IndJoin, IndAsk, IndWatch, IndReenter, IndTakeAddOn, IndForfeit
<1>3. ASSUME NEW q \in People, Admit(s, q) \/ Decline(s, q) \/ RemovePlayer(s, q)
      PROVE  Ind' /\ Books
  BY <1>3, IndAdmit, IndDecline, IndRemovePlayer
<1> QED
  BY <1>1, <1>2, <1>3 DEF OfTab

LEMMA IndOfGame ==
  ASSUME Ind, NEW g \in Games, OfGame(g)
  PROVE  Ind' /\ Books
<1>1. CASE Cancel(g) \/ HandEnds(g) \/ LateRegCloses(g)
  BY <1>1, IndCancel, IndHandEnds, IndLateRegCloses
<1>2. ASSUME NEW p \in People, Bust(g, p)
      PROVE  Ind' /\ Books
  BY <1>2, IndBust
<1>3. ASSUME NEW wait \in Waits, Sweep(g, wait)
      PROVE  Ind' /\ Books
  BY <1>3, IndSweep
<1> QED
  BY <1>1, <1>2, <1>3 DEF OfGame

LEMMA IndStutter ==
  ASSUME Ind, UNCHANGED vars
  PROVE  Ind'
<1>1. TypeOK' /\ Ended' /\ Unshared'
  BY DEF Ind, vars, TypeOK, Ended, Unshared, On
<1>2. Barred' /\ Told'
  BY DEF Ind, vars, Barred, Fair, Told, On
<1> QED
  BY <1>1, <1>2 DEF Ind

LEMMA IndNext == Ind /\ [Next]_vars => Ind' /\ (Books \/ UNCHANGED vars)
BY IndOfTab, IndOfGame, IndRestart, IndStutter DEF Next

LEMMA IndAlways == Spec => []Ind
BY IndInit, IndNext, PTL DEF Spec

-----------------------------------------------------------------------------
(* What follows *)

\* Every variable of the lobby keeps its type.
THEOREM LobbyTypes == Spec => []TypeOK
<1>1. Ind => TypeOK
  BY DEF Ind
<1> QED
  BY <1>1, IndAlways, PTL

\* OneEnding: however a game goes, by the host, by an administrator, by the
\* sweep, by the last hand or by a restart, its end is written down then, once.
THEOREM EndsOnce == Spec => OneEnding
<1>1. Ind /\ [Next]_vars => [Books]_vars
  BY IndNext
<1>2. [Books]_vars <=>
        [\A g \in Games :
           /\ game[g].books # "open" => game'[g].books = game[g].books
           /\ game'[g].st \in {"finished", "gone"} => game'[g].books # "open"]_vars
  BY DEF Books
<1> QED
  BY <1>1, <1>2, IndAlways, PTL DEF Spec, OneEnding

\* At most one element, so at most one.
LEMMA AtMostOne ==
  ASSUME NEW S, \A x, y \in S : x = y
  PROVE  Cardinality(S) \in {0, 1} /\ (S = {} => Cardinality(S) = 0)
<1>1. CASE S = {}
  BY <1>1, FS_EmptySet
<1>2. ASSUME NEW x \in S PROVE Cardinality(S) = 1
  <2>1. S = {x}
    OBVIOUS
  <2> QED  BY <2>1, FS_Singleton
<1> QED
  BY <1>1, <1>2

LEMMA OnePlaceOfEach ==
  ASSUME Ind
  PROVE  OnePlace
<1>1. \A g \in Games : Live(g) <=> On(game[g])
  BY DEF Live, On
<1>2. ASSUME NEW p \in People
      PROVE  Cardinality(MemberOf(p)) + Cardinality(WaitingOn(p)) + Cardinality(RailOf(p)) <= 1
  <2>1. /\ \A g, h \in MemberOf(p) : g = h
        /\ \A g, h \in WaitingOn(p) : g = h
        /\ \A g, h \in RailOf(p) : g = h
    BY <1>1 DEF MemberOf, WaitingOn, RailOf, Ind, Unshared
  <2>2. /\ MemberOf(p) # {} => WaitingOn(p) = {} /\ RailOf(p) = {}
        /\ WaitingOn(p) # {} => RailOf(p) = {}
    <3>1. ASSUME NEW g \in MemberOf(p) PROVE WaitingOn(p) = {} /\ RailOf(p) = {}
      BY <1>1 DEF MemberOf, WaitingOn, RailOf, Ind, Unshared
    <3>2. ASSUME NEW g \in WaitingOn(p) PROVE RailOf(p) = {}
      BY <1>1 DEF WaitingOn, RailOf, Ind, Unshared
    <3>3. MemberOf(p) # {} => WaitingOn(p) = {} /\ RailOf(p) = {}
      <4> SUFFICES ASSUME MemberOf(p) # {} PROVE WaitingOn(p) = {} /\ RailOf(p) = {}
        OBVIOUS
      <4>1. PICK g : g \in MemberOf(p)
        OBVIOUS
      <4> QED  BY <3>1, <4>1
    <3>4. WaitingOn(p) # {} => RailOf(p) = {}
      <4> SUFFICES ASSUME WaitingOn(p) # {} PROVE RailOf(p) = {}
        OBVIOUS
      <4>1. PICK g : g \in WaitingOn(p)
        OBVIOUS
      <4> QED  BY <3>2, <4>1
    <3> QED  BY <3>3, <3>4
  <2>3. /\ Cardinality(MemberOf(p)) \in {0, 1} /\ (MemberOf(p) = {} => Cardinality(MemberOf(p)) = 0)
        /\ Cardinality(WaitingOn(p)) \in {0, 1} /\ (WaitingOn(p) = {} => Cardinality(WaitingOn(p)) = 0)
        /\ Cardinality(RailOf(p)) \in {0, 1} /\ (RailOf(p) = {} => Cardinality(RailOf(p)) = 0)
    BY <2>1, AtMostOne
  <2> QED
    BY <2>2, <2>3
<1>3. ASSUME NEW g \in Games
      PROVE  game[g].out \cap
               (DOMAIN game[g].reg \cup DOMAIN game[g].pend \cup DOMAIN game[g].watch) = {}
  BY DEF Ind, Barred, Fair
<1> QED
  BY <1>2, <1>3 DEF OnePlace

\* OnePlace: a person has one place among the games that are on, whichever of
\* their tabs joins, asks, watches, moves on or is let in, and whom the host
\* removed gets none in that game again.
THEOREM OnePlaceEach == Spec => []OnePlace
BY IndAlways, OnePlaceOfEach, PTL

\* BoundBack: whoever a game that is on counts as present is bound to a
\* connected tab of theirs that will tell it when it goes; but for the old
\* link, which may unbind the game that is on.
THEOREM BoundIsBack ==
  ASSUME ~OldLinks
  PROVE  Spec => []BoundBack
<1>1. Ind => BoundBack
  <2> SUFFICES ASSUME Ind PROVE BoundBack
    OBVIOUS
  <2> SUFFICES ASSUME NEW g \in Games, On(game[g])
      PROVE
      /\ \A p \in DOMAIN game[g].reg : game[g].reg[p].sock # None =>
           /\ game[g].reg[p].sock \in online /\ Owner[game[g].reg[p].sock] = p
           /\ data[game[g].reg[p].sock].game = g
      /\ \A p \in DOMAIN game[g].watch : game[g].watch[p] # None =>
           /\ game[g].watch[p] \in online /\ Owner[game[g].watch[p]] = p
           /\ data[game[g].watch[p]].game = g
      /\ \A p \in DOMAIN game[g].pend : game[g].pend[p] # None =>
           /\ game[g].pend[p] \in online /\ Owner[game[g].pend[p]] = p
           /\ data[game[g].pend[p]].door = g
    BY DEF BoundBack, Live, On
  <2>1. /\ DOMAIN game[g].reg \subseteq People /\ DOMAIN game[g].pend \subseteq People
        /\ DOMAIN game[g].watch \subseteq People
    BY EntryType DEF Ind
  <2>2. ASSUME NEW p \in DOMAIN game[g].reg, game[g].reg[p].sock # None
        PROVE  /\ game[g].reg[p].sock \in online /\ Owner[game[g].reg[p].sock] = p
               /\ data[game[g].reg[p].sock].game = g
    BY <2>1, <2>2, ToldHere
  <2>3. ASSUME NEW p \in DOMAIN game[g].watch, game[g].watch[p] # None
        PROVE  /\ game[g].watch[p] \in online /\ Owner[game[g].watch[p]] = p
               /\ data[game[g].watch[p]].game = g
    BY <2>1, <2>3, ToldHere
  <2>4. ASSUME NEW p \in DOMAIN game[g].pend, game[g].pend[p] # None
        PROVE  /\ game[g].pend[p] \in online /\ Owner[game[g].pend[p]] = p
               /\ data[game[g].pend[p]].door = g
    BY <2>1, <2>4, ToldHere
  <2> QED
    BY <2>2, <2>3, <2>4
<1> QED
  BY <1>1, IndAlways, PTL
=============================================================================
