-------------------------------- MODULE Chat --------------------------------
(***************************************************************************)
(* What is said at the tables and what is kept beside the field: the rooms *)
(* of chat-rooms.js, whom tournament-registry.js sends them to, the page's *)
(* watermark in public/js/chat.js, and the two stores that are written     *)
(* behind it, chat-store.js and hand-history-store.js.                     *)
(*                                                                         *)
(* What is sent to a page is in flight until the page takes it, in order;  *)
(* a connection that drops and recovers is given what it missed and then   *)
(* the room's backlog, one that does not recover only the backlog. A       *)
(* message is its sequence number and an identity of its own, for a number *)
(* may come round again after a crash.                                     *)
(*                                                                         *)
(* A definition marked Slip is a plausible mistake in the one below it.    *)
(***************************************************************************)
EXTENDS Integers, Sequences, SequencesExt

CONSTANTS
  Games,      \* running games
  Tables,     \* their table numbers
  Seated,     \* people with a seat, as chat sees them: someone who reads
  Railed,     \* people who watch: the busted and the rail
  Nowhere,    \* where somebody is who reads nothing
  MaxSaid,    \* bound: messages
  MaxEvents   \* bound: hands, moves, drops, refusals and ends in all

ASSUME ChatAssumption ==
  /\ IsFiniteSet(Games) /\ IsFiniteSet(Tables)
  /\ Tables \subseteq Nat \ {0} /\ Tables # {} /\ Seated \cap Railed = {}
  /\ Nowhere \notin Games \X Tables
  /\ {MaxSaid, MaxEvents} \subseteq Nat

Readers == Seated \cup Railed
Rooms == Games \X Tables
Kinds == {"chat", "history"}

Message == [seq : Nat \ {0}, id : Int]

\* What was said in a room, in the order of its numbers, and what is kept of a
\* game: of its chat room by room, of its hands how many.
Backlogs == {ms \in Seq(Message) : \A i, j \in DOMAIN ms : i < j => ms[i].seq < ms[j].seq}
Docs(k) == IF k = "chat" THEN [Tables -> Backlogs] ELSE Nat

VARIABLES
  up,        \* the server answers
  live,      \* games on the list
  rooms,     \* room -> its messages, oldest first
  closed,    \* rooms of broken tables
  seq,       \* the last sequence number given
  hands,     \* game -> hands its director has kept
  at,        \* reader -> the room they are at
  connected, \* readers the server has a socket for
  wire,      \* reader -> what was sent and not yet taken: <<room, messages>>
  seen,      \* reader -> room -> the page's watermark
  drawn,     \* reader -> room -> how often each identity was drawn
  store,     \* kind -> the store in memory
  db,        \* kind -> the table: game -> document
  listed,    \* the games the tournaments table holds
  lost,      \* a chat in memory was not what its table held when the process
             \* ended, or an old file was left where it may be read in again
  said,      \* messages so far (MaxSaid)
  events     \* what else has happened (MaxEvents)

talk  == <<live, rooms, closed, seq, hands>>
pages == <<at, connected, wire, seen, drawn>>
disk  == <<db, listed>>
spent == <<said, events>>
vars  == <<up, talk, pages, store, disk, lost, spent>>

\* What is counted against the bound.
Counted == events < MaxEvents /\ events' = events + 1

With(table, g, doc) == [h \in DOMAIN table \cup {g} |-> IF h = g THEN doc ELSE table[h]]
Without(table, S)   == Restrict(table, DOMAIN table \ S)

-----------------------------------------------------------------------------
(* The stores: one write at a time, of everything that waits *)

Fresh(table) ==
  [held |-> table, dirty |-> {}, gone |-> {}, timer |-> FALSE,
   writing |-> FALSE, queued |-> FALSE, batch |-> {}, stray |-> {}, doubtful |-> {}]

Recorded(s, g, doc) ==
  [s EXCEPT !.held = With(@, g, doc), !.dirty = @ \cup {g}, !.gone = @ \ {g}, !.timer = TRUE]

Removed(s, S) ==
  [s EXCEPT !.held = Without(@, S), !.dirty = @ \ S, !.gone = @ \cup S, !.timer = TRUE]

Waits(s) == s.dirty \cup s.gone # {}

Ops(s) == {[game |-> g, doc |-> <<s.held[g]>>] : g \in s.dirty \cap DOMAIN s.held}
            \cup {[game |-> g, doc |-> <<>>] : g \in s.gone}

\* flushAsync(): while a write is under way it only remembers to come back.
Taken(s) ==
  IF s.writing THEN [s EXCEPT !.timer = FALSE, !.queued = TRUE]
  ELSE [s EXCEPT !.timer = FALSE, !.writing = Waits(s), !.batch = Ops(s), !.dirty = {}, !.gone = {}]

\* Slip: what came to wait during the write is taken for written.
WrittenWithAll(s) == [s EXCEPT !.writing = FALSE, !.queued = FALSE, !.dirty = {}]

\* The end of a write, whole or broken off.
Written(s) ==
  [s EXCEPT !.writing = FALSE, !.queued = FALSE, !.timer = @ \/ s.queued \/ Waits(s)]

Applied(table, op) ==
  IF op.doc = <<>> THEN Without(table, {op.game}) ELSE With(table, op.game, op.doc[1])

Timer(k) ==
  /\ up /\ store[k].timer
  /\ store' = [store EXCEPT ![k] = Taken(@)]
  /\ UNCHANGED <<up, talk, pages, disk, lost, spent>>

\* The statements of a batch run side by side on the pool.
Land(k, op) ==
  LET s == store[k]
      left == [s EXCEPT !.batch = @ \ {op}, !.stray = @ \ {op}]
  IN /\ up /\ op \in s.batch \cup s.stray
     /\ db' = [db EXCEPT ![k] = Applied(@, op)]
     /\ store' = [store EXCEPT ![k] = IF op \in s.batch /\ left.batch = {} THEN Written(left) ELSE left]
     /\ UNCHANGED <<up, talk, pages, listed, lost, spent>>

\* The first refusal ends the write: what was in it is not put again, and
\* the statements still on their way are not waited for.
Refused(k, op) ==
  LET s == store[k] IN
  /\ up /\ op \in s.batch /\ Counted
  /\ store' = [store EXCEPT ![k] =
       Written([s EXCEPT !.batch = {}, !.stray = @ \cup (s.batch \ {op}),
                         !.doubtful = @ \cup {o.game : o \in s.batch}])]
  /\ UNCHANGED <<up, talk, pages, disk, lost, said>>

-----------------------------------------------------------------------------
(* The rooms and the pages *)

Snapshot(g, table) == [t \in Tables |-> table[<<g, t>>]]

Listens(p, r) == p \in connected /\ at[p] = r

\* A message to a room, sent to each page that listens there.
Posted(r, n) == [seq |-> seq + n, id |-> said + n]

\* The host speaks to every table at once, anybody else to their own.
Post(S) ==
  LET nth(r) == Cardinality({q \in S : q[2] <= r[2]})
      new == [r \in S |-> Posted(r, nth(r))]
      g == (CHOOSE r \in S : TRUE)[1]
  IN /\ up /\ S # {} /\ said + Cardinality(S) <= MaxSaid
     /\ \A r \in S : r[1] \in live /\ r \notin closed
     /\ rooms' = [r \in Rooms |-> IF r \in S THEN Append(rooms[r], new[r]) ELSE rooms[r]]
     /\ seq' = seq + Cardinality(S)
     /\ said' = said + Cardinality(S)
     /\ wire' = [p \in Readers |-> IF \E r \in S : Listens(p, r)
                                   THEN Append(wire[p], <<at[p], <<new[at[p]]>>>>) ELSE wire[p]]
     /\ store' = [store EXCEPT !["chat"] = Recorded(@, g, Snapshot(g, rooms'))]
     /\ UNCHANGED <<up, live, closed, hands, at, connected, seen, drawn, disk, lost, events>>

\* What of a payload the page has not drawn, by the room's watermark.
Unseen(p, r, msgs) == {i \in DOMAIN msgs : msgs[i].seq > seen[p][r]}

\* How often each identity is drawn once the messages at I are drawn as well.
WithDrawn(times, msgs, I) ==
  [d \in DOMAIN times \cup {msgs[i].id : i \in I} |->
     (IF d \in DOMAIN times THEN times[d] ELSE 0) + Cardinality({i \in I : msgs[i].id = d})]

\* The page takes the next thing sent to it. Drawn is what the watermark lets
\* through: that of the copies of one announcement in several rooms the page
\* then shows the first only (drawnGroups) is left out.
Take(p) ==
  LET r == Head(wire[p])[1]
      msgs == Head(wire[p])[2]
      fresh == Unseen(p, r, msgs)
  IN /\ wire[p] # <<>> /\ p \in connected
     /\ wire' = [wire EXCEPT ![p] = Tail(@)]
     /\ drawn' = [drawn EXCEPT ![p][r] = WithDrawn(@, msgs, fresh)]
     /\ seen' = [seen EXCEPT ![p][r] = Max({@} \cup {msgs[i].seq : i \in fresh})]
     /\ UNCHANGED <<up, talk, at, connected, store, disk, lost, spent>>

\* A room's backlog on the wire of a connected reader.
History(w, p, r) == IF p \in connected THEN Append(w, <<r, rooms[r]>>) ELSE w

\* Slip: the table a player is moved to sends nothing of what was said there.
GoToSilently(p, r) ==
  /\ up /\ at[p] # Nowhere /\ at[p] # r /\ r[1] = at[p][1] /\ r \notin closed /\ Counted
  /\ at' = [at EXCEPT ![p] = r]
  /\ UNCHANGED <<up, talk, connected, wire, seen, drawn, store, disk, lost, said>>

\* A seat moved to another table, or a watcher turning to one.
GoTo(p, r) ==
  /\ up /\ at[p] # Nowhere /\ at[p] # r /\ r[1] = at[p][1] /\ r \notin closed /\ Counted
  /\ at' = [at EXCEPT ![p] = r]
  /\ wire' = [wire EXCEPT ![p] = History(@, p, r)]
  /\ UNCHANGED <<up, talk, connected, seen, drawn, store, disk, lost, said>>

\* Whether the tables would give back other than what is kept in memory.
Behind(tables, onList) ==
  LET held == store["chat"].held IN
  \E g \in live \cap onList \cap DOMAIN held :
    g \notin DOMAIN tables["chat"] \/ tables["chat"][g] # held[g]

\* A table breaks: its seats are moved, its room goes, and those who watched
\* it are pointed at another table.
BreakTable(r, to) ==
  /\ up /\ r[1] \in live /\ to # r /\ to[1] = r[1] /\ {r, to} \cap closed = {}
  /\ \E p \in Readers : at[p] = r
  /\ Counted
  /\ at' = [p \in Readers |-> IF at[p] = r THEN to ELSE at[p]]
  /\ wire' = [p \in Readers |-> IF at[p] = r /\ p \in Seated THEN History(wire[p], p, to) ELSE wire[p]]
  /\ rooms' = [rooms EXCEPT ![r] = <<>>] /\ closed' = closed \cup {r}
  /\ UNCHANGED <<up, live, seq, hands, connected, seen, drawn, store, disk, lost, said>>

Drop(p) ==
  /\ p \in connected /\ Counted
  /\ connected' = connected \ {p}
  /\ UNCHANGED <<up, talk, at, wire, seen, drawn, store, disk, lost, said>>

\* The page comes back, with what it missed or without, or is loaded anew.
Return(p) ==
  /\ up /\ p \notin connected /\ at[p] # Nowhere
  /\ connected' = connected \cup {p}
  /\ \/ /\ \E missed \in {wire[p], <<>>} :
             wire' = [wire EXCEPT ![p] = Append(missed, <<at[p], rooms[at[p]]>>)]
        /\ UNCHANGED <<seen, drawn>>
     \/ /\ wire' = [wire EXCEPT ![p] = <<<<at[p], rooms[at[p]]>>>>]
        /\ seen' = [seen EXCEPT ![p] = [r \in Rooms |-> 0]]
        /\ drawn' = [drawn EXCEPT ![p] = [r \in Rooms |-> [d \in {} |-> 0]]]
  /\ UNCHANGED <<up, talk, at, store, disk, lost, spent>>

-----------------------------------------------------------------------------
(* The games *)

\* A hand is over: what was dealt is written down with the rest.
HandKept(g) ==
  /\ up /\ g \in live /\ Counted
  /\ hands' = [hands EXCEPT ![g] = @ + 1]
  /\ store' = [store EXCEPT !["history"] = Recorded(@, g, hands[g] + 1)]
  /\ UNCHANGED <<up, live, rooms, closed, seq, pages, disk, lost, said>>

\* A game goes: its hands are written one last time, its chat is dropped.
RemoveGame(g) ==
  /\ up /\ g \in live /\ Counted
  /\ live' = live \ {g}
  /\ store' = [chat |-> Removed(store["chat"], {g}),
               history |-> Recorded(store["history"], g, hands[g])]
  /\ rooms' = [r \in Rooms |-> IF r[1] = g THEN <<>> ELSE rooms[r]]
  /\ at' = [p \in Readers |-> IF at[p] # Nowhere /\ at[p][1] = g THEN Nowhere ELSE at[p]]
  /\ UNCHANGED <<up, closed, seq, hands, connected, wire, seen, drawn, disk, lost, said>>

\* The list reaches its table.
ListLands ==
  /\ up /\ listed # live /\ listed' = live
  /\ UNCHANGED <<up, talk, pages, store, db, lost, spent>>

-----------------------------------------------------------------------------
(* The end of the process and the next boot *)

Ended(tables, onList) ==
  /\ up /\ up' = FALSE /\ Counted
  /\ db' = tables /\ listed' = onList
  /\ lost' = (lost \/ Behind(tables, onList))
  /\ live' = {} /\ rooms' = [r \in Rooms |-> <<>>] /\ seq' = 0
  /\ hands' = [g \in Games |-> 0]
  /\ store' = [k \in Kinds |-> Fresh(<<>>)]
  /\ connected' = {} /\ wire' = [p \in Readers |-> <<>>]
  /\ UNCHANGED <<closed, at, seen, drawn, said>>

Landed(table, ops) ==
  [g \in (DOMAIN table \cup {o.game : o \in {x \in ops : x.doc # <<>>}})
           \ {o.game : o \in {x \in ops : x.doc = <<>>}} |->
     IF \E o \in ops : o.game = g THEN (CHOOSE o \in ops : o.game = g).doc[1] ELSE table[g]]

\* The process dies: of each write under way any part has arrived.
Crash ==
  \E c \in SUBSET store["chat"].batch, h \in SUBSET store["history"].batch :
    Ended([chat |-> Landed(db["chat"], c), history |-> Landed(db["history"], h)], listed)

\* An orderly stop: each store is asked to write what waits and is waited
\* for. One that is writing already answers at once, as written as it is.
Stop ==
  LET final(k) == IF store[k].writing THEN store[k].batch ELSE Ops(store[k]) IN
  Ended([k \in Kinds |-> Landed(db[k], final(k))], live)

\* The numbers go on above the highest that was kept.
SeqAfter(docs) ==
  Max({0} \cup {m.seq : m \in UNION {Range(docs[r[1]][r[2]]) : r \in (DOMAIN docs) \X Tables}})

\* A chat whose game did not come back is removed.
SweptAtBoot(s, onList) ==
  IF DOMAIN s.held \subseteq onList THEN s ELSE Removed(s, DOMAIN s.held \ onList)

\* The field may come back as it was before a table broke.
Boot ==
  LET docs == Restrict(db["chat"], DOMAIN db["chat"] \cap listed) IN
  /\ ~up /\ up' = TRUE
  /\ live' = listed
  /\ rooms' = [r \in Rooms |-> IF r[1] \in DOMAIN docs THEN docs[r[1]][r[2]] ELSE <<>>]
  /\ seq' = SeqAfter(docs)
  /\ closed' \in {closed, {}}
  /\ hands' = [g \in Games |-> IF g \in listed \cap DOMAIN db["history"] THEN db["history"][g] ELSE 0]
  /\ store' = [chat |-> SweptAtBoot(Fresh(db["chat"]), listed), history |-> Fresh(<<>>)]
  /\ at' = [p \in Readers |-> IF at[p] # Nowhere /\ at[p][1] \in listed THEN at[p] ELSE Nowhere]
  /\ UNCHANGED <<connected, wire, seen, drawn, disk, lost, spent>>

-----------------------------------------------------------------------------
Running ==
  \/ \E k \in Kinds : Timer(k) \/ \E op \in store[k].batch \cup store[k].stray : Land(k, op) \/ Refused(k, op)
  \/ \E r \in Rooms : Post({r})
  \/ \E g \in Games : Post(({g} \X Tables) \ closed) \/ HandKept(g) \/ RemoveGame(g)
  \/ \E p \in Readers : Take(p) \/ Drop(p) \/ Return(p) \/ \E r \in Rooms : GoTo(p, r)
  \/ \E r \in Rooms, to \in Rooms : BreakTable(r, to)
  \/ ListLands

(***************************************************************************)
(* Properties.                                                             *)
(***************************************************************************)
StoreOK(s) ==
  /\ DOMAIN s.held \subseteq Games /\ s.dirty \subseteq DOMAIN s.held
  /\ s.gone \cap DOMAIN s.held = {}
  /\ s.writing <=> s.batch # {}
  /\ Waits(s) => s.timer \/ s.writing

\* What is kept has its type, the numbers in a room rise, and a store with
\* something to write has a timer set or a write to come back from.
ChatTypeOK ==
  /\ live \cup listed \subseteq Games /\ seq \in Nat
  /\ \A r \in Rooms : rooms[r] \in Backlogs /\ \A i \in DOMAIN rooms[r] : rooms[r][i].seq <= seq
  /\ at \in [Readers -> Rooms \cup {Nowhere}] /\ connected \subseteq Readers
  /\ \A k \in Kinds : StoreOK(store[k])

\* A page draws what its room keeps, all of it and each message once: a
\* recovery that replays what was missed and then sends the backlog as well
\* draws nothing again, and for a seated player whose page has taken what was
\* sent, through moves, drops, reloads and restarts that lost no message, the
\* watermark swallows nothing.
DrawnAsSaid ==
  \A p \in Readers :
    /\ \A r \in Rooms : \A d \in DOMAIN drawn[p][r] : drawn[p][r][d] = 1
    /\ p \in Seated \cap connected /\ up /\ ~lost /\ wire[p] = <<>> /\ at[p] # Nowhere =>
         {m.id : m \in Range(rooms[at[p]])} \subseteq DOMAIN drawn[p][at[p]]

\* What a table lacks of what is to be kept, and what is left in it of the
\* chat of a game that is gone, waits to be written or is being written,
\* unless a write that held it was refused: nothing said, dealt or removed
\* during a write is forgotten by it, and no chat outlives its game because
\* the game ended in a write or did not come back at a boot.
KeptInStep ==
  \A k \in Kinds : up =>
    LET s == store[k] IN
    /\ \A g \in DOMAIN s.held \ s.doubtful :
         \/ g \in DOMAIN db[k] /\ db[k][g] = s.held[g]
         \/ g \in s.dirty
         \/ [game |-> g, doc |-> <<s.held[g]>>] \in s.batch
    /\ k = "chat" => \A g \in (DOMAIN db[k] \ live) \ s.doubtful :
         g \in s.gone \/ [game |-> g, doc |-> <<>>] \in s.batch

=============================================================================
