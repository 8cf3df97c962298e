------------------------------ MODULE Webhooks ------------------------------
(***************************************************************************)
(* The outbox of server/webhooks.js: what a game tells the address it was  *)
(* given, written down before it is tried, tried again on a backoff, and   *)
(* in order game by game.                                                  *)
(*                                                                         *)
(* Three things run between one another: the sweep and the requests it     *)
(* has under way, the write of the changed rows to the database, and the   *)
(* games that report. A crash loses memory and keeps the database. The     *)
(* receiver is outside this repository: docs/API.md asks it to drop a      *)
(* delivery_id it has seen, which is all that is modelled of it.           *)
(*                                                                         *)
(* What happens in a game is numbered 1, 2, 3 in the order it happens. A   *)
(* definition marked Slip is a plausible mistake in the one below it.      *)
(***************************************************************************)
EXTENDS Integers, Sequences, SequencesExt

CONSTANTS
  Games,        \* games that named an address
  MaxInFlight,  \* requests under way at once
  Tries,        \* length of the backoff
  Block,        \* ids claimed at a time
  MaxEvents,    \* bound: events, game by game
  MaxBeats,     \* bound: heartbeats in all
  MaxFaults,    \* bound: writes the database refuses
  MaxCrashes    \* bound: restarts

ASSUME WebhooksAssumption ==
  /\ IsFiniteSet(Games)
  /\ {MaxInFlight, Block} \subseteq Nat \ {0}
  /\ MaxEvents \in [Games -> Nat]
  /\ {Tries, MaxBeats, MaxFaults, MaxCrashes} \subseteq Nat

VARIABLES
  rows,      \* the outbox in memory: id -> row
  nextId,    \* the next id
  idCeiling, \* ids below this are claimed
  dirty,     \* ids changed since their last write, in the order they changed
  batch,     \* what the write under way has left to put, a sequence of ids
  landed,    \* what it has put
  putting,   \* the row it is putting, as it was copied, in a sequence
  flight,    \* game -> the id of its request, 0 for none
  db,        \* the table webhook_outbox: id -> row
  ceiling,   \* nextId in the settings table
  ceilingPut,\* the settings writes under way: the ceilings they put
  receiver,  \* ids the receiver has seen, and what it accepted, game by game
  told,      \* how many events each game has reported
  closed,    \* <<game, event>> given up on, or gone in a crash
  uncovered, \* rows were dropped whose ids no ceiling in the table was above
  spent      \* heartbeats, faults and crashes so far

writing == <<batch, landed, putting>>
memory == <<rows, nextId, idCeiling, dirty, writing, flight>>
disk == <<db, ceiling, ceilingPut>>
outside == <<receiver, told, closed, uncovered>>
vars == <<memory, disk, outside, spent>>

Ids == DOMAIN rows

(***************************************************************************)
(* Rows.                                                                   *)
(***************************************************************************)
Row(id, g, e, transient) ==
  [id |-> id, game |-> g, event |-> e, transient |-> transient,
   attempts |-> 0, state |-> "open", written |-> transient]

Open(row) == row.state = "open"

OpenOf(g) == {id \in Ids : rows[id].game = g /\ Open(rows[id])}

\* What is stored of a row: everything but whether it has been.
Stored(row) == [row EXCEPT !.written = TRUE]

\* A Set keeps the place an element already has.
Mark(s, id) == IF id \in Range(s) THEN s ELSE Append(s, id)

\* Several elements, one after another.
MarkAll(s, ids) ==
  LET marked[n \in 0..Len(ids)] == IF n = 0 THEN s ELSE Mark(marked[n - 1], ids[n])
  IN  marked[Len(ids)]

(***************************************************************************)
(* The write. One at a time: it takes what is dirty, puts it row by row,   *)
(* each as it is when its turn comes, and begins again while anything is   *)
(* dirty. A change made to a row on its way marks it dirty again.          *)
(***************************************************************************)
Writing == batch # <<>>

\* What is put first of a batch, from the rows as they are.
Put(s, table) == IF s = <<>> THEN <<>> ELSE <<Stored(table[Head(s)])>>

\* A write starts on all that is dirty when none is under way.
FlushAsync(d, table) ==
  IF Writing
  THEN dirty' = d /\ UNCHANGED writing
  ELSE dirty' = <<>> /\ batch' = d /\ putting' = Put(d, table) /\ UNCHANGED landed

With(table, row) == [id \in DOMAIN table \cup {row.id} |-> IF id = row.id THEN row ELSE table[id]]

PutLands ==
  /\ Writing
  /\ LET row  == putting[1]
         more == Len(batch) > 1
         next == IF more THEN Tail(batch) ELSE dirty
     IN /\ db' = With(db, row)
        /\ rows' = [rows EXCEPT ![row.id].written = TRUE]
        /\ batch' = next /\ putting' = Put(next, rows)
        /\ landed' = IF more THEN Append(landed, row.id) ELSE <<>>
        /\ dirty' = IF more THEN dirty ELSE <<>>
  /\ UNCHANGED <<nextId, idCeiling, flight, ceiling, ceilingPut, outside, spent>>

\* Slip: the row that was refused is not marked again.
OwedAfterFaultForgotten == MarkAll(dirty, landed \o Tail(batch))

\* The whole batch is marked again behind what is dirty.
OwedAfterFault == MarkAll(dirty, landed \o batch)

\* The database refuses a row: the next write starts at once.
PutFails ==
  /\ Writing /\ spent.faults < MaxFaults
  /\ spent' = [spent EXCEPT !.faults = @ + 1]
  /\ batch' = OwedAfterFault /\ putting' = Put(OwedAfterFault, rows)
  /\ landed' = <<>> /\ dirty' = <<>>
  /\ UNCHANGED <<rows, nextId, idCeiling, flight, disk, outside>>

\* Settings are written over a pool of connections: of two writes under way
\* the later may land first.
CeilingLands(c) ==
  /\ ceiling' = c /\ ceilingPut' = ceilingPut \ {c}
  /\ UNCHANGED <<memory, db, outside, spent>>

\* A setting the database refuses is logged and not written again.
CeilingFails(c) ==
  /\ spent.faults < MaxFaults
  /\ spent' = [spent EXCEPT !.faults = @ + 1]
  /\ ceilingPut' = ceilingPut \ {c}
  /\ UNCHANGED <<memory, db, ceiling, outside>>

(***************************************************************************)
(* What games report.                                                      *)
(***************************************************************************)
ClaimId ==
  /\ nextId' = nextId + 1
  /\ IF nextId + 1 > idCeiling
     THEN /\ idCeiling' = nextId + 1 + Block
          /\ ceilingPut' = ceilingPut \cup {nextId + 1 + Block}
     ELSE UNCHANGED <<idCeiling, ceilingPut>>

Enqueue(g) ==
  /\ told[g] < MaxEvents[g]
  /\ told' = [told EXCEPT ![g] = @ + 1]
  /\ ClaimId
  /\ rows' = With(rows, Row(nextId, g, told[g] + 1, FALSE))
  /\ FlushAsync(Mark(dirty, nextId), rows')
  /\ UNCHANGED <<flight, db, ceiling, receiver, closed, uncovered, spent>>

\* A heartbeat is not made while anything is owed to the game.
EnqueueBeat(g) ==
  /\ spent.beats < MaxBeats /\ OpenOf(g) = {}
  /\ spent' = [spent EXCEPT !.beats = @ + 1]
  /\ ClaimId
  /\ rows' = With(rows, Row(nextId, g, 0, TRUE))
  /\ UNCHANGED <<dirty, writing, flight, db, ceiling, outside>>

(***************************************************************************)
(* The sweep and the requests.                                             *)
(***************************************************************************)
Busy == {g \in Games : flight[g] # 0}
Sent(g) == rows[flight[g]]

\* Slip: the lowest row of the game that was written, if one was.
HeadOfWritten(g) ==
  LET written == {id \in OpenOf(g) : rows[id].written}
  IN Min(IF written = {} THEN OpenOf(g) ELSE written)

\* A game's second row waits for its first.
HeadOf(g) == Min(OpenOf(g))

Sendable == {g \in Games \ Busy : OpenOf(g) # {} /\ rows[HeadOf(g)].written}

\* Of the games whose head's wait has passed, which is any of them, the rows
\* are walked in the order of their ids until the line is full.
Sweep(due) ==
  LET before(g) == {h \in due : HeadOf(h) < HeadOf(g)}
      chosen == {g \in due : Cardinality(Busy) + Cardinality(before(g)) < MaxInFlight}
  IN /\ due \subseteq Sendable /\ chosen # {}
     /\ flight' = [g \in Games |-> IF g \in chosen THEN HeadOf(g) ELSE flight[g]]
     /\ UNCHANGED <<rows, nextId, idCeiling, dirty, writing, disk, outside, spent>>

\* The requests of the games in S come to the receiver. It drops an id it
\* has seen; a heartbeat carries none and is not kept.
Received(S) ==
  LET new == {g \in S : ~Sent(g).transient /\ flight[g] \notin receiver.seen} IN
  receiver' = [seen |-> receiver.seen \cup {flight[g] : g \in new},
               log  |-> [g \in Games |-> IF g \in new THEN Append(receiver.log[g], Sent(g).event)
                                         ELSE receiver.log[g]]]

\* What deliver() leaves behind it whatever the answer was.
Settled(g, row) ==
  /\ flight' = [flight EXCEPT ![g] = 0]
  /\ IF row.transient
     THEN /\ rows' = Restrict(rows, Ids \ {row.id})
          /\ UNCHANGED <<dirty, writing>>
     ELSE /\ rows' = [rows EXCEPT ![row.id] = row]
          /\ FlushAsync(Mark(dirty, row.id), rows')

Delivered(g) ==
  /\ g \in Busy /\ Received({g})
  /\ Settled(g, [Sent(g) EXCEPT !.state = "delivered", !.attempts = @ + 1])
  /\ UNCHANGED <<nextId, idCeiling, disk, told, closed, uncovered, spent>>

\* Slip: a row is never given up on.
FailedForEver(row) ==
  [row EXCEPT !.attempts = Min({Tries, @ + 1}),
              !.state = IF row.transient THEN "abandoned" ELSE "open"]

Failed(row) ==
  [row EXCEPT !.attempts = @ + 1,
              !.state = IF row.transient \/ row.attempts + 1 > Tries THEN "abandoned" ELSE "open"]

\* A refusal, an error, or no answer within the time allowed: the receiver
\* may have had the request or not.
Fail(g) ==
  /\ g \in Busy /\ \E S \in SUBSET {g} : Received(S)
  /\ LET row == Failed(Sent(g)) IN
     /\ Settled(g, row)
     /\ closed' = IF row.state = "abandoned" /\ ~row.transient
                  THEN closed \cup {<<g, row.event>>} ELSE closed
  /\ UNCHANGED <<nextId, idCeiling, disk, told, uncovered, spent>>

(***************************************************************************)
(* A week later, and a restart.                                            *)
(***************************************************************************)
\* Closed rows are dropped a week after they closed, when what was written
\* about them has long landed.
Prune ==
  LET gone == {id \in Ids : ~Open(rows[id])} IN
  /\ dirty = <<>> /\ ~Writing /\ ceilingPut = {} /\ gone # {}
  /\ rows' = Restrict(rows, Ids \ gone)
  /\ db' = Restrict(db, DOMAIN db \ gone)
  /\ uncovered' = (uncovered \/ \E id \in gone : id >= ceiling)
  /\ UNCHANGED <<nextId, idCeiling, dirty, writing, flight, ceiling, ceilingPut,
                 receiver, told, closed, spent>>

\* The ids carry on from the rows on hand, or from the ceiling above them.
FirstId(table, kept) ==
  Max({Max(DOMAIN table \cup {0}) + 1, kept})

\* The put, the settings writes and the requests under way may or may not
\* have arrived; any of the settings writes may have been the last to.
Crash ==
  /\ spent.crashes < MaxCrashes
  /\ spent' = [spent EXCEPT !.crashes = @ + 1]
  /\ \E table \in {db} \cup {With(db, row) : row \in Range(putting)},
        kept \in {ceiling} \cup ceilingPut :
       /\ db' = table /\ rows' = table
       /\ ceiling' = kept
       /\ nextId' = FirstId(table, kept)
       /\ idCeiling' = FirstId(table, kept)
       /\ closed' = closed \cup
            {<<rows[id].game, rows[id].event>> :
               id \in {i \in Ids \ DOMAIN table : ~rows[i].transient}}
  /\ dirty' = <<>> /\ batch' = <<>> /\ landed' = <<>> /\ putting' = <<>> /\ ceilingPut' = {}
  /\ flight' = [g \in Games |-> 0]
  /\ \E S \in SUBSET Busy : Received(S)
  /\ UNCHANGED <<told, uncovered>>

Init ==
  /\ rows = <<>> /\ nextId = 1 /\ idCeiling = 1
  /\ dirty = <<>> /\ batch = <<>> /\ landed = <<>> /\ putting = <<>>
  /\ flight = [g \in Games |-> 0]
  /\ db = <<>> /\ ceiling = 0 /\ ceilingPut = {}
  /\ receiver = [seen |-> {}, log |-> [g \in Games |-> <<>>]]
  /\ told = [g \in Games |-> 0] /\ closed = {} /\ uncovered = FALSE
  /\ spent = [beats |-> 0, faults |-> 0, crashes |-> 0]

Next ==
  \/ PutLands \/ PutFails
  \/ \E c \in ceilingPut : CeilingLands(c) \/ CeilingFails(c)
  \/ \E g \in Games : Enqueue(g) \/ EnqueueBeat(g)
  \/ \E due \in SUBSET Games : Sweep(due)
  \/ \E g \in Games : Delivered(g) \/ Fail(g)
  \/ Prune
  \/ Crash

\* The sweep is a timer of five seconds and a wait passes; a request is
\* answered or given up on within eight seconds; a database asked again
\* answers in the end.
Fairness ==
  /\ WF_vars(PutLands)
  /\ \A g \in Games : WF_vars(g \in Sendable /\ Sweep({g})) /\ WF_vars(Delivered(g) \/ Fail(g))

Spec == Init /\ [][Next]_vars /\ Fairness

(***************************************************************************)
(* Properties.                                                             *)
(***************************************************************************)
RowSet(ids) ==
  [id : ids, game : Games, event : Nat, transient : BOOLEAN,
   attempts : 0..Tries + 1,
   state : {"open", "delivered", "abandoned"}, written : BOOLEAN]

\* The state of the outbox has its type: rows under ids already claimed, a
\* write and requests that are about rows on hand.
TypeOK ==
  /\ \A id \in Ids : rows[id] \in RowSet({id}) /\ id < nextId
  /\ \A id \in DOMAIN db : db[id] \in RowSet({id}) /\ id \in Ids
  /\ {nextId, idCeiling, ceiling} \cup ceilingPut \subseteq Nat /\ nextId <= idCeiling
  /\ Range(dirty) \cup Range(batch) \subseteq Ids
  /\ Writing => Len(putting) = 1 /\ putting[1].id = Head(batch)
  /\ Range(landed) \subseteq Ids /\ (~Writing => landed = <<>>)
  /\ \A g \in Busy : flight[g] \in OpenOf(g)
  /\ Cardinality(Busy) <= MaxInFlight
  /\ told \in [Games -> Nat] /\ closed \subseteq Games \X Nat

Accepted(g) == Range(receiver.log[g])

\* docs/API.md: an id is never handed out twice, whatever has been cleared out
\* of the outbox since, so deduping on it is safe for ever.  What the sender
\* counts as delivered is what the receiver kept under that id, and not an
\* event it dropped for a repeat of another.
NoIdTwice ==
  \A id \in Ids :
    rows[id].state = "delivered" /\ ~rows[id].transient
      => rows[id].event \in Accepted(rows[id].game)

\* The receiver accepts the events of a game in the order they happened, and
\* one that it passes over was given up on or went in a crash: no bust-out is
\* heard of after the ending it belongs to.  Nor does any id ever stand for two
\* events, after restarts and pruning included, unless rows were dropped while
\* no ceiling above them was in the table (see NoIdTwice).
HeardInOrder ==
  ~uncovered =>
    /\ \A g \in Games :
         LET heard == receiver.log[g] IN
         \A i \in DOMAIN heard :
           \A e \in 1..heard[i] :
             e \in {heard[j] : j \in 1..i} \/ <<g, e>> \in closed
    /\ NoIdTwice

\* A row that differs from what is stored of it is about to be written: no
\* change made while a write is under way or refused is forgotten.
WriteIsOwed ==
  \A id \in {i \in Ids : ~rows[i].transient} :
    \/ id \in DOMAIN db /\ db[id] = Stored(rows[id])
    \/ id \in Range(dirty)
    \/ id \in Range(batch) /\ (id = Head(batch) => putting[1] = Stored(rows[id]))

\* Every event is accepted in the end, or given up on, or went in a crash;
\* no dead delivery holds the ones behind it for ever.
EveryEventCloses ==
  \A g \in Games : \A e \in 1..MaxEvents[g] :
    told[g] >= e ~> (e \in Accepted(g) \/ <<g, e>> \in closed \/ uncovered)

=============================================================================
