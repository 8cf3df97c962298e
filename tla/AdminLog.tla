------------------------------ MODULE AdminLog ------------------------------
(***************************************************************************)
(* The log of the Admin page, server/admin-log.js: a ring of rows in       *)
(* memory, bounded by count and by age, and the table it is written to a   *)
(* second behind. A row is only added, never changed, so what waits to be  *)
(* written is a list of new rows; a write that the database refuses drops  *)
(* what was left of its list, and is itself a warning, which is a row.     *)
(*                                                                         *)
(* Every row is pushed with the age bound it was pushed under, so the       *)
(* table is told of it by the next write; 0 stands for no bound.           *)
(*                                                                         *)
(* Of a row there are its id, the hour it was written and, for a sign-in,  *)
(* who signed in. What it says is left out.                                *)
(***************************************************************************)
EXTENDS Integers, Sequences, FiniteSetsExt, Functions

CONSTANTS
  MaxRows,   \* rows kept
  MaxAge,    \* hours a row is kept
  Gap,       \* hours that make another sign-in another visit
  Nobody     \* the person of a row that is not a sign-in

ASSUME AdminLogAssumption ==
  /\ MaxRows \in Nat \ {0} /\ MaxAge \in Nat \ {0}
  /\ Gap \in Nat

VARIABLES
  now,       \* the hour it is
  log,       \* the ring, and what waits to be written of it
  flush,     \* the write under way
  logTable,  \* the table admin_log: a set of rows
  refused    \* ids the database would not take, since the last start

logVars == <<log, flush, logTable, refused>>

Ids(rs) == {rs[i].id : i \in DOMAIN rs}

(***************************************************************************)
(* The ring.                                                               *)
(***************************************************************************)
\* What the two bounds leave of a sequence of rows: the newest, and not the
\* old.
Bounded(rs, cutoff) ==
  LET young == {i \in DOMAIN rs : rs[i].at >= cutoff}
      kept == {i \in young : Cardinality({j \in young : j > i}) < MaxRows}
      nth(k) == CHOOSE i \in kept : Cardinality({j \in kept : j <= i}) = k
  IN  [k \in 1..Cardinality(kept) |-> rs[nth(k)]]

\* The log with one more row. What the bounds drop here the table is told to
\* drop with the next write.
Pushed(l, who) ==
  LET row == [id |-> l.nextId, at |-> now, who |-> who] IN
  [l EXCEPT !.rows = Bounded(Append(@, row), now - MaxAge),
            !.nextId = @ + 1,
            !.unwritten = Append(@, row),
            !.prunedTo = now - MaxAge, !.timer = TRUE]

\* The row of an event that is nobody's visit.
Recorded(l) == Pushed(l, Nobody)

\* Another hello within the gap is the same visit and no row.
SignInRecorded(l, who) ==
  IF who \in DOMAIN l.visits /\ now - l.visits[who] < Gap
  THEN l
  ELSE Pushed([l EXCEPT !.visits = [p \in DOMAIN @ \cup {who} |-> IF p = who THEN now ELSE @[p]]], who)

(***************************************************************************)
(* The write.                                                              *)
(***************************************************************************)
NotWriting == [on |-> FALSE, batch |-> <<>>, cutoff |-> 0]

\* Slip: what came while the write was under way is left where it is.
WriteOverAndForgotten(l) == [l EXCEPT !.queued = FALSE]

\* The write is over: another is due when there is more to write.
WriteOver(l) ==
  [l EXCEPT !.queued = FALSE,
            !.timer = @ \/ l.queued \/ l.unwritten # <<>> \/ l.prunedTo > 0]

\* The second has passed; there is a row behind every timer. A write under
\* way is left to finish first.
TimerFires ==
  /\ log.timer
  /\ IF flush.on
     THEN /\ log' = [log EXCEPT !.timer = FALSE, !.queued = TRUE]
          /\ UNCHANGED flush
     ELSE /\ flush' = [on |-> TRUE, batch |-> log.unwritten, cutoff |-> log.prunedTo]
          /\ log' = [log EXCEPT !.timer = FALSE, !.unwritten = <<>>, !.prunedTo = 0]
  /\ UNCHANGED <<now, logTable, refused>>

\* The table with more rows. One under an id the table has keeps the hour that
\* is there.
Inserted(table, rows) ==
  LET Taken(q) == \E r \in rows : r.id = q.id
      Now(q) == [q EXCEPT !.who = (CHOOSE r \in rows : r.id = q.id).who]
  IN  {IF Taken(q) THEN Now(q) ELSE q : q \in table}
        \cup {r \in rows : \A q \in table : q.id # r.id}

RowLands ==
  /\ flush.batch # <<>>
  /\ logTable' = Inserted(logTable, {Head(flush.batch)})
  /\ flush' = [flush EXCEPT !.batch = Tail(@)]
  /\ UNCHANGED <<now, log, refused>>

Newer(r, q) == r.at > q.at \/ (r.at = q.at /\ r.id > q.id)

\* What is left of the table by the two queries of the bounds.
Pruned(table, cutoff) ==
  LET young == {r \in table : r.at >= cutoff} IN
  {r \in young : Cardinality({q \in young : Newer(q, r)}) < MaxRows}

\* What may be left when the queries are cut short: the old go at once, then
\* the rows that are too many one after another, the newest of them first.
PrunedInPart(table, cutoff) ==
  LET young == {r \in table : r.at >= cutoff}
      over == young \ Pruned(table, cutoff)
  IN  {table, young} \cup {{r \in young : r \in over => Newer(q, r)} : q \in over}

TablePruned ==
  /\ flush.on /\ flush.batch = <<>>
  /\ logTable' = Pruned(logTable, flush.cutoff)
  /\ flush' = NotWriting /\ log' = WriteOver(log)
  /\ UNCHANGED <<now, refused>>

\* Any statement of the write may be refused. The rows it had left are not
\* written again, and the refusal is a row of its own.
LogRefused ==
  /\ flush.on
  /\ refused' = refused \cup Ids(flush.batch)
  /\ logTable' \in IF flush.batch # <<>> THEN {logTable} ELSE PrunedInPart(logTable, flush.cutoff)
  /\ flush' = NotWriting /\ log' = WriteOver(Recorded(log))
  /\ UNCHANGED now

(***************************************************************************)
(* The start of the server: the newest page of the table is the ring, and  *)
(* that the server started is a row.                                       *)
(***************************************************************************)
VisitsIn(rs) ==
  [p \in {rs[i].who : i \in DOMAIN rs} \ {Nobody} |->
     Max({rs[i].at : i \in {j \in DOMAIN rs : rs[j].who = p}})]

\* Rows of the table, the oldest first.
InTurn(table) ==
  [k \in 1..Cardinality(table) |->
     CHOOSE r \in table : Cardinality({q \in table : ~Newer(q, r)}) = k]

Loaded(table) ==
  LET page == Pruned(table, 0)
      rs == Bounded(InTurn(page), now - MaxAge)
  IN
  [rows |-> rs, nextId |-> Max({r.id : r \in page} \cup {0}) + 1,
   visits |-> VisitsIn(rs), unwritten |-> <<>>, prunedTo |-> now - MaxAge,
   timer |-> FALSE, queued |-> FALSE]

\* The log comes up on a table.
LogStarts(table) ==
  /\ logTable' = table /\ log' = Recorded(Loaded(table))
  /\ flush' = NotWriting /\ refused' = {}

\* What a restart finds in the table. A statement under way may have landed
\* and may not, and of the bounds a part; what waited is lost in a crash, and in a shutdown too when a
\* write was under way: the last flush answers at once and nothing waits. Else
\* it writes what waits and bounds the table.
LogLeft ==
  {logTable} \cup
  (IF ~flush.on THEN {}
   ELSE IF flush.batch # <<>> THEN {Inserted(logTable, {Head(flush.batch)})}
   ELSE PrunedInPart(logTable, flush.cutoff) \cup {Pruned(logTable, flush.cutoff)}) \cup
  (IF flush.on \/ log.unwritten = <<>> THEN {}
   ELSE {Pruned(Inserted(logTable, Range(log.unwritten)), log.prunedTo)})

LogInit ==
  /\ now = MaxAge + 1
  /\ logTable = {} /\ refused = {} /\ flush = NotWriting
  /\ log = Recorded(Loaded({}))

(***************************************************************************)
(* Properties.                                                             *)
(***************************************************************************)
\* The log is one story in memory and in the table.  Rows are in the order
\* they were written and an id stands for one row, over restarts that lost
\* the end of it; the ring keeps its bounds; a row in the ring is in the
\* table, on its way there or was refused; what waits has a timer or a write
\* before it; and no visit is written down twice, in one run of the server or
\* over two.
LogIsKept ==
  LET rs == log.rows IN
  /\ \A i, j \in DOMAIN rs : i < j => rs[i].id < rs[j].id /\ rs[i].at <= rs[j].at
  /\ Len(rs) <= MaxRows
  /\ \A i \in DOMAIN rs : \A q \in logTable : q.id = rs[i].id => q = rs[i]
  /\ \A i \in DOMAIN rs :
       \/ rs[i] \in logTable
       \/ rs[i].id \in refused \cup Ids(log.unwritten) \cup Ids(flush.batch)
  /\ log.unwritten # <<>> => log.timer \/ flush.on
  /\ \A i, j \in DOMAIN rs :
       i < j /\ rs[i].who # Nobody /\ rs[i].who = rs[j].who => rs[j].at - rs[i].at >= Gap
=============================================================================
