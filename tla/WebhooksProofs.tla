-------------------------- MODULE WebhooksProofs --------------------------
(***************************************************************************)
(* The outbox for any number of games, events, faults and restarts: every  *)
(* change of a row is about to be written, and what the receiver accepts   *)
(* of a game is in order and without a gap.                                *)
(***************************************************************************)
EXTENDS Webhooks, ChipsProofs

Lasting == {id \in Ids : ~rows[id].transient}

\* Two states of one row.
SameRow(r, s) == r.game = s.game /\ r.event = s.event

\* A row as it is stored.
StoredRow(r, id) ==
  /\ r \in RowSet({id}) /\ r.written /\ ~r.transient
  /\ Open(r) => r.attempts <= Tries
  /\ id \in Lasting /\ SameRow(r, rows[id])

Numbers ==
  /\ nextId \in Nat \ {0} /\ {idCeiling, ceiling} \cup ceilingPut \subseteq Nat
  /\ told \in [Games -> Nat] /\ flight \in [Games -> Nat] /\ uncovered \in BOOLEAN
  /\ receiver = [seen |-> receiver.seen, log |-> receiver.log]
  /\ receiver.log \in [Games -> Seq(Nat)]

\* A row on hand has an id that was given out; a heartbeat does not outlast
\* its one try.
RowFits(id) ==
  /\ id \in Nat \ {0} /\ id < nextId /\ rows[id] \in RowSet({id})
  /\ Open(rows[id]) => rows[id].attempts <= Tries
  /\ ~rows[id].transient => rows[id].event \in 1..told[rows[id].game]
  /\ rows[id].transient => Open(rows[id]) /\ rows[id].written

InTable == \A id \in DOMAIN db : StoredRow(db[id], id)

Shapes == Numbers /\ (\A id \in Ids : RowFits(id)) /\ InTable

\* What is dirty and what is being written are rows on hand.
Writes ==
  /\ dirty \in Seq(Lasting) /\ batch \in Seq(Lasting) /\ landed \in Seq(Lasting)
  /\ Writing => putting = <<putting[1]>> /\ StoredRow(putting[1], Head(batch))
  /\ ~Writing => dirty = <<>> /\ landed = <<>> /\ putting = <<>>

\* A change is stored, or dirty, or in the batch and not put yet.
Owed ==
  /\ \A id \in Lasting :
       \/ id \in DOMAIN db /\ db[id] = Stored(rows[id])
       \/ id \in Range(dirty)
       \/ id \in Range(batch)
  /\ Writing => \/ putting[1] = Stored(rows[Head(batch)])
                \/ Head(batch) \in Range(dirty)

\* The ids of a game climb with its events, and a request is for the lowest
\* row the game owes.
InTurn ==
  /\ \A i, j \in Lasting :
       rows[i].game = rows[j].game /\ i < j => rows[i].event < rows[j].event
  /\ \A id \in Lasting : rows[id].written => id \in DOMAIN db
  /\ \A g \in Busy :
       /\ flight[g] \in OpenOf(g) /\ rows[flight[g]].written
       /\ \A id \in OpenOf(g) : flight[g] <= id

\* An event that was accepted, was given up on, or went in a crash.
Out(log, gone, g, e) == e \in Range(log[g]) \/ <<g, e>> \in gone

\* A row that is closed, wherever it is held, is of an event that is out.
Claim(row, log, gone) ==
  ~Open(row) => /\ Out(log, gone, row.game, row.event)
                /\ row.state = "delivered" => row.event \in Range(log[row.game])

\* Every ceiling a restart may find is above the id.
Below(id) == \A c \in {ceiling} \cup ceilingPut : id < c

\* The receiver knows no id that will be given out again: it is in the table,
\* or below every ceiling that is or may yet be there.
Known ==
  \A id \in receiver.seen :
    /\ id \in Nat /\ id < nextId
    /\ id \in DOMAIN db \/ Below(id)
    /\ id \in Lasting => rows[id].event \in Range(receiver.log[rows[id].game])

\* Nothing is missed: an event is out, or a row that is open has it.
Missed ==
  \A g \in Games : \A e \in 1..told[g] :
    \/ Out(receiver.log, closed, g, e)
    \/ \E id \in Lasting : rows[id].game = g /\ rows[id].event = e /\ Open(rows[id])

Claims ==
  /\ \A id \in Lasting : Claim(rows[id], receiver.log, closed)
  /\ \A id \in DOMAIN db : Claim(db[id], receiver.log, closed)
  /\ Writing => Claim(putting[1], receiver.log, closed)

Gapless ==
  \A g \in Games : \A i \in DOMAIN receiver.log[g] :
    \A e \in 1..receiver.log[g][i] :
      e \in {receiver.log[g][j] : j \in 1..i} \/ <<g, e>> \in closed

Outbox == Shapes /\ Writes /\ Owed /\ InTurn
Hearing == Known /\ Missed /\ Claims /\ Gapless

USE DEF vars, outside, disk, memory, writing

-----------------------------------------------------------------------------
(* Operators *)

LEMMA RangeOf ==
  ASSUME NEW S, NEW s \in Seq(S)
  PROVE  /\ Range(s) \subseteq S
         /\ \A x \in S : Append(s, x) \in Seq(S) /\ Range(Append(s, x)) = Range(s) \cup {x}
         /\ s # <<>> => Head(s) \in Range(s) /\ Range(s) = {Head(s)} \cup Range(Tail(s))
         /\ s = <<>> => Range(s) = {}
<1>1. Range(s) = {s[i] : i \in 1..Len(s)}
  BY DEF Range
<1>2. ASSUME NEW x \in S
      PROVE  Append(s, x) \in Seq(S) /\ Range(Append(s, x)) = Range(s) \cup {x}
  <2>1. Range(Append(s, x)) = {Append(s, x)[i] : i \in 1..(Len(s) + 1)}
    BY DEF Range
  <2>2. \A i \in 1..Len(s) : Append(s, x)[i] = s[i]
    OBVIOUS
  <2>3. Append(s, x)[Len(s) + 1] = x
    OBVIOUS
  <2> QED
    BY <1>1, <2>1, <2>2, <2>3
<1>3. ASSUME s # <<>>
      PROVE  Head(s) \in Range(s) /\ Range(s) = {Head(s)} \cup Range(Tail(s))
  <2>1. Len(s) > 0 /\ Head(s) = s[1] /\ Tail(s) \in Seq(S) /\ Len(Tail(s)) = Len(s) - 1
    BY <1>3
  <2>2. \A i \in 1..(Len(s) - 1) : Tail(s)[i] = s[i + 1]
    BY <2>1
  <2>3. Range(Tail(s)) = {Tail(s)[i] : i \in 1..(Len(s) - 1)}
    <3> DEFINE t == Tail(s)
    <3>1. t \in Seq(S) /\ Len(t) = Len(s) - 1
      BY <2>1
    <3> HIDE DEF t
    <3>2. Range(t) = {t[i] : i \in 1..Len(t)}
      BY <3>1 DEF Range
    <3>3. Range(t) = {t[i] : i \in 1..(Len(s) - 1)}
      BY <3>1, <3>2
    <3> QED
      BY <3>3 DEF t
  <2>4. Range(Tail(s)) \subseteq Range(s) /\ Head(s) \in Range(s)
    BY <1>1, <2>1, <2>2, <2>3
  <2>5. ASSUME NEW i \in 1..Len(s)
        PROVE  s[i] = Head(s) \/ s[i] \in Range(Tail(s))
    <3>1. CASE i = 1
      BY <3>1, <2>1
    <3>2. CASE i # 1
      <4>1. i - 1 \in 1..(Len(s) - 1) /\ (i - 1) + 1 = i
        BY <3>2
      <4> QED
        BY <4>1, <2>2, <2>3
    <3> QED
      BY <3>1, <3>2
  <2> QED
    BY <1>1, <2>4, <2>5
<1> QED
  BY <1>1, <1>2, <1>3

LEMMA RangeJoined ==
  ASSUME NEW S, NEW s \in Seq(S), NEW t \in Seq(S)
  PROVE  s \o t \in Seq(S) /\ Range(s \o t) = Range(s) \cup Range(t)
<1>1. Range(s) = {s[i] : i \in 1..Len(s)} /\ Range(t) = {t[i] : i \in 1..Len(t)}
  BY DEF Range
<1>2. Range(s \o t) = {(s \o t)[i] : i \in 1..(Len(s) + Len(t))}
  BY DEF Range
<1>3. \A i \in 1..Len(s) : (s \o t)[i] = s[i]
  OBVIOUS
<1>4. \A i \in 1..(Len(s) + Len(t)) : i \notin 1..Len(s) => (s \o t)[i] = t[i - Len(s)]
  OBVIOUS
<1>5. \A i \in 1..Len(t) : /\ (s \o t)[Len(s) + i] = t[i]
                           /\ Len(s) + i \in 1..(Len(s) + Len(t))
  OBVIOUS
<1>6. Range(s) \cup Range(t) \subseteq Range(s \o t)
  <2>1. \A i \in 1..Len(s) : i \in 1..(Len(s) + Len(t))
    OBVIOUS
  <2>2. \A i \in 1..Len(s) : s[i] \in Range(s \o t)
    BY <1>2, <1>3, <2>1
  <2>3. \A i \in 1..Len(t) : t[i] \in Range(s \o t)
    BY <1>2, <1>5
  <2> QED
    BY <1>1, <2>2, <2>3
<1>7. ASSUME NEW i \in 1..(Len(s) + Len(t))
      PROVE  (s \o t)[i] \in Range(s) \cup Range(t)
  <2>1. CASE i \in 1..Len(s)
    BY <2>1, <1>1, <1>3
  <2>2. CASE i \notin 1..Len(s)
    <3>1. i - Len(s) \in 1..Len(t)
      BY <2>2
    <3> QED
      BY <3>1, <2>2, <1>1, <1>4
  <2> QED
    BY <2>1, <2>2
<1> QED
  BY <1>2, <1>6, <1>7

LEMMA Marked ==
  ASSUME NEW S, NEW s \in Seq(S), NEW x \in S
  PROVE  Mark(s, x) \in Seq(S) /\ Range(Mark(s, x)) = Range(s) \cup {x} /\ Mark(s, x) # <<>>
<1>1. CASE x \in Range(s)
  <2>1. Mark(s, x) = s /\ s # <<>>
    BY <1>1, RangeOf DEF Mark
  <2> QED
    BY <1>1, <2>1
<1>2. CASE x \notin Range(s)
  <2>1. Mark(s, x) = Append(s, x) /\ Append(s, x) # <<>>
    BY <1>2 DEF Mark
  <2> QED
    BY <2>1, RangeOf
<1> QED
  BY <1>1, <1>2

\* The first n of ids marked one after another, as MarkAll goes about it.
MarksOf(m, s, ids, n) == m = [i \in 0..n |-> IF i = 0 THEN s ELSE Mark(m[i - 1], ids[i])]

LEMMA MarksExist ==
  ASSUME NEW s, NEW ids
  PROVE  \A n \in Nat : \E m : MarksOf(m, s, ids, n)
<1> DEFINE Reach == {n \in Nat : \E m : MarksOf(m, s, ids, n)}
<1>1. 0 \in Reach
  <2> DEFINE m == [i \in 0..0 |-> s]
  <2>1. m = [i \in 0..0 |-> IF i = 0 THEN s ELSE Mark(m[i - 1], ids[i])]
    OBVIOUS
  <2> QED
    BY <2>1 DEF MarksOf
<1>2. ASSUME NEW n \in Nat, n \in Reach
      PROVE  n + 1 \in Reach
  <2>1. PICK m : MarksOf(m, s, ids, n)
    BY <1>2
  <2> DEFINE more == [i \in 0..(n + 1) |-> IF i = n + 1 THEN Mark(m[n], ids[n + 1]) ELSE m[i]]
  <2>2. \A i \in 0..n : m[i] = IF i = 0 THEN s ELSE Mark(m[i - 1], ids[i])
    BY <2>1 DEF MarksOf
  <2>3. ASSUME NEW i \in 0..(n + 1)
        PROVE  more[i] = IF i = 0 THEN s ELSE Mark(more[i - 1], ids[i])
    <3>1. CASE i = n + 1
      BY <3>1
    <3>2. CASE i = 0
      BY <2>2, <3>2
    <3>3. CASE i \in 1..n
      <4>1. more[i] = m[i] /\ more[i - 1] = m[i - 1] /\ i \in 0..n /\ i # 0
        BY <3>3
      <4> QED
        BY <4>1, <2>2
    <3> QED
      BY <3>1, <3>2, <3>3
  <2>4. MarksOf(more, s, ids, n + 1)
    <3> HIDE DEF more
    <3>1. more = [i \in 0..(n + 1) |-> more[i]]
      BY DEF more
    <3> QED
      BY <2>3, <3>1 DEF MarksOf
  <2> QED
    BY <2>4
<1> HIDE DEF Reach
<1>3. Nat \subseteq Reach
  BY <1>1, <1>2, SetInduction
<1> QED
  BY <1>3 DEF Reach

\* What was refused is marked again, all of it, whatever the order.
LEMMA AllMarked ==
  ASSUME NEW S, NEW s \in Seq(S), NEW ids \in Seq(S)
  PROVE  MarkAll(s, ids) \in Seq(S) /\ Range(MarkAll(s, ids)) = Range(s) \cup Range(ids)
<1> DEFINE m == CHOOSE g : MarksOf(g, s, ids, Len(ids))
           first(n) == {ids[i] : i \in 1..n}
           Good == {n \in Nat : n <= Len(ids) =>
                      m[n] \in Seq(S) /\ Range(m[n]) = Range(s) \cup first(n)}
<1>1. MarksOf(m, s, ids, Len(ids))
  BY MarksExist
<1>2. MarkAll(s, ids) = m[Len(ids)]
  BY DEF MarkAll, MarksOf
<1> HIDE DEF m
<1>3. \A n \in 0..Len(ids) : m[n] = IF n = 0 THEN s ELSE Mark(m[n - 1], ids[n])
  BY <1>1 DEF MarksOf
<1>4. 0 \in Good
  BY <1>3
<1>5. ASSUME NEW n \in Nat, n \in Good
      PROVE  n + 1 \in Good
  <2>1. CASE n + 1 <= Len(ids)
    <3>1. n + 1 \in 0..Len(ids) /\ n + 1 # 0 /\ (n + 1) - 1 = n /\ ids[n + 1] \in S
      BY <2>1
    <3>2. m[n + 1] = Mark(m[n], ids[n + 1])
      BY <3>1, <1>3
    <3>3. m[n] \in Seq(S) /\ Range(m[n]) = Range(s) \cup first(n)
      BY <1>5, <2>1
    <3>4. first(n + 1) = first(n) \cup {ids[n + 1]}
      <4>1. 1..(n + 1) = 1..n \cup {n + 1}
        OBVIOUS
      <4> QED
        BY <4>1
    <3> HIDE DEF first
    <3>5. m[n + 1] \in Seq(S) /\ Range(m[n + 1]) = Range(m[n]) \cup {ids[n + 1]}
      <4> DEFINE q == m[n]
                 x == ids[n + 1]
      <4>1. q \in Seq(S) /\ x \in S
        BY <3>1, <3>3
      <4> HIDE DEF q, x
      <4>2. Mark(q, x) \in Seq(S) /\ Range(Mark(q, x)) = Range(q) \cup {x}
        BY <4>1, Marked
      <4> QED
        BY <4>2, <3>2 DEF q, x
    <3>6. Range(m[n + 1]) = Range(s) \cup first(n + 1)
      BY <3>3, <3>4, <3>5
    <3> QED
      BY <3>5, <3>6
  <2>2. CASE ~(n + 1 <= Len(ids))
    BY <2>2
  <2> QED
    BY <2>1, <2>2
<1>6. Nat \subseteq Good
  <2> HIDE DEF Good
  <2> QED
    BY <1>4, <1>5, SetInduction
<1>7. Range(ids) = first(Len(ids))
  BY DEF Range
<1>8. Len(ids) \in Good /\ Len(ids) \in Nat
  BY <1>6
<1> HIDE DEF first
<1> QED
  BY <1>2, <1>7, <1>8

LEMMA LeastOf ==
  ASSUME NEW S \in SUBSET Nat, S # {}
  PROVE  Min(S) \in S /\ \A x \in S : Min(S) <= x
<1>1. ASSUME \A k \in S : \E y \in S : ~(k <= y)
      PROVE  FALSE
  <2> DEFINE Under == {n \in Nat : \A y \in S : y > n}
  <2>1. 0 \in Under
    <3>1. 0 \notin S
      BY <1>1
    <3> QED
      BY <3>1
  <2>2. ASSUME NEW n \in Nat, n \in Under
        PROVE  n + 1 \in Under
    <3>1. \A y \in S : y >= n + 1
      BY <2>2
    <3>2. n + 1 \notin S
      BY <1>1, <3>1
    <3> QED
      BY <3>1, <3>2
  <2>3. Nat \subseteq Under
    <3> HIDE DEF Under
    <3> QED
      BY <2>1, <2>2, SetInduction
  <2>4. PICK y \in S : TRUE
    OBVIOUS
  <2> QED
    BY <2>3, <2>4
<1>2. PICK k \in S : \A y \in S : k <= y
  BY <1>1
<1> QED
  BY <1>2 DEF Min

LEMMA BoundedMax ==
  ASSUME NEW n \in Nat, NEW S \in SUBSET (0..n), S # {}
  PROVE  Max(S) \in S /\ \A x \in S : x <= Max(S)
<1> DEFINE T == {n - x : x \in S}
<1>1. \A x \in S : n - x \in Nat
  OBVIOUS
<1>2. T \in SUBSET Nat /\ T # {}
  BY <1>1
<1>3. Min(T) \in T /\ \A y \in T : Min(T) <= y
  <2> HIDE DEF T
  <2> QED
    BY <1>2, LeastOf
<1>4. PICK x \in S : Min(T) = n - x
  BY <1>3
<1>5. \A y \in S : n - x <= n - y
  BY <1>3, <1>4
<1>6. \A y \in S : x >= y
  BY <1>5
<1> QED
  BY <1>6 DEF Max

-----------------------------------------------------------------------------
(* Rows *)

LEMMA StoredIs ==
  ASSUME NEW S, NEW r \in RowSet(S)
  PROVE  /\ Stored(r) \in RowSet(S) /\ Stored(r).written /\ Stored(Stored(r)) = Stored(r)
         /\ Stored(r).id = r.id /\ SameRow(Stored(r), r) /\ Stored(r).transient = r.transient
         /\ Stored(r).state = r.state /\ Stored(r).attempts = r.attempts
         /\ r.written => Stored(r) = r
  BY DEF Stored, RowSet, SameRow

\* What is left of a row that has been tried.
Tried(r, s) ==
  /\ SameRow(s, r) /\ s.transient = r.transient /\ s.written = r.written
  /\ s.id = r.id

LEMMA FailedIs ==
  ASSUME NEW S, NEW r \in RowSet(S), r.attempts <= Tries, Open(r)
  PROVE  /\ Failed(r) \in RowSet(S) /\ Tried(r, Failed(r))
         /\ Failed(r).state \in {"open", "abandoned"}
         /\ Open(Failed(r)) => Failed(r).attempts <= Tries /\ ~r.transient
         /\ r.transient => ~Open(Failed(r))
<1> DEFINE a == r.attempts + 1
           st == IF r.transient \/ a > Tries THEN "abandoned" ELSE "open"
<1>1. a \in 0..Tries + 1 /\ r.transient \in BOOLEAN
  BY WebhooksAssumption DEF RowSet
<1>2. st \in {"open", "abandoned"} /\ (st = "open" => a <= Tries /\ ~r.transient)
      /\ (r.transient => st # "open")
  BY <1>1, WebhooksAssumption DEF RowSet
<1>3. Failed(r) = [r EXCEPT !.attempts = a, !.state = st]
  BY DEF Failed
<1> HIDE DEF a, st
<1>4. Failed(r) \in RowSet(S)
  BY <1>1, <1>2, <1>3 DEF RowSet
<1>5. /\ Failed(r).id = r.id /\ Failed(r).game = r.game /\ Failed(r).event = r.event
      /\ Failed(r).transient = r.transient /\ Failed(r).written = r.written
      /\ Failed(r).attempts = a /\ Failed(r).state = st
  BY <1>3 DEF RowSet
<1> QED
  BY <1>2, <1>4, <1>5 DEF SameRow, Open, Tried

Answered(r) == [r EXCEPT !.state = "delivered", !.attempts = @ + 1]

LEMMA AnsweredIs ==
  ASSUME NEW S, NEW r \in RowSet(S), r.attempts <= Tries, Open(r)
  PROVE  /\ Answered(r) \in RowSet(S) /\ Tried(r, Answered(r)) /\ Answered(r).state = "delivered"
<1>1. Answered(r) \in RowSet(S)
  <2> DEFINE a == r.attempts + 1
  <2>1. a \in 0..Tries + 1
    BY WebhooksAssumption DEF RowSet
  <2>2. Answered(r) = [r EXCEPT !.state = "delivered", !.attempts = a]
    BY DEF Answered
  <2> HIDE DEF a
  <2> QED
    BY <2>1, <2>2 DEF RowSet
<1>2. /\ Answered(r).id = r.id /\ Answered(r).game = r.game /\ Answered(r).event = r.event
      /\ Answered(r).transient = r.transient /\ Answered(r).written = r.written
      /\ Answered(r).state = "delivered"
  BY DEF Answered, RowSet
<1> QED
  BY <1>1, <1>2 DEF SameRow, Tried

-----------------------------------------------------------------------------
(* The write *)

LEMMA Flushing ==
  ASSUME NEW L, NEW d \in Seq(L), d # <<>>, NEW table, FlushAsync(d, table),
         batch \in Seq(L), landed \in Seq(L), ~Writing => landed = <<>>
  PROVE  /\ dirty' \in Seq(L) /\ batch' \in Seq(L) /\ landed' \in Seq(L) /\ batch' # <<>>
         /\ Writing => dirty' = d /\ UNCHANGED writing
         /\ ~Writing => /\ dirty' = <<>> /\ batch' = d /\ landed' = <<>>
                        /\ putting' = <<Stored(table[Head(d)])>>
<1>1. CASE Writing
  BY <1>1 DEF FlushAsync, Writing
<1>2. CASE ~Writing
  BY <1>2 DEF FlushAsync, Put
<1> QED
  BY <1>1, <1>2

\* A lasting row that is new or has changed is marked.
LEMMA Changed ==
  ASSUME InTable, Writes, Owed, NEW x, Ids' = Ids \cup {x},
         \A id \in Ids \ {x} : rows'[id] = rows[id],
         rows'[x] \in RowSet({x}), ~rows'[x].transient,
         Open(rows'[x]) => rows'[x].attempts <= Tries,
         x \in Ids => x \in Lasting /\ SameRow(rows'[x], rows[x]),
         FlushAsync(Mark(dirty, x), rows'), db' = db
  PROVE  InTable' /\ Writes' /\ Owed'
<1> DEFINE d == Mark(dirty, x)
<1>1. /\ Lasting' = Lasting \cup {x}
      /\ \A id \in Lasting : SameRow(rows'[id], rows[id])
      /\ \A id \in Lasting \ {x} : rows'[id] = rows[id]
  BY DEF Lasting, SameRow
<1>2. \A r, id : StoredRow(r, id) => /\ r \in RowSet({id}) /\ r.written /\ ~r.transient
                                     /\ Open(r) => r.attempts <= Tries
                                     /\ id \in Lasting' /\ SameRow(r, rows'[id])
  BY <1>1 DEF StoredRow, SameRow
<1>3. InTable'
  BY <1>2 DEF InTable, StoredRow
<1>4. Seq(Lasting) \subseteq Seq(Lasting')
  BY <1>1
<1>5. dirty \in Seq(Lasting') /\ batch \in Seq(Lasting') /\ landed \in Seq(Lasting')
  BY <1>4 DEF Writes
<1>6. d \in Seq(Lasting') /\ Range(d) = Range(dirty) \cup {x} /\ d # <<>>
  BY <1>1, <1>5, Marked
<1>7. /\ dirty' \in Seq(Lasting') /\ batch' \in Seq(Lasting') /\ landed' \in Seq(Lasting')
      /\ batch' # <<>>
      /\ Writing => dirty' = d /\ UNCHANGED writing
      /\ ~Writing => /\ dirty' = <<>> /\ batch' = d /\ landed' = <<>>
                     /\ putting' = <<Stored(rows'[Head(d)])>>
  <2> HIDE DEF d
  <2>1. FlushAsync(d, rows')
    BY DEF d
  <2> QED
    BY <1>5, <1>6, <2>1, Flushing DEF Writes
<1> HIDE DEF d
<1>8. CASE Writing
  <2>1. dirty' = d /\ batch' = batch /\ putting' = putting /\ landed' = landed
    BY <1>7, <1>8
  <2>2. putting = <<putting[1]>> /\ StoredRow(putting[1], Head(batch))
    BY <1>8 DEF Writes
  <2>3. Writes'
    BY <1>2, <1>7, <2>1, <2>2 DEF Writes, StoredRow, Writing
  <2>4. Owed'
    <3>1. Head(batch) \in Lasting
      BY <2>2 DEF StoredRow
    <3>2. putting'[1] = Stored(rows'[Head(batch')]) \/ Head(batch') \in Range(dirty')
      BY <1>1, <1>6, <1>8, <2>1, <3>1 DEF Owed
    <3>3. ASSUME NEW id \in Lasting'
          PROVE  \/ id \in DOMAIN db' /\ db'[id] = Stored(rows'[id])
                 \/ id \in Range(dirty') \/ id \in Range(batch')
      BY <1>1, <1>6, <2>1 DEF Owed
    <3> QED
      BY <3>2, <3>3 DEF Owed
  <2> QED
    BY <1>3, <2>3, <2>4
<1>9. CASE ~Writing
  <2>1. dirty = <<>> /\ dirty' = <<>> /\ batch' = d /\ landed' = <<>>
    BY <1>7, <1>9 DEF Writes
  <2>2. putting' = <<Stored(rows'[Head(d)])>>
    BY <1>7, <1>9
  <2>3. Range(dirty) = {} /\ Range(batch) = {}
    BY <1>9, <2>1 DEF Range, Writing
  <2>4. Range(d) = {x} /\ Head(d) = x
    BY <1>6, <2>3, RangeOf
  <2>5. StoredRow(putting[1], Head(batch))'
    <3> DEFINE r == rows'[x]
    <3>1. r \in RowSet({x}) /\ ~r.transient /\ (Open(r) => r.attempts <= Tries)
      OBVIOUS
    <3> HIDE DEF r
    <3>2. Stored(r) \in RowSet({x}) /\ Stored(r).written /\ SameRow(Stored(r), r)
          /\ Stored(r).transient = r.transient
          /\ (Open(Stored(r)) => Stored(r).attempts <= Tries)
      BY <3>1, StoredIs DEF Open
    <3>3. putting'[1] = Stored(r) /\ Head(batch') = x /\ r = rows'[x] /\ x \in Lasting'
      BY <1>1, <2>1, <2>2, <2>4 DEF r
    <3> QED
      BY <3>1, <3>2, <3>3 DEF StoredRow
  <2>6. Writes'
    BY <1>7, <2>1, <2>2, <2>5 DEF Writes, Writing
  <2>7. Owed'
    <3>1. putting'[1] = Stored(rows'[Head(batch')])
      BY <2>1, <2>2
    <3>2. ASSUME NEW id \in Lasting'
          PROVE  \/ id \in DOMAIN db' /\ db'[id] = Stored(rows'[id])
                 \/ id \in Range(dirty') \/ id \in Range(batch')
      BY <1>1, <2>1, <2>3, <2>4 DEF Owed
    <3> QED
      BY <3>1, <3>2 DEF Owed
  <2> QED
    BY <1>3, <2>6, <2>7
<1> QED
  BY <1>8, <1>9

\* Heartbeats are no business of the table's.
LEMMA Unchanging ==
  ASSUME InTable, Writes, Owed, Lasting' = Lasting, \A id \in Lasting : rows'[id] = rows[id],
         UNCHANGED <<dirty, writing, db>>
  PROVE  InTable' /\ Writes' /\ Owed'
<1>1. \A r, id : StoredRow(r, id) => /\ r \in RowSet({id}) /\ r.written /\ ~r.transient
                                     /\ Open(r) => r.attempts <= Tries
                                     /\ id \in Lasting' /\ SameRow(r, rows'[id])
  BY DEF StoredRow
<1>2. InTable'
  BY <1>1 DEF InTable, StoredRow
<1>3. Writes'
  BY <1>1 DEF Writes, StoredRow, Writing
<1>4. Owed'
  <2>1. Writing => Head(batch) \in Lasting
    BY DEF Writes, StoredRow
  <2> QED
    BY <2>1 DEF Owed, Writing
<1> QED
  BY <1>2, <1>3, <1>4

LEMMA Receiving ==
  ASSUME Shapes, InTurn, NEW S \in SUBSET Busy, Received(S)
  PROVE  /\ receiver' = [seen |-> receiver'.seen, log |-> receiver'.log]
         /\ receiver'.log \in [Games -> Seq(Nat)]
         /\ \A g \in Games : Accepted(g) \subseteq Accepted(g)'
<1> DEFINE new == {g \in S : ~Sent(g).transient /\ flight[g] \notin receiver.seen}
           seen == receiver.seen \cup {flight[g] : g \in new}
           log  == [g \in Games |-> IF g \in new THEN Append(receiver.log[g], Sent(g).event)
                                    ELSE receiver.log[g]]
<1>1. receiver' = [seen |-> seen, log |-> log]
  BY DEF Received
<1>2. \A g \in Busy : g \in Games /\ Sent(g).event \in Nat
  BY DEF Busy, Sent, InTurn, OpenOf, Shapes, RowFits, RowSet
<1>3. \A g \in Games : receiver.log[g] \in Seq(Nat)
  BY DEF Shapes, Numbers
<1>4. new \subseteq Busy
  OBVIOUS
<1> HIDE DEF new, seen
<1>5. \A g \in Games : log[g] \in Seq(Nat) /\ Range(receiver.log[g]) \subseteq Range(log[g])
  <2> TAKE g \in Games
  <2>1. CASE g \in new
    <3>1. log[g] = Append(receiver.log[g], Sent(g).event) /\ Sent(g).event \in Nat
      BY <2>1, <1>2, <1>4
    <3> QED
      BY <3>1, <1>3, RangeOf
  <2>2. CASE g \notin new
    BY <2>2, <1>3
  <2> QED
    BY <2>1, <2>2
<1>6. log \in [Games -> Seq(Nat)]
  BY <1>5
<1> HIDE DEF log
<1> QED
  BY <1>1, <1>5, <1>6 DEF Accepted

-----------------------------------------------------------------------------
(* The outbox, step by step *)

LEMMA EnqueueKeeps ==
  ASSUME Outbox, NEW g \in Games, Enqueue(g)
  PROVE  Outbox'
<1> DEFINE x == nextId
           e == told[g] + 1
           r == Row(x, g, e, FALSE)
<1> USE DEF Outbox
<1>1. x \in Nat \ {0} /\ told[g] \in Nat /\ e \in Nat /\ x \notin Ids
  <2>1. x \in Nat \ {0} /\ told[g] \in Nat
    BY DEF Shapes, Numbers
  <2>2. \A id \in Ids : id < x
    BY DEF Shapes, RowFits
  <2>3. x \notin Ids
    <3> HIDE DEF x
    <3> QED
      BY <2>1, <2>2
  <2> QED
    BY <2>1, <2>3
<1> HIDE DEF x, e
<1>2. /\ r \in RowSet({x}) /\ r.id = x /\ r.game = g /\ r.event = e /\ r.state = "open"
      /\ ~r.transient /\ ~r.written /\ r.attempts = 0
  BY <1>1, WebhooksAssumption DEF Row, RowSet
<1>3. /\ rows' = With(rows, r) /\ told' = [told EXCEPT ![g] = e] /\ ClaimId
      /\ FlushAsync(Mark(dirty, x), rows')
      /\ UNCHANGED <<flight, db, ceiling, receiver, closed, uncovered, spent>>
  BY DEF Enqueue, x, e
<1> HIDE DEF r
<1>4. Ids' = Ids \cup {x} /\ rows'[x] = r /\ \A id \in Ids : rows'[id] = rows[id]
  <2> DEFINE w == With(rows, r)
  <2>1. DOMAIN w = DOMAIN rows \cup {x} /\ w[x] = r /\ \A id \in DOMAIN rows \ {x} : w[id] = rows[id]
    BY <1>2 DEF With
  <2>2. rows' = w
    BY <1>3
  <2> HIDE DEF w
  <2> QED
    BY <2>1, <2>2, <1>1 DEF Ids
<1>5. Numbers'
  <2>1. nextId' \in Nat \ {0} /\ {idCeiling'} \cup ceilingPut' \subseteq Nat
    BY <1>1, <1>3, WebhooksAssumption DEF ClaimId, Shapes, Numbers, x
  <2> QED
    BY <2>1, <1>1, <1>3 DEF Shapes, Numbers
<1>6. nextId' = x + 1 /\ \A h \in Games : told[h] \in Nat /\ told'[h] >= told[h]
  BY <1>1, <1>3 DEF ClaimId, Shapes, Numbers, x, e
<1>7. \A id \in Ids' : RowFits(id)'
  <2> TAKE id \in Ids'
  <2>1. CASE id = x
    <3>1. told'[g] = e /\ 0 <= Tries
      BY <1>1, <1>3, WebhooksAssumption DEF Shapes, Numbers
    <3>2. x < nextId' /\ e \in 1..e
      BY <1>1, <1>6 DEF e
    <3>3. rows'[x] \in RowSet({x}) /\ rows'[x].attempts = 0 /\ ~rows'[x].transient
          /\ rows'[x].event = e /\ rows'[x].game = g
      BY <1>2, <1>4
    <3> QED
      BY <2>1, <3>1, <3>2, <3>3, <1>1 DEF RowFits
  <2>2. CASE id \in Ids
    <3>1. RowFits(id) /\ rows'[id] = rows[id] /\ rows[id].game \in Games
      BY <2>2, <1>4 DEF Shapes, RowFits, RowSet
    <3>2. ~rows[id].transient => rows[id].event \in 1..told'[rows[id].game]
      <4> DEFINE h == rows[id].game
      <4>1. h \in Games /\ told[h] \in Nat /\ told'[h] \in Nat /\ told'[h] >= told[h]
        BY <3>1, <1>5, <1>6 DEF Numbers
      <4>2. ~rows[id].transient => rows[id].event \in 1..told[h]
        BY <3>1 DEF RowFits
      <4> HIDE DEF h
      <4>3. ~rows[id].transient => rows[id].event \in 1..told'[h]
        BY <4>1, <4>2
      <4> QED
        BY <4>3 DEF h
    <3> QED
      BY <3>1, <3>2, <1>1, <1>6 DEF RowFits, x
  <2> QED
    BY <2>1, <2>2, <1>4
<1>8. InTable' /\ Writes' /\ Owed'
  <2>1. InTable /\ Writes /\ Owed
    BY DEF Shapes
  <2>2. /\ Ids' = Ids \cup {x} /\ \A id \in Ids \ {x} : rows'[id] = rows[id]
        /\ rows'[x] \in RowSet({x}) /\ ~rows'[x].transient /\ x \notin Ids
        /\ (Open(rows'[x]) => rows'[x].attempts <= Tries)
    BY <1>1, <1>2, <1>4, WebhooksAssumption
  <2> QED
    BY <2>1, <2>2, <1>3, Changed
<1>9. InTurn'
  <2>1. Lasting' = Lasting \cup {x} /\ x \notin Lasting
    BY <1>1, <1>2, <1>4 DEF Lasting
  <2>2. \A id \in Lasting : id \in Ids /\ rows'[id] = rows[id]
    BY <1>4 DEF Lasting
  <2>3. \A id \in Lasting : id < x /\ (rows[id].game = g => rows[id].event < e)
    <3> TAKE id \in Lasting
    <3>1. RowFits(id) /\ ~rows[id].transient
      BY <2>2 DEF Shapes, Lasting
    <3> QED
      BY <3>1, <1>1 DEF RowFits, x, e
  <2>4. ASSUME NEW i \in Lasting', NEW j \in Lasting', rows'[i].game = rows'[j].game, i < j
        PROVE  rows'[i].event < rows'[j].event
    <3>1. i # x
      <4>1. SUFFICES ASSUME i = x PROVE FALSE
        OBVIOUS
      <4>2. j \in Lasting /\ j < x
        BY <4>1, <2>1, <2>3, <2>4, <1>1
      <4>3. j \in Nat
        BY <4>2, <2>2 DEF Shapes, RowFits
      <4> QED
        BY <4>1, <4>2, <4>3, <2>4, <1>1
    <3>2. CASE j = x
      BY <3>1, <3>2, <2>1, <2>2, <2>3, <2>4, <1>2, <1>4
    <3>3. CASE j # x
      BY <3>1, <3>3, <2>1, <2>2, <2>4 DEF InTurn
    <3> QED
      BY <3>2, <3>3
  <2>5. \A id \in Lasting' : rows'[id].written => id \in DOMAIN db'
    BY <2>1, <2>2, <1>2, <1>3, <1>4 DEF InTurn
  <2>6. Busy' = Busy /\ \A h \in Games : OpenOf(h) \subseteq OpenOf(h)' /\ OpenOf(h)' \subseteq OpenOf(h) \cup {x}
    BY <1>1, <1>3, <1>4 DEF Busy, OpenOf
  <2>7. ASSUME NEW h \in Busy
        PROVE  /\ flight'[h] \in OpenOf(h)' /\ rows'[flight'[h]].written
               /\ \A id \in OpenOf(h)' : flight'[h] <= id
    <3>1. flight'[h] = flight[h] /\ flight[h] \in Ids /\ flight[h] < x /\ h \in Games /\ flight[h] \in Nat
      BY <1>3 DEF InTurn, OpenOf, Busy, Shapes, RowFits, x
    <3>2. flight'[h] \in OpenOf(h)' /\ rows'[flight'[h]].written
      BY <3>1, <2>6, <1>4 DEF InTurn
    <3> QED
      BY <3>1, <3>2, <2>6, <1>1 DEF InTurn
  <2> QED
    BY <2>4, <2>5, <2>6, <2>7 DEF InTurn
<1> QED
  BY <1>5, <1>7, <1>8, <1>9 DEF Shapes

LEMMA EnqueueBeatKeeps ==
  ASSUME Outbox, NEW g \in Games, EnqueueBeat(g)
  PROVE  Outbox'
<1> DEFINE x == nextId
           r == Row(x, g, 0, TRUE)
<1> USE DEF Outbox
<1>1. x \in Nat \ {0} /\ x \notin Ids
  <2>1. x \in Nat \ {0}
    BY DEF Shapes, Numbers
  <2>2. \A id \in Ids : id < x
    BY DEF Shapes, RowFits
  <2>3. x \notin Ids
    <3> HIDE DEF x
    <3> QED
      BY <2>1, <2>2
  <2> QED
    BY <2>1, <2>3
<1> HIDE DEF x
<1>2. /\ r \in RowSet({x}) /\ r.id = x /\ r.game = g /\ r.state = "open"
      /\ r.transient /\ r.written /\ r.attempts = 0
  BY <1>1, WebhooksAssumption DEF Row, RowSet
<1>3. /\ rows' = With(rows, r) /\ ClaimId
      /\ UNCHANGED <<dirty, writing, flight, db, ceiling, outside>>
  BY DEF EnqueueBeat, x
<1> HIDE DEF r
<1>4. Ids' = Ids \cup {x} /\ rows'[x] = r /\ \A id \in Ids : rows'[id] = rows[id]
  <2> DEFINE w == With(rows, r)
  <2>1. DOMAIN w = DOMAIN rows \cup {x} /\ w[x] = r /\ \A id \in DOMAIN rows \ {x} : w[id] = rows[id]
    BY <1>2 DEF With
  <2>2. rows' = w
    BY <1>3
  <2> HIDE DEF w
  <2> QED
    BY <2>1, <2>2, <1>1 DEF Ids
<1>5. Numbers'
  <2>1. nextId' \in Nat \ {0} /\ {idCeiling'} \cup ceilingPut' \subseteq Nat
    BY <1>1, <1>3, WebhooksAssumption DEF ClaimId, Shapes, Numbers, x
  <2> QED
    BY <2>1, <1>1, <1>3 DEF Shapes, Numbers
<1>6. nextId' = x + 1
  BY <1>1, <1>3 DEF ClaimId, x
<1>7. \A id \in Ids' : RowFits(id)'
  <2> TAKE id \in Ids'
  <2>1. CASE id = x
    <3>1. x < nextId' /\ 0 <= Tries
      BY <1>1, <1>6, WebhooksAssumption
    <3>2. rows'[x] \in RowSet({x}) /\ rows'[x].attempts = 0 /\ rows'[x].transient
          /\ rows'[x].state = "open" /\ rows'[x].written
      BY <1>2, <1>4
    <3> QED
      BY <2>1, <3>1, <3>2, <1>1 DEF RowFits, Open
  <2>2. CASE id \in Ids
    <3>1. RowFits(id) /\ rows'[id] = rows[id] /\ told' = told
      BY <2>2, <1>3, <1>4 DEF Shapes
    <3> QED
      BY <3>1, <1>1, <1>6 DEF RowFits, x
  <2> QED
    BY <2>1, <2>2, <1>4
<1>8. Lasting' = Lasting /\ \A id \in Lasting : id \in Ids /\ rows'[id] = rows[id]
  BY <1>1, <1>2, <1>4 DEF Lasting
<1>9. InTable' /\ Writes' /\ Owed'
  BY <1>3, <1>8, Unchanging DEF Shapes
<1>10. InTurn'
  <2>1. \A i, j \in Lasting' : rows'[i].game = rows'[j].game /\ i < j => rows'[i].event < rows'[j].event
    BY <1>8 DEF InTurn
  <2>2. \A id \in Lasting' : rows'[id].written => id \in DOMAIN db'
    BY <1>8, <1>3 DEF InTurn
  <2>3. Busy' = Busy /\ \A h \in Games : OpenOf(h) \subseteq OpenOf(h)' /\ OpenOf(h)' \subseteq OpenOf(h) \cup {x}
    BY <1>1, <1>3, <1>4 DEF Busy, OpenOf
  <2>4. ASSUME NEW h \in Busy
        PROVE  /\ flight'[h] \in OpenOf(h)' /\ rows'[flight'[h]].written
               /\ \A id \in OpenOf(h)' : flight'[h] <= id
    <3>1. flight'[h] = flight[h] /\ flight[h] \in Ids /\ flight[h] < x /\ h \in Games /\ flight[h] \in Nat
      BY <1>3 DEF InTurn, OpenOf, Busy, Shapes, RowFits, x
    <3>2. flight'[h] \in OpenOf(h)' /\ rows'[flight'[h]].written
      BY <3>1, <2>3, <1>4 DEF InTurn
    <3> QED
      BY <3>1, <3>2, <2>3, <1>1 DEF InTurn
  <2> QED
    BY <2>1, <2>2, <2>3, <2>4 DEF InTurn
<1> QED
  BY <1>5, <1>7, <1>9, <1>10 DEF Shapes

\* The next request of a game is for its lowest row, which has been written.
LEMMA SweepKeeps ==
  ASSUME Outbox, NEW due \in SUBSET Games, Sweep(due)
  PROVE  Outbox'
<1> USE DEF Outbox
<1>1. PICK chosen \in SUBSET due :
        /\ due \subseteq Sendable
        /\ flight' = [g \in Games |-> IF g \in chosen THEN HeadOf(g) ELSE flight[g]]
        /\ UNCHANGED <<rows, nextId, idCeiling, dirty, writing, disk, outside, spent>>
  <2> DEFINE before(g) == {h \in due : HeadOf(h) < HeadOf(g)}
             chosen == {g \in due : Cardinality(Busy) + Cardinality(before(g)) < MaxInFlight}
  <2>1. chosen \in SUBSET due
    OBVIOUS
  <2>2. /\ due \subseteq Sendable
        /\ flight' = [g \in Games |-> IF g \in chosen THEN HeadOf(g) ELSE flight[g]]
        /\ UNCHANGED <<rows, nextId, idCeiling, dirty, writing, disk, outside, spent>>
    BY DEF Sweep
  <2> HIDE DEF chosen
  <2> QED
    BY <2>1, <2>2
<1>2. \A id \in Ids : RowFits(id)
  BY DEF Shapes
<1>3. ASSUME NEW g \in chosen
      PROVE  /\ g \in Games /\ HeadOf(g) \in OpenOf(g) /\ rows[HeadOf(g)].written
             /\ HeadOf(g) \in Nat \ {0} /\ \A id \in OpenOf(g) : HeadOf(g) <= id
  <2>1. g \in Games /\ OpenOf(g) # {} /\ rows[HeadOf(g)].written
    BY <1>1 DEF Sendable
  <2>2. OpenOf(g) \in SUBSET Nat /\ OpenOf(g) \subseteq Ids
    BY <1>2 DEF OpenOf, RowFits
  <2>3. HeadOf(g) \in OpenOf(g) /\ \A id \in OpenOf(g) : HeadOf(g) <= id
    BY <2>1, <2>2, LeastOf DEF HeadOf
  <2> QED
    BY <2>1, <2>2, <2>3, <1>2 DEF RowFits
<1>4. Numbers'
  <2>1. \A g \in Games : flight'[g] \in Nat
    BY <1>1, <1>3 DEF Shapes, Numbers
  <2>2. flight' \in [Games -> Nat]
    BY <1>1, <2>1
  <2> QED
    BY <1>1, <2>2 DEF Shapes, Numbers
<1>5. (\A id \in Ids : RowFits(id))' /\ InTable' /\ Writes' /\ Owed'
  <2>1. (\A id \in Ids : RowFits(id))'
    BY <1>1, <1>2 DEF Ids, RowFits
  <2>2. Lasting' = Lasting /\ \A id \in Lasting : rows'[id] = rows[id]
    BY <1>1 DEF Lasting, Ids
  <2> QED
    BY <2>1, <2>2, <1>1, Unchanging DEF Shapes
<1>6. InTurn'
  <2>1. \A g \in Games : OpenOf(g)' = OpenOf(g)
    BY <1>1 DEF OpenOf, Ids
  <2>2. Lasting' = Lasting
    BY <1>1 DEF Lasting, Ids
  <2>3. ASSUME NEW g \in Busy'
        PROVE  /\ flight'[g] \in OpenOf(g)' /\ rows'[flight'[g]].written
               /\ \A id \in OpenOf(g)' : flight'[g] <= id
    <3>1. g \in Games /\ flight'[g] # 0
      BY DEF Busy
    <3>2. CASE g \in chosen
      BY <3>1, <3>2, <2>1, <1>1, <1>3
    <3>3. CASE g \notin chosen
      <4>1. flight'[g] = flight[g] /\ g \in Busy
        BY <3>1, <3>3, <1>1 DEF Busy
      <4> QED
        BY <3>1, <4>1, <2>1, <1>1 DEF InTurn
    <3> QED
      BY <3>2, <3>3
  <2> QED
    BY <2>2, <2>3, <1>1 DEF InTurn
<1> QED
  BY <1>4, <1>5, <1>6 DEF Shapes

LEMMA CeilingKeeps ==
  ASSUME Outbox, NEW c \in ceilingPut, CeilingLands(c) \/ CeilingFails(c)
  PROVE  Outbox'
<1> USE DEF Outbox
<1>1. UNCHANGED <<memory, db, outside>> /\ {ceiling'} \cup ceilingPut' \subseteq Nat
  BY DEF CeilingLands, CeilingFails, Shapes, Numbers
<1>2. Lasting' = Lasting /\ \A id \in Lasting : rows'[id] = rows[id]
  BY <1>1 DEF Lasting, Ids
<1>3. InTable' /\ Writes' /\ Owed'
  BY <1>1, <1>2, Unchanging DEF Shapes
<1>4. Numbers' /\ (\A id \in Ids : RowFits(id))'
  BY <1>1 DEF Shapes, Numbers, RowFits, Ids
<1>5. InTurn'
  <2>1. Busy' = Busy /\ \A g \in Games : OpenOf(g)' = OpenOf(g)
    BY <1>1 DEF OpenOf, Ids, Busy
  <2> QED
    BY <2>1, <1>1, <1>2 DEF InTurn, Busy
<1> QED
  BY <1>3, <1>4, <1>5 DEF Shapes

\* A request that was answered, or was not: the row it was for is on its way
\* to the table again, or a heartbeat is gone.
LEMMA SettledKeeps ==
  ASSUME Outbox, NEW g \in Busy, NEW S \in SUBSET {g}, Received(S),
         NEW row \in RowSet({flight[g]}), Tried(Sent(g), row),
         Open(row) => row.attempts <= Tries /\ ~row.transient,
         Settled(g, row), UNCHANGED <<nextId, idCeiling, disk, told, uncovered>>
  PROVE  Outbox'
<1> DEFINE x == flight[g]
<1> USE DEF Outbox
<1>1. \A id \in Ids : RowFits(id)
  BY DEF Shapes
<1>2. /\ g \in Games /\ x \in Ids /\ rows[x].game = g /\ x \in Nat \ {0}
      /\ x < nextId /\ rows[x] \in RowSet({x}) /\ row.id = x
  BY <1>1 DEF Busy, InTurn, OpenOf, RowFits, RowSet
<1>3. /\ row.game = g /\ row.event = rows[x].event /\ row.transient = rows[x].transient
      /\ row.written = rows[x].written
  BY <1>2 DEF Tried, Sent, SameRow
<1>4. flight' = [flight EXCEPT ![g] = 0]
  BY DEF Settled
<1>5. Numbers'
  <2>1. /\ receiver' = [seen |-> receiver'.seen, log |-> receiver'.log]
        /\ receiver'.log \in [Games -> Seq(Nat)]
    BY Receiving
  <2>2. flight' \in [Games -> Nat]
    BY <1>4 DEF Shapes, Numbers
  <2> QED
    BY <2>1, <2>2 DEF Shapes, Numbers
<1>6. Busy' = Busy \ {g} /\ \A h \in Busy' : flight'[h] = flight[h]
  BY <1>2, <1>4 DEF Busy, Shapes, Numbers
<1> HIDE DEF x
<1>7. CASE row.transient
  <2>1. rows' = Restrict(rows, Ids \ {x}) /\ UNCHANGED <<dirty, writing>>
    BY <1>2, <1>7 DEF Settled
  <2>2. Ids' = Ids \ {x} /\ \A id \in Ids' : rows'[id] = rows[id]
    BY <2>1 DEF Restrict, Ids
  <2>3. Lasting' = Lasting /\ \A id \in Lasting : id \in Ids /\ rows'[id] = rows[id]
    BY <2>2, <1>3, <1>7 DEF Lasting
  <2>4. InTable' /\ Writes' /\ Owed'
    BY <2>1, <2>3, Unchanging DEF Shapes
  <2>5. \A id \in Ids' : RowFits(id)'
    BY <2>2, <1>1 DEF RowFits
  <2>6. \A h \in Games : h # g => OpenOf(h)' = OpenOf(h)
    BY <2>2, <1>2 DEF OpenOf
  <2>7. InTurn'
    <3>1. ASSUME NEW h \in Busy'
          PROVE  /\ flight'[h] \in OpenOf(h)' /\ rows'[flight'[h]].written
                 /\ \A id \in OpenOf(h)' : flight'[h] <= id
      <4>1. h \in Busy /\ h # g /\ flight'[h] = flight[h] /\ h \in Games
        BY <1>6 DEF Busy
      <4>2. flight[h] \in OpenOf(h)' /\ flight[h] \in Ids'
        BY <4>1, <2>6 DEF InTurn, OpenOf
      <4> QED
        BY <4>1, <4>2, <2>2, <2>6 DEF InTurn
    <3>2. \A i, j \in Lasting' : rows'[i].game = rows'[j].game /\ i < j => rows'[i].event < rows'[j].event
      BY <2>3 DEF InTurn
    <3>3. \A id \in Lasting' : rows'[id].written => id \in DOMAIN db'
      BY <2>3 DEF InTurn
    <3> QED
      BY <3>1, <3>2, <3>3 DEF InTurn
  <2> QED
    BY <1>5, <2>4, <2>5, <2>7 DEF Shapes
<1>8. CASE ~row.transient
  <2>1. rows' = [rows EXCEPT ![x] = row] /\ FlushAsync(Mark(dirty, x), rows')
    BY <1>2, <1>8 DEF Settled
  <2>2. Ids' = Ids /\ rows'[x] = row /\ \A id \in Ids \ {x} : rows'[id] = rows[id]
    BY <2>1, <1>2 DEF Ids
  <2>3. /\ Lasting' = Lasting /\ x \in Lasting
        /\ \A id \in Lasting : /\ id \in Ids /\ SameRow(rows'[id], rows[id])
                               /\ rows'[id].written = rows[id].written
    BY <2>2, <1>2, <1>3, <1>8 DEF Lasting, SameRow
  <2>4. InTable' /\ Writes' /\ Owed'
    <3>1. Ids' = Ids \cup {x} /\ rows'[x] \in RowSet({x}) /\ ~rows'[x].transient
          /\ (Open(rows'[x]) => rows'[x].attempts <= Tries)
      BY <2>2, <1>2, <1>8 DEF x
    <3> QED
      BY <3>1, <2>1, <2>2, <2>3, Changed DEF Shapes
  <2>5. \A id \in Ids' : RowFits(id)'
    <3> TAKE id \in Ids'
    <3>1. CASE id = x
      <4>1. rows[x].event \in 1..told[g]
        BY <1>1, <1>2, <1>3, <1>8 DEF RowFits
      <4>2. row \in RowSet({x})
        BY DEF x
      <4> QED
        BY <3>1, <4>1, <4>2, <2>2, <1>2, <1>3, <1>8 DEF RowFits
    <3>2. CASE id # x
      BY <3>2, <2>2, <1>1 DEF RowFits
    <3> QED
      BY <3>1, <3>2
  <2>6. \A h \in Games : h # g => OpenOf(h)' = OpenOf(h)
    BY <2>2, <1>2, <1>3 DEF OpenOf
  <2>7. InTurn'
    <3>1. ASSUME NEW h \in Busy'
          PROVE  /\ flight'[h] \in OpenOf(h)' /\ rows'[flight'[h]].written
                 /\ \A id \in OpenOf(h)' : flight'[h] <= id
      <4>1. h \in Busy /\ h # g /\ flight'[h] = flight[h] /\ h \in Games
        BY <1>6 DEF Busy
      <4>2. flight[h] \in OpenOf(h) /\ flight[h] \in Ids /\ flight[h] # x
        BY <4>1, <1>2 DEF InTurn, OpenOf
      <4> QED
        BY <4>1, <4>2, <2>2, <2>6 DEF InTurn
    <3>2. \A i, j \in Lasting' : rows'[i].game = rows'[j].game /\ i < j => rows'[i].event < rows'[j].event
      BY <2>3 DEF InTurn, SameRow
    <3>3. \A id \in Lasting' : rows'[id].written => id \in DOMAIN db'
      BY <2>3 DEF InTurn
    <3> QED
      BY <3>1, <3>2, <3>3 DEF InTurn
  <2> QED
    BY <1>5, <2>4, <2>5, <2>7 DEF Shapes
<1> QED
  BY <1>7, <1>8

LEMMA DeliveredKeeps ==
  ASSUME Outbox, NEW g \in Games, Delivered(g)
  PROVE  Outbox'
<1>1. g \in Busy /\ Received({g}) /\ Settled(g, Answered(Sent(g)))
      /\ UNCHANGED <<nextId, idCeiling, disk, told, uncovered>>
  BY DEF Delivered, Answered
<1>2. Sent(g) \in RowSet({flight[g]}) /\ Sent(g).attempts <= Tries /\ Open(Sent(g))
  BY <1>1 DEF Outbox, Shapes, RowFits, InTurn, OpenOf, Sent
<1>3. /\ Answered(Sent(g)) \in RowSet({flight[g]}) /\ Tried(Sent(g), Answered(Sent(g)))
      /\ ~Open(Answered(Sent(g)))
  BY <1>2, AnsweredIs DEF Open
<1> QED
  BY <1>1, <1>3, SettledKeeps

LEMMA FailKeeps ==
  ASSUME Outbox, NEW g \in Games, Fail(g)
  PROVE  Outbox'
<1>1. PICK S \in SUBSET {g} : Received(S)
  BY DEF Fail
<1>2. g \in Busy /\ Settled(g, Failed(Sent(g)))
      /\ UNCHANGED <<nextId, idCeiling, disk, told, uncovered>>
  BY DEF Fail
<1>3. Sent(g) \in RowSet({flight[g]}) /\ Sent(g).attempts <= Tries /\ Open(Sent(g))
  BY <1>2 DEF Outbox, Shapes, RowFits, InTurn, OpenOf, Sent
<1>4. /\ Failed(Sent(g)) \in RowSet({flight[g]}) /\ Tried(Sent(g), Failed(Sent(g)))
      /\ Open(Failed(Sent(g))) => Failed(Sent(g)).attempts <= Tries /\ ~Sent(g).transient
  BY <1>3, FailedIs
<1> QED
  BY <1>1, <1>2, <1>4, SettledKeeps DEF Tried

\* A batch begins with a row as it is.
LEMMA BatchBegins ==
  ASSUME (\A id \in Ids : RowFits(id)), NEW next \in Seq(Lasting), next # <<>>
  PROVE  /\ Put(next, rows) = <<Stored(rows[Head(next)])>> /\ Head(next) \in Lasting
         /\ Stored(rows[Head(next)]) \in RowSet({Head(next)}) /\ Stored(rows[Head(next)]).written
         /\ ~Stored(rows[Head(next)]).transient
         /\ Open(Stored(rows[Head(next)])) => Stored(rows[Head(next)]).attempts <= Tries
         /\ SameRow(Stored(rows[Head(next)]), rows[Head(next)])
<1>1. Head(next) \in Lasting
  OBVIOUS
<1> DEFINE n == Head(next)
           r == rows[n]
<1>2. r \in RowSet({n}) /\ ~r.transient /\ (Open(r) => r.attempts <= Tries)
  BY <1>1 DEF Lasting, RowFits
<1>3. Put(next, rows) = <<Stored(r)>>
  BY DEF Put
<1> HIDE DEF r, n
<1>4. Stored(r) \in RowSet({n}) /\ Stored(r).written /\ ~Stored(r).transient /\ SameRow(Stored(r), r)
      /\ (Open(Stored(r)) => Stored(r).attempts <= Tries)
  BY <1>2, StoredIs DEF Open
<1> QED
  BY <1>1, <1>3, <1>4 DEF r, n

LEMMA PutLandsKeeps ==
  ASSUME Outbox, PutLands
  PROVE  Outbox'
<1> DEFINE r == putting[1]
           h == Head(batch)
           more == Len(batch) > 1
           next == IF more THEN Tail(batch) ELSE dirty
<1> USE DEF Outbox
<1>1. \A id \in Ids : RowFits(id)
  BY DEF Shapes
<1>2. /\ batch # <<>> /\ StoredRow(r, h) /\ h \in Lasting /\ h \in Ids /\ r.id = h
      /\ dirty \in Seq(Lasting) /\ batch \in Seq(Lasting) /\ landed \in Seq(Lasting)
  BY DEF PutLands, Writing, Writes, StoredRow, RowSet, Lasting
<1>3. /\ db' = With(db, r) /\ rows' = [rows EXCEPT ![h] = Stored(rows[h])]
      /\ batch' = next /\ putting' = Put(next, rows)
      /\ landed' = (IF more THEN Append(landed, h) ELSE <<>>)
      /\ dirty' = (IF more THEN dirty ELSE <<>>)
      /\ UNCHANGED <<nextId, idCeiling, flight, ceiling, ceilingPut, outside, spent>>
  BY <1>2 DEF PutLands, Stored
<1>4. next \in Seq(Lasting)
  BY <1>2
<1>5. Ids' = Ids /\ rows'[h] = Stored(rows[h]) /\ \A id \in Ids \ {h} : rows'[id] = rows[id]
  BY <1>2, <1>3 DEF Ids
<1>6. \A id \in Ids : /\ Stored(rows'[id]) = Stored(rows[id]) /\ SameRow(rows'[id], rows[id])
                      /\ rows'[id].transient = rows[id].transient
                      /\ rows'[id].state = rows[id].state /\ rows'[id].attempts = rows[id].attempts
                      /\ rows'[id] \in RowSet({id})
                      /\ (rows[id].written => rows'[id].written)
  <2> TAKE id \in Ids
  <2>1. rows[id] \in RowSet({id})
    BY <1>1 DEF RowFits
  <2> DEFINE q == rows[id]
  <2>2. rows'[id] = q \/ rows'[id] = Stored(q)
    BY <1>5
  <2> HIDE DEF q
  <2>3. q \in RowSet({id})
    BY <2>1 DEF q
  <2>4. /\ Stored(Stored(q)) = Stored(q) /\ SameRow(Stored(q), q) /\ Stored(q).transient = q.transient
        /\ Stored(q).state = q.state /\ Stored(q).attempts = q.attempts
        /\ Stored(q) \in RowSet({id}) /\ Stored(q).written
    BY <2>3, StoredIs
  <2>5. SameRow(q, q)
    BY DEF SameRow
  <2>6. \A s : s = q \/ s = Stored(q) =>
             /\ Stored(s) = Stored(q) /\ SameRow(s, q) /\ s.transient = q.transient
             /\ s.state = q.state /\ s.attempts = q.attempts /\ s \in RowSet({id})
             /\ (q.written => s.written)
    BY <2>3, <2>4, <2>5
  <2> QED
    BY <2>2, <2>6 DEF q
<1>7. Lasting' = Lasting
  BY <1>5, <1>6 DEF Lasting
<1> HIDE DEF next, h, r
<1>8. DOMAIN db' = DOMAIN db \cup {h} /\ db'[h] = r /\ \A id \in DOMAIN db \ {h} : db'[id] = db[id]
  BY <1>2, <1>3 DEF With
<1>9. \A q, id : StoredRow(q, id) => /\ q \in RowSet({id}) /\ q.written /\ ~q.transient
                                     /\ Open(q) => q.attempts <= Tries
                                     /\ id \in Lasting' /\ SameRow(q, rows'[id])
  BY <1>6, <1>7 DEF StoredRow, SameRow, Lasting
<1>10. InTable'
  <2>1. \A id \in DOMAIN db' : StoredRow(db'[id], id)
    BY <1>2, <1>8 DEF Shapes, InTable
  <2> QED
    BY <2>1, <1>9 DEF InTable, StoredRow
<1>11. Writes'
  <2>1. landed' \in Seq(Lasting') /\ dirty' \in Seq(Lasting') /\ batch' \in Seq(Lasting')
    BY <1>2, <1>3, <1>4, <1>7
  <2>2. CASE next = <<>>
    <3>1. ~more
      <4>1. Len(Tail(batch)) = Len(batch) - 1 /\ Len(batch) \in Nat
        BY <1>2
      <4>2. more => Len(Tail(batch)) > 0 /\ next = Tail(batch)
        BY <4>1 DEF next
      <4>3. Len(<<>>) = 0
        OBVIOUS
      <4> QED
        BY <2>2, <4>2, <4>3
    <3>2. dirty' = <<>> /\ landed' = <<>> /\ putting' = <<>> /\ ~Writing'
      BY <3>1, <2>2, <1>3 DEF Put, Writing
    <3> QED
      BY <2>1, <3>2 DEF Writes
  <2>3. CASE next # <<>>
    <3> DEFINE q == Stored(rows[Head(next)])
    <3>1. putting' = <<q>> /\ Head(next) \in Lasting /\ q \in RowSet({Head(next)})
          /\ q.written /\ ~q.transient /\ SameRow(q, rows[Head(next)])
          /\ (Open(q) => q.attempts <= Tries)
      BY <1>1, <1>3, <1>4, <2>3, BatchBegins
    <3> HIDE DEF q
    <3>2. StoredRow(q, Head(next))
      BY <3>1 DEF StoredRow
    <3>3. putting'[1] = q /\ Head(batch') = Head(next) /\ Writing'
      BY <3>1, <2>3, <1>3 DEF Writing
    <3>4. StoredRow(putting[1], Head(batch))'
      BY <3>2, <3>3, <1>9 DEF StoredRow
    <3> QED
      BY <2>1, <3>1, <3>3, <3>4 DEF Writes
  <2> QED
    BY <2>2, <2>3
<1>12. Owed'
  <2>1. Range(batch) = {h} \cup Range(Tail(batch))
    BY <1>2, RangeOf DEF h
  <2>2. ~more => Range(Tail(batch)) = {}
    <3>1. ~more => Tail(batch) = <<>>
      BY <1>2
    <3> QED
      BY <3>1 DEF Range
  <2>3. Range(next) \cup Range(dirty') = Range(Tail(batch)) \cup Range(dirty)
    <3>1. CASE more
      BY <3>1, <1>3 DEF next
    <3>2. CASE ~more
      <4>1. Range(dirty') = {}
        BY <3>2, <1>3 DEF Range
      <4> QED
        BY <3>2, <4>1, <2>2 DEF next
    <3> QED
      BY <3>1, <3>2
  <2>4. ASSUME NEW id \in Lasting'
        PROVE  \/ id \in DOMAIN db' /\ db'[id] = Stored(rows'[id])
               \/ id \in Range(dirty') \/ id \in Range(batch')
    <3>1. id \in Lasting /\ Stored(rows'[id]) = Stored(rows[id])
      BY <1>6, <1>7 DEF Lasting
    <3>2. CASE id \in Range(dirty) \cup Range(Tail(batch))
      BY <3>2, <2>3, <1>3
    <3>3. CASE id = h /\ h \notin Range(dirty)
      <4>1. r = Stored(rows[h])
        BY <3>3, <1>2 DEF Owed, Writing, r, h
      <4> QED
        BY <4>1, <3>1, <3>3, <1>8
    <3>4. CASE id # h /\ id \in DOMAIN db /\ db[id] = Stored(rows[id])
      BY <3>1, <3>4, <1>8
    <3> QED
      BY <3>1, <3>2, <3>3, <3>4, <2>1 DEF Owed
  <2>5. Writing' => putting'[1] = Stored(rows'[Head(batch')])
    <3>1. SUFFICES ASSUME next # <<>>
                   PROVE  putting'[1] = Stored(rows'[Head(next)])
      BY <1>3 DEF Writing
    <3>2. putting' = <<Stored(rows[Head(next)])>> /\ Head(next) \in Lasting
      BY <3>1, <1>1, <1>3, <1>4, BatchBegins
    <3> QED
      BY <3>2, <1>6 DEF Lasting
  <2> QED
    BY <2>4, <2>5 DEF Owed
<1>13. \A id \in Ids' : RowFits(id)'
  <2> TAKE id \in Ids'
  <2>1. id \in Ids /\ RowFits(id)
    BY <1>1, <1>5
  <2>2. rows[id].transient => rows'[id].written
    BY <2>1, <1>6 DEF RowFits
  <2> QED
    BY <2>1, <2>2, <1>3, <1>6 DEF RowFits, SameRow, Open
<1>14. InTurn'
  <2>1. Busy' = Busy /\ \A g \in Games : OpenOf(g)' = OpenOf(g)
    BY <1>3, <1>5, <1>6 DEF Busy, OpenOf, Open, SameRow
  <2>2. \A i, j \in Lasting' : rows'[i].game = rows'[j].game /\ i < j => rows'[i].event < rows'[j].event
    BY <1>6, <1>7 DEF InTurn, SameRow, Lasting
  <2>3. \A id \in Lasting' : rows'[id].written => id \in DOMAIN db'
    BY <1>5, <1>7, <1>8 DEF InTurn, Lasting
  <2>4. \A g \in Busy' : /\ flight'[g] \in OpenOf(g)' /\ rows'[flight'[g]].written
                         /\ \A id \in OpenOf(g)' : flight'[g] <= id
    <3> TAKE g \in Busy'
    <3>1. g \in Games /\ flight'[g] = flight[g] /\ flight[g] \in OpenOf(g) /\ rows[flight[g]].written
      BY <1>3, <2>1 DEF Busy, InTurn
    <3>2. flight[g] \in Ids
      BY <3>1 DEF OpenOf
    <3>3. \A id \in OpenOf(g) : flight[g] <= id
      BY <2>1 DEF InTurn
    <3> QED
      BY <3>1, <3>2, <3>3, <1>6, <2>1
  <2> QED
    BY <2>2, <2>3, <2>4 DEF InTurn
<1>15. Numbers'
  BY <1>3 DEF Shapes, Numbers
<1> QED
  BY <1>10, <1>11, <1>12, <1>13, <1>14, <1>15 DEF Shapes

LEMMA PutFailsKeeps ==
  ASSUME Outbox, PutFails
  PROVE  Outbox'
<1> DEFINE next == OwedAfterFault
<1> USE DEF Outbox
<1>1. \A id \in Ids : RowFits(id)
  BY DEF Shapes
<1>2. /\ dirty \in Seq(Lasting) /\ batch \in Seq(Lasting) /\ landed \in Seq(Lasting)
      /\ batch # <<>>
  BY DEF PutFails, Writing, Writes
<1>3. next \in Seq(Lasting) /\ Range(dirty) \cup Range(batch) \subseteq Range(next)
  <2> DEFINE all == landed \o batch
  <2>1. all \in Seq(Lasting) /\ Range(batch) \subseteq Range(all)
    BY <1>2, RangeJoined
  <2>2. next = MarkAll(dirty, all)
    BY DEF OwedAfterFault
  <2> HIDE DEF all, next
  <2>3. MarkAll(dirty, all) \in Seq(Lasting)
        /\ Range(MarkAll(dirty, all)) = Range(dirty) \cup Range(all)
    BY <1>2, <2>1, AllMarked
  <2> QED
    BY <2>1, <2>2, <2>3
<1>4. /\ batch' = next /\ putting' = Put(next, rows) /\ landed' = <<>> /\ dirty' = <<>>
      /\ UNCHANGED <<rows, nextId, idCeiling, flight, disk, outside>>
  BY DEF PutFails
<1> HIDE DEF next
<1>5. next # <<>>
  <2>1. Head(batch) \in Range(next)
    BY <1>2, <1>3, RangeOf
  <2> QED
    BY <2>1 DEF Range
<1> DEFINE q == Stored(rows[Head(next)])
<1>6. putting' = <<q>> /\ Head(next) \in Lasting /\ q \in RowSet({Head(next)})
      /\ q.written /\ ~q.transient /\ SameRow(q, rows[Head(next)])
      /\ (Open(q) => q.attempts <= Tries)
  BY <1>1, <1>3, <1>4, <1>5, BatchBegins
<1>7. Lasting' = Lasting /\ Ids' = Ids
  BY <1>4 DEF Lasting, Ids
<1>8. Owed'
  BY <1>3, <1>4, <1>6, <1>7 DEF Owed
<1> HIDE DEF q
<1>9. Writes'
  <2>1. StoredRow(putting[1], Head(batch))'
    BY <1>4, <1>6, <1>7 DEF StoredRow
  <2>2. dirty' \in Seq(Lasting') /\ landed' \in Seq(Lasting') /\ Writing'
    BY <1>4, <1>5 DEF Writing
  <2> QED
    BY <2>1, <2>2, <1>3, <1>4, <1>6, <1>7 DEF Writes
<1>10. InTable'
  BY <1>4, <1>7 DEF Shapes, InTable, StoredRow
<1>11. Numbers' /\ (\A id \in Ids : RowFits(id))'
  BY <1>4, <1>7 DEF Shapes, Numbers, RowFits
<1>12. InTurn'
  <2>1. Busy' = Busy /\ \A g \in Games : OpenOf(g)' = OpenOf(g)
    BY <1>4, <1>7 DEF Busy, OpenOf
  <2> QED
    BY <2>1, <1>4, <1>7 DEF InTurn, Busy
<1> QED
  BY <1>8, <1>9, <1>10, <1>11, <1>12 DEF Shapes

\* A week later: closed rows go, and nothing is on its way to the table.
LEMMA PruneKeeps ==
  ASSUME Outbox, Prune
  PROVE  Outbox'
<1> DEFINE gone == {id \in Ids : ~Open(rows[id])}
<1> USE DEF Outbox
<1>1. \A id \in Ids : RowFits(id)
  BY DEF Shapes
<1>2. /\ dirty = <<>> /\ batch = <<>>
      /\ rows' = Restrict(rows, Ids \ gone) /\ db' = Restrict(db, DOMAIN db \ gone)
      /\ uncovered' \in BOOLEAN
      /\ UNCHANGED <<nextId, idCeiling, dirty, writing, flight, ceiling, ceilingPut,
                     receiver, told, closed, spent>>
  BY DEF Prune, Writing
<1>3. \A id \in Ids : id \in gone <=> ~Open(rows[id])
  OBVIOUS
<1> HIDE DEF gone
<1>4. Ids' = Ids \ gone /\ \A id \in Ids' : rows'[id] = rows[id]
  BY <1>2 DEF Restrict, Ids
<1>5. DOMAIN db' = DOMAIN db \ gone /\ \A id \in DOMAIN db' : db'[id] = db[id]
  BY <1>2 DEF Restrict
<1>6. Lasting' = Lasting \ gone /\ \A id \in Lasting' : id \in Lasting /\ rows'[id] = rows[id]
  BY <1>4 DEF Lasting
<1>7. InTable'
  <2>1. ASSUME NEW id \in DOMAIN db'
        PROVE  StoredRow(db'[id], id) /\ id \in Lasting' /\ rows'[id] = rows[id]
    BY <1>5, <1>6 DEF Shapes, InTable, StoredRow
  <2> QED
    BY <2>1 DEF InTable, StoredRow
<1>8. Writes'
  <2>1. dirty' = <<>> /\ batch' = <<>> /\ landed' = <<>> /\ putting' = <<>>
    BY <1>2 DEF Writes, Writing
  <2> QED
    BY <2>1 DEF Writes, Writing
<1>9. Owed'
  <2>1. Range(dirty) = {} /\ Range(batch) = {} /\ ~Writing'
    BY <1>2 DEF Range, Writing
  <2>2. \A id \in Lasting' : id \in DOMAIN db' /\ db'[id] = Stored(rows'[id])
    BY <2>1, <1>5, <1>6 DEF Owed
  <2> QED
    BY <2>1, <2>2 DEF Owed
<1>10. Numbers' /\ (\A id \in Ids : RowFits(id))'
  <2>1. \A id \in Ids' : RowFits(id)'
    BY <1>1, <1>2, <1>4 DEF RowFits
  <2>2. Numbers'
    BY <1>2 DEF Shapes, Numbers
  <2> QED
    BY <2>1, <2>2
<1>11. InTurn'
  <2>1. \A g \in Games : OpenOf(g)' = OpenOf(g)
    BY <1>3, <1>4 DEF OpenOf
  <2>2. \A i, j \in Lasting' : rows'[i].game = rows'[j].game /\ i < j => rows'[i].event < rows'[j].event
    BY <1>6 DEF InTurn
  <2>3. \A id \in Lasting' : rows'[id].written => id \in DOMAIN db'
    BY <1>5, <1>6 DEF InTurn
  <2>4. \A g \in Busy' : /\ flight'[g] \in OpenOf(g)' /\ rows'[flight'[g]].written
                         /\ \A id \in OpenOf(g)' : flight'[g] <= id
    <3> TAKE g \in Busy'
    <3>1. g \in Games /\ g \in Busy /\ flight'[g] = flight[g]
      BY <1>2 DEF Busy
    <3>2. flight[g] \in OpenOf(g)' /\ flight[g] \in Ids'
      BY <3>1, <2>1 DEF InTurn, OpenOf
    <3> QED
      BY <3>1, <3>2, <1>4, <2>1 DEF InTurn
  <2> QED
    BY <2>2, <2>3, <2>4 DEF InTurn
<1> QED
  BY <1>7, <1>8, <1>9, <1>10, <1>11 DEF Shapes

\* The ids begin again above the rows on hand and above the ceiling.
LEMMA FirstIdIs ==
  ASSUME NEW n \in Nat, NEW table, DOMAIN table \subseteq 0..n, NEW kept \in Nat
  PROVE  /\ FirstId(table, kept) \in Nat \ {0} /\ FirstId(table, kept) >= kept
         /\ \A id \in DOMAIN table : id < FirstId(table, kept)
<1> DEFINE S == DOMAIN table \cup {0}
           top == Max(S)
<1>1. S \in SUBSET (0..n) /\ S # {}
  OBVIOUS
<1> HIDE DEF S
<1>2. top \in S /\ \A id \in S : id <= top
  BY <1>1, BoundedMax
<1>3. top \in Nat /\ \A id \in DOMAIN table : id <= top /\ id \in Nat
  BY <1>1, <1>2 DEF S
<1>4. FirstId(table, kept) = Max({top + 1, kept})
  BY DEF FirstId, S
<1> HIDE DEF top
<1> DEFINE m == Max({top + 1, kept})
<1>5. m \in {top + 1, kept} /\ m >= top + 1 /\ m >= kept
  <2> DEFINE T == {top + 1, kept}
             k == top + 1 + kept
  <2>1. k \in Nat /\ T \in SUBSET (0..k) /\ T # {}
    BY <1>3
  <2> HIDE DEF T, k
  <2>2. Max(T) \in T /\ \A x \in T : x <= Max(T)
    BY <2>1, BoundedMax
  <2> QED
    BY <2>2, <1>3 DEF T
<1> HIDE DEF m
<1>6. FirstId(table, kept) = m
  BY <1>4 DEF m
<1>7. m \in Nat \ {0}
  BY <1>3, <1>5
<1> QED
  BY <1>3, <1>5, <1>6, <1>7

\* What a crash may leave in the table, and where the ids begin again.
Leaves(table, kept) ==
  /\ table \in {db} \cup {With(db, row) : row \in Range(putting)}
  /\ kept \in {ceiling} \cup ceilingPut
  /\ db' = table /\ rows' = table /\ ceiling' = kept
  /\ nextId' = FirstId(table, kept) /\ idCeiling' = FirstId(table, kept)
  /\ closed' = closed \cup
       {<<rows[id].game, rows[id].event>> : id \in {i \in Ids \ DOMAIN table : ~rows[i].transient}}

LEMMA CrashLeaves ==
  ASSUME Outbox, NEW table, NEW kept, Leaves(table, kept)
  PROVE  /\ \A id \in DOMAIN table : StoredRow(table[id], id)
         /\ kept \in Nat /\ kept \in {ceiling} \cup ceilingPut
         /\ nextId' \in Nat \ {0} /\ nextId' >= kept
         /\ \A id \in DOMAIN table : id < nextId'
         /\ DOMAIN db \subseteq DOMAIN table
         /\ \A id \in DOMAIN table :
              \/ id \in DOMAIN db /\ table[id] = db[id]
              \/ Writing /\ id = Head(batch) /\ table[id] = putting[1]
<1> USE DEF Outbox
<1>1. \/ table = db
      \/ Writing /\ table = With(db, putting[1]) /\ StoredRow(putting[1], Head(batch))
  <2>1. CASE table = db
    BY <2>1
  <2>2. ASSUME NEW row \in Range(putting), table = With(db, row)
        PROVE  Writing /\ table = With(db, putting[1]) /\ StoredRow(putting[1], Head(batch))
    <3>1. putting # <<>>
      BY <2>2 DEF Range
    <3>2. Writing /\ putting = <<putting[1]>> /\ StoredRow(putting[1], Head(batch))
      BY <3>1 DEF Writes
    <3>3. Range(putting) = {putting[1]}
      <4> DEFINE q == putting[1]
      <4>1. putting = <<q>>
        BY <3>2
      <4> HIDE DEF q
      <4>2. Range(<<q>>) = {q}
        BY DEF Range
      <4> QED
        BY <4>1, <4>2 DEF q
    <3> QED
      BY <2>2, <3>2, <3>3
  <2> QED
    BY <2>1, <2>2 DEF Leaves
<1>2. /\ \A id \in DOMAIN table :
           \/ id \in DOMAIN db /\ table[id] = db[id]
           \/ Writing /\ id = Head(batch) /\ table[id] = putting[1] /\ StoredRow(putting[1], Head(batch))
      /\ DOMAIN db \subseteq DOMAIN table
  <2>1. CASE table = db
    BY <2>1
  <2>2. CASE Writing /\ table = With(db, putting[1]) /\ StoredRow(putting[1], Head(batch))
    <3> DEFINE q == putting[1]
               h == Head(batch)
    <3>1. q.id = h
      BY <2>2 DEF StoredRow, RowSet
    <3> HIDE DEF q, h
    <3>2. /\ DOMAIN With(db, q) = DOMAIN db \cup {h} /\ With(db, q)[h] = q
          /\ \A id \in DOMAIN db \ {h} : With(db, q)[id] = db[id]
      BY <3>1 DEF With
    <3>3. table = With(db, q)
      BY <2>2 DEF q
    <3> QED
      BY <2>2, <3>2, <3>3 DEF q, h
  <2> QED
    BY <1>1, <2>1, <2>2
<1>3. \A id \in DOMAIN table : StoredRow(table[id], id)
  BY <1>2 DEF Shapes, InTable
<1>4. kept \in Nat /\ kept \in {ceiling} \cup ceilingPut
  BY DEF Leaves, Shapes, Numbers
<1>5. \A id \in DOMAIN table : id \in 0..nextId
  <2> TAKE id \in DOMAIN table
  <2>1. id \in Ids
    BY <1>3 DEF StoredRow, Lasting
  <2>2. RowFits(id) /\ nextId \in Nat
    BY <2>1 DEF Shapes, Numbers
  <2> QED
    BY <2>2 DEF RowFits
<1>6. nextId \in Nat /\ DOMAIN table \subseteq 0..nextId
  BY <1>5 DEF Shapes, Numbers
<1>7. nextId' = FirstId(table, kept)
  BY DEF Leaves
<1> QED
  BY <1>2, <1>3, <1>4, <1>6, <1>7, FirstIdIs

LEMMA CrashKeeps ==
  ASSUME Outbox, Crash
  PROVE  Outbox'
<1> USE DEF Outbox
<1>1. PICK table, kept : Leaves(table, kept)
  BY DEF Crash, Leaves
<1>2. PICK S \in SUBSET Busy : Received(S)
  BY DEF Crash
<1>3. /\ dirty' = <<>> /\ batch' = <<>> /\ landed' = <<>> /\ putting' = <<>> /\ ceilingPut' = {}
      /\ flight' = [g \in Games |-> 0] /\ UNCHANGED <<told, uncovered>>
  BY DEF Crash
<1>4. rows' = table /\ db' = table /\ ceiling' = kept /\ idCeiling' = nextId'
  BY <1>1 DEF Leaves
<1>5. /\ \A id \in DOMAIN table : StoredRow(table[id], id)
      /\ kept \in Nat /\ nextId' \in Nat \ {0} /\ \A id \in DOMAIN table : id < nextId'
  BY <1>1, CrashLeaves
<1>6. Ids' = DOMAIN table /\ Lasting' = DOMAIN table
  BY <1>4, <1>5 DEF Lasting, Ids, StoredRow
<1>7. Numbers'
  <2>1. /\ receiver' = [seen |-> receiver'.seen, log |-> receiver'.log]
        /\ receiver'.log \in [Games -> Seq(Nat)]
    BY <1>2, Receiving
  <2>2. flight' \in [Games -> Nat]
    BY <1>3
  <2> QED
    BY <2>1, <2>2, <1>3, <1>4, <1>5 DEF Shapes, Numbers
<1>8. \A id \in Ids' : RowFits(id)'
  <2> TAKE id \in Ids'
  <2>1. StoredRow(table[id], id) /\ id < nextId'
    BY <1>5, <1>6
  <2>2. RowFits(id)
    BY <2>1 DEF StoredRow, Lasting, Shapes
  <2>3. rows'[id] = table[id] /\ told' = told
    BY <1>3, <1>4
  <2> QED
    BY <2>1, <2>2, <2>3 DEF RowFits, StoredRow, SameRow, Lasting
<1>9. InTable'
  <2>1. \A id \in DOMAIN table : SameRow(table[id], table[id])
    BY DEF SameRow
  <2> QED
    BY <2>1, <1>4, <1>5, <1>6 DEF InTable, StoredRow
<1>10. Writes'
  BY <1>3 DEF Writes, Writing
<1>11. Owed'
  <2>1. ASSUME NEW id \in DOMAIN table
        PROVE  Stored(table[id]) = table[id]
    <3> DEFINE q == table[id]
    <3>1. q \in RowSet({id}) /\ q.written
      BY <1>5 DEF StoredRow
    <3> HIDE DEF q
    <3>2. Stored(q) = q
      BY <3>1, StoredIs
    <3> QED
      BY <3>2 DEF q
  <2> QED
    BY <2>1, <1>3, <1>4, <1>6 DEF Owed, Writing
<1>12. InTurn'
  <2>1. \A i, j \in Lasting' : rows'[i].game = rows'[j].game /\ i < j => rows'[i].event < rows'[j].event
    <3>1. \A id \in Lasting' : /\ id \in Lasting /\ rows'[id].game = rows[id].game
                               /\ rows'[id].event = rows[id].event
      BY <1>4, <1>5, <1>6 DEF StoredRow, SameRow
    <3> QED
      BY <3>1 DEF InTurn
  <2>2. Busy' = {}
    BY <1>3 DEF Busy
  <2> QED
    BY <2>1, <2>2, <1>4, <1>6 DEF InTurn
<1> QED
  BY <1>7, <1>8, <1>9, <1>10, <1>11, <1>12 DEF Shapes

LEMMA OutboxBegins == Init => Outbox
<1> SUFFICES ASSUME Init PROVE Outbox
  OBVIOUS
<1>1. Ids = {} /\ DOMAIN db = {} /\ Lasting = {} /\ Busy = {}
  BY DEF Init, Ids, Lasting, Busy
<1>2. \A g \in Games : <<>> \in Seq(Nat)
  OBVIOUS
<1>3. Numbers
  <2>1. receiver.log = [g \in Games |-> <<>>] /\ receiver.seen = {}
    BY DEF Init
  <2>2. receiver = [seen |-> receiver.seen, log |-> receiver.log]
    BY DEF Init
  <2>3. receiver.log \in [Games -> Seq(Nat)]
    BY <2>1, <1>2
  <2> HIDE DEF Init
  <2>4. /\ nextId = 1 /\ idCeiling = 1 /\ ceiling = 0 /\ ceilingPut = {} /\ uncovered = FALSE
        /\ told = [g \in Games |-> 0] /\ flight = [g \in Games |-> 0]
    BY DEF Init
  <2>5. told \in [Games -> Nat] /\ flight \in [Games -> Nat]
    BY <2>4
  <2>6. nextId \in Nat \ {0} /\ {idCeiling, ceiling} \cup ceilingPut \subseteq Nat
    BY <2>4
  <2>7. uncovered \in BOOLEAN
    BY <2>4
  <2> QED
    BY <2>2, <2>3, <2>5, <2>6, <2>7 DEF Numbers
<1>4. Writes
  BY DEF Init, Writes, Writing
<1> QED
  BY <1>1, <1>3, <1>4 DEF Outbox, Shapes, InTable, Owed, InTurn, Writing, Init

LEMMA OutboxStep ==
  ASSUME Outbox, [Next]_vars
  PROVE  Outbox'
<1>1. CASE UNCHANGED vars
  <2>1. UNCHANGED <<rows, nextId, idCeiling, dirty, batch, landed, putting, flight, db, ceiling,
                    ceilingPut, receiver, told, uncovered>>
    BY <1>1
  <2>2. Ids' = Ids /\ Lasting' = Lasting /\ Busy' = Busy /\ Writing' = Writing
    BY <2>1 DEF Ids, Lasting, Busy, Writing
  <2>3. Shapes'
    BY <2>1, <2>2 DEF Outbox, Shapes, Numbers, RowFits, InTable, StoredRow
  <2>4. Writes' /\ Owed'
    BY <2>1, <2>2 DEF Outbox, Writes, Owed, StoredRow
  <2>5. InTurn'
    <3>1. \A g \in Games : OpenOf(g)' = OpenOf(g)
      BY <2>1, <2>2 DEF OpenOf
    <3> QED
      BY <2>1, <2>2, <3>1 DEF Outbox, InTurn, Busy
  <2> QED
    BY <2>3, <2>4, <2>5 DEF Outbox
<1>2. CASE Next
  BY <1>2, EnqueueKeeps, EnqueueBeatKeeps, SweepKeeps, CeilingKeeps, DeliveredKeeps, FailKeeps,
     PutLandsKeeps, PutFailsKeeps, PruneKeeps, CrashKeeps DEF Next
<1> QED
  BY <1>1, <1>2

LEMMA OutboxAlways == Spec => []Outbox
<1>1. Init => Outbox
  BY OutboxBegins
<1>2. Outbox /\ [Next]_vars => Outbox'
  BY OutboxStep
<1> QED
  BY <1>1, <1>2, PTL DEF Spec

\* flushAsync() forgets no change: whatever is enqueued, tried, refused by
\* the database or brought back by a restart, a row that differs from what
\* the table has of it is dirty or waits in the batch.
THEOREM NothingIsForgotten == Spec => []WriteIsOwed
<1>1. Outbox => WriteIsOwed
  <2> SUFFICES ASSUME Outbox, NEW id \in {i \in Ids : ~rows[i].transient}
               PROVE  \/ id \in DOMAIN db /\ db[id] = Stored(rows[id])
                      \/ id \in Range(dirty)
                      \/ id \in Range(batch) /\ (id = Head(batch) => putting[1] = Stored(rows[id]))
    BY DEF WriteIsOwed
  <2>1. id \in Lasting
    BY DEF Lasting
  <2>2. id \in Range(batch) => Writing
    BY DEF Range, Writing
  <2> QED
    BY <2>1, <2>2 DEF Outbox, Owed
<1> QED
  BY <1>1, OutboxAlways, PTL

-----------------------------------------------------------------------------
(* What the receiver hears *)

\* What was said of a row stays true.
LEMMA ClaimStays ==
  ASSUME NEW log, NEW more, NEW gone, NEW lost,
         \A g \in Games : Range(log[g]) \subseteq Range(more[g]), gone \subseteq lost,
         NEW row, row.game \in Games, Claim(row, log, gone)
  PROVE  Claim(row, more, lost)
  BY DEF Claim, Out

LEMMA OpenClaims ==
  ASSUME NEW row, Open(row), NEW log, NEW gone
  PROVE  Claim(row, log, gone)
  BY DEF Claim

LEMMA StoredClaims ==
  ASSUME NEW S, NEW row \in RowSet(S), NEW log, NEW gone, Claim(row, log, gone)
  PROVE  Claim(Stored(row), log, gone)
<1>1. Stored(row).game = row.game /\ Stored(row).event = row.event /\ Stored(row).state = row.state
  BY StoredIs DEF SameRow
<1> QED
  BY <1>1 DEF Claim, Open

Grown ==
  /\ \A g \in Games : Range(receiver.log[g]) \subseteq Range(receiver'.log[g])
  /\ closed \subseteq closed'

\* Requests come to the receiver: each is the next event of its game, or one
\* it has had.
LEMMA HeardOnce ==
  ASSUME Outbox, Hearing, NEW S \in SUBSET Busy, Received(S), closed \subseteq closed'
  PROVE  /\ Gapless' /\ Grown
         /\ \A id \in receiver'.seen :
              /\ id \in receiver.seen \/ id \in DOMAIN db
              /\ id \in Nat /\ id < nextId
              /\ id \in Lasting => rows[id].event \in Range(receiver'.log[rows[id].game])
         /\ \A g \in S : ~Sent(g).transient => Sent(g).event \in Range(receiver'.log[g])
<1> DEFINE new == {g \in S : ~Sent(g).transient /\ flight[g] \notin receiver.seen}
           seen == receiver.seen \cup {flight[g] : g \in new}
           log  == [g \in Games |-> IF g \in new THEN Append(receiver.log[g], Sent(g).event)
                                    ELSE receiver.log[g]]
<1> USE DEF Outbox, Hearing
<1>1. receiver'.seen = seen /\ receiver'.log = log
  BY DEF Received
<1>2. \A g \in S : /\ g \in Games /\ flight[g] \in Ids /\ Sent(g) = rows[flight[g]]
                   /\ RowFits(flight[g]) /\ Sent(g).game = g /\ Sent(g).written
                   /\ flight[g] \in OpenOf(g) /\ \A id \in OpenOf(g) : flight[g] <= id
  BY DEF Busy, Sent, InTurn, OpenOf, Shapes
<1>3. \A g \in Games : receiver.log[g] \in Seq(Nat) /\ told[g] \in Nat
  BY DEF Shapes, Numbers
<1>4. \A g \in S : ~Sent(g).transient =>
        /\ flight[g] \in Lasting /\ flight[g] \in DOMAIN db
        /\ Sent(g).event \in 1..told[g] /\ Sent(g).event \in Nat
  <2> TAKE g \in S
  <2> HAVE ~Sent(g).transient
  <2> DEFINE x == flight[g]
             q == rows[x]
  <2>1. q = Sent(g) /\ q.game = g /\ q.written /\ ~q.transient /\ x \in Ids /\ RowFits(x) /\ g \in Games
    BY <1>2
  <2>2. x \in Lasting
    BY <2>1 DEF Lasting
  <2>3. x \in DOMAIN db
    BY <2>1, <2>2 DEF InTurn
  <2>4. q.event \in 1..told[g]
    BY <2>1 DEF RowFits
  <2> HIDE DEF x, q
  <2>5. q.event \in Nat
    BY <2>1, <2>4, <1>3
  <2> QED
    BY <2>1, <2>2, <2>3, <2>4, <2>5 DEF x
<1>5. \A g \in S : flight[g] \in Nat /\ flight[g] < nextId
  BY <1>2 DEF RowFits
<1>6. new \subseteq S /\ (\A g \in new : ~Sent(g).transient)
      /\ \A g \in S : ~Sent(g).transient => g \in new \/ flight[g] \in receiver.seen
  OBVIOUS
<1>7. \A id \in seen : id \in receiver.seen \/ \E g \in new : id = flight[g]
  OBVIOUS
<1> HIDE DEF new, seen
<1>8. ASSUME NEW g \in new
      PROVE  /\ log[g] = Append(receiver.log[g], Sent(g).event)
             /\ Range(log[g]) = Range(receiver.log[g]) \cup {Sent(g).event}
  <2>1. log[g] = Append(receiver.log[g], Sent(g).event)
    BY <1>2, <1>6
  <2>2. receiver.log[g] \in Seq(Nat) /\ Sent(g).event \in Nat
    BY <1>2, <1>3, <1>4, <1>6
  <2> DEFINE old == receiver.log[g]
             e == Sent(g).event
  <2>3. old \in Seq(Nat) /\ e \in Nat
    BY <2>2
  <2> HIDE DEF old, e
  <2>4. Range(Append(old, e)) = Range(old) \cup {e}
    BY <2>3, RangeOf
  <2> QED
    BY <2>1, <2>4 DEF old, e
<1>9. \A g \in Games : g \notin new => log[g] = receiver.log[g]
  OBVIOUS
<1> HIDE DEF log
<1>10. \A g \in Games : Range(receiver.log[g]) \subseteq Range(log[g])
  BY <1>8, <1>9
<1>11. Grown
  BY <1>1, <1>10 DEF Grown
<1>12. \A g \in S : ~Sent(g).transient => Sent(g).event \in Range(log[g])
  <2> TAKE g \in S
  <2>1. CASE g \in new
    BY <2>1, <1>8
  <2>2. CASE ~Sent(g).transient /\ flight[g] \in receiver.seen
    <3>1. flight[g] \in Lasting
      BY <2>2, <1>4
    <3>2. Sent(g).event \in Range(receiver.log[g])
      BY <2>2, <3>1, <1>2 DEF Known
    <3> QED
      BY <3>2, <1>2, <1>10
  <2> QED
    BY <2>1, <2>2, <1>6
<1>13. ASSUME NEW id \in seen
       PROVE  /\ id \in receiver.seen \/ id \in DOMAIN db
              /\ id \in Nat /\ id < nextId
              /\ id \in Lasting => rows[id].event \in Range(log[rows[id].game])
  <2>1. CASE id \in receiver.seen
    <3>1. id \in Lasting => rows[id].event \in Range(receiver.log[rows[id].game]) /\ rows[id].game \in Games
      BY <2>1 DEF Known, Lasting, Shapes, RowFits, RowSet
    <3> QED
      BY <2>1, <3>1, <1>10 DEF Known
  <2>2. ASSUME NEW g \in new, id = flight[g]
        PROVE  /\ id \in DOMAIN db /\ id \in Nat /\ id < nextId
               /\ rows[id].event \in Range(log[rows[id].game])
    <3>1. g \in S /\ ~Sent(g).transient
      BY <1>6
    <3>2. id \in DOMAIN db /\ id \in Nat /\ id < nextId
      BY <2>2, <3>1, <1>4, <1>5
    <3>3. rows[id] = Sent(g) /\ rows[id].game = g
      BY <2>2, <3>1, <1>2
    <3> QED
      BY <3>2, <3>3, <1>8
  <2> QED
    BY <2>1, <2>2, <1>7
<1>14. ASSUME NEW g \in Games, NEW i \in DOMAIN log[g], NEW e \in 1..log[g][i]
       PROVE  e \in {log[g][j] : j \in 1..i} \/ <<g, e>> \in closed'
  <2> DEFINE old == receiver.log[g]
  <2>1. old \in Seq(Nat) /\ Range(old) = {old[j] : j \in 1..Len(old)}
    BY <1>3 DEF Range
  <2>2. \A k \in DOMAIN old : \A d \in 1..old[k] :
          d \in {old[j] : j \in 1..k} \/ <<g, d>> \in closed'
    BY DEF Gapless
  <2>3. CASE g \notin new
    BY <2>2, <2>3, <1>9
  <2>4. CASE g \in new
    <3> DEFINE last == Sent(g).event
    <3>1. /\ log[g] = Append(old, last) /\ last \in 1..told[g] /\ last \in Nat
          /\ flight[g] \in Lasting
      BY <2>4, <1>4, <1>6, <1>8
    <3> HIDE DEF old
    <3>2. /\ \A j \in 1..Len(old) : log[g][j] = old[j]
          /\ log[g][Len(old) + 1] = last /\ i \in 1..(Len(old) + 1)
      BY <2>1, <3>1
    <3>3. CASE i \in 1..Len(old)
      <4>1. log[g][i] = old[i] /\ i \in DOMAIN old /\ \A j \in 1..i : log[g][j] = old[j]
        BY <2>1, <3>2, <3>3
      <4>2. e \in {old[j] : j \in 1..i} \/ <<g, e>> \in closed'
        BY <4>1, <2>2
      <4> QED
        BY <4>1, <4>2
    <3>4. CASE i = Len(old) + 1
      <4>1. e \in 1..last /\ (e # last => e < last) /\ e \in 1..told[g]
        BY <3>1, <3>2, <3>4, <1>3
      <4>2. CASE e = last
        BY <4>2, <3>2, <3>4
      <4>3. CASE e \in Range(old)
        <5>1. PICK j \in 1..Len(old) : e = old[j]
          BY <4>3, <2>1
        <5>2. j \in 1..i /\ log[g][j] = e
          BY <5>1, <2>1, <3>2, <3>4
        <5> QED
          BY <5>2
      <4>4. ASSUME NEW id \in Lasting, rows[id].game = g, rows[id].event = e, Open(rows[id]), e # last
            PROVE  FALSE
        <5>1. id \in OpenOf(g) /\ g \in S
          BY <2>4, <4>4, <1>6 DEF OpenOf, Lasting
        <5>2. flight[g] <= id /\ id \in Nat /\ flight[g] \in Nat
          BY <5>1, <1>2 DEF OpenOf, Shapes, RowFits
        <5>3. rows[flight[g]].game = g /\ rows[flight[g]].event = last
          BY <5>1, <1>2
        <5>4. flight[g] < id
          BY <5>2, <5>3, <4>4
        <5>5. last < e
          BY <5>3, <5>4, <4>4, <3>1 DEF InTurn
        <5> QED
          BY <5>5, <4>1, <4>4, <3>1
      <4>5. \/ e \in Range(old) \/ <<g, e>> \in closed
            \/ \E id \in Lasting : rows[id].game = g /\ rows[id].event = e /\ Open(rows[id])
        BY <4>1 DEF Missed, Out, old
      <4> QED
        BY <4>2, <4>3, <4>4, <4>5
    <3> QED
      BY <3>2, <3>3, <3>4
  <2> QED
    BY <2>3, <2>4
<1>15. Gapless'
  BY <1>1, <1>14 DEF Gapless
<1> QED
  BY <1>1, <1>11, <1>12, <1>13, <1>15

\* A new ceiling is above every id given out, whatever becomes of the others.
LEMMA CeilingsClear ==
  ASSUME Outbox, ClaimId, UNCHANGED ceiling
  PROVE  /\ nextId \in Nat /\ nextId' = nextId + 1
         /\ \A id \in Nat : id < nextId /\ Below(id) => Below(id)'
<1>1. nextId \in Nat /\ Block \in Nat
  BY WebhooksAssumption DEF Outbox, Shapes, Numbers
<1>2. nextId' = nextId + 1 /\ ceilingPut' \subseteq ceilingPut \cup {nextId + 1 + Block}
  BY DEF ClaimId
<1>3. \A id \in Nat : id < nextId => id < nextId + 1 + Block
  BY <1>1
<1> QED
  BY <1>1, <1>2, <1>3 DEF Below

LEMMA EnqueueHears ==
  ASSUME Outbox, Outbox', Hearing, NEW g \in Games, Enqueue(g)
  PROVE  Hearing'
<1> DEFINE x == nextId
           e == told[g] + 1
           r == Row(x, g, e, FALSE)
<1>1. \A id \in Ids : RowFits(id)
  BY DEF Outbox, Shapes
<1>2. x \in Nat /\ x \notin Ids /\ told[g] \in Nat
  <2>1. x \in Nat /\ told[g] \in Nat
    BY DEF Outbox, Shapes, Numbers
  <2>2. \A id \in Ids : id < x
    BY <1>1 DEF RowFits
  <2>3. x \notin Ids
    <3> HIDE DEF x
    <3> QED
      BY <2>1, <2>2
  <2> QED
    BY <2>1, <2>3
<1>3. r.id = x /\ r.game = g /\ r.event = e /\ r.state = "open" /\ ~r.transient
  BY DEF Row
<1>4. /\ rows' = With(rows, r) /\ told' = [told EXCEPT ![g] = e] /\ ClaimId
      /\ FlushAsync(Mark(dirty, x), rows')
      /\ UNCHANGED <<flight, db, ceiling, receiver, closed, uncovered, spent>>
  BY DEF Enqueue
<1> HIDE DEF x, e, r
<1>5. Ids' = Ids \cup {x} /\ rows'[x] = r /\ \A id \in Ids : rows'[id] = rows[id]
  <2> DEFINE w == With(rows, r)
  <2>1. DOMAIN w = DOMAIN rows \cup {x} /\ w[x] = r /\ \A id \in DOMAIN rows \ {x} : w[id] = rows[id]
    BY <1>3 DEF With
  <2>2. rows' = w
    BY <1>4
  <2> HIDE DEF w
  <2> QED
    BY <2>1, <2>2, <1>2 DEF Ids
<1>6. /\ Lasting' = Lasting \cup {x} /\ x \notin Lasting /\ Open(rows'[x])
      /\ \A id \in Lasting : id \in Ids /\ rows'[id] = rows[id]
  BY <1>2, <1>3, <1>5 DEF Lasting, Open
<1>7. Known'
  <2>1. nextId' = x + 1 /\ \A id \in Nat : id < x /\ Below(id) => Below(id)'
    BY <1>4, CeilingsClear DEF x
  <2>2. ASSUME NEW id \in receiver'.seen
        PROVE  /\ id \in Nat /\ id < nextId' /\ (id \in DOMAIN db' \/ Below(id)')
               /\ id \in Lasting' => rows'[id].event \in Range(receiver'.log[rows'[id].game])
    <3>1. /\ id \in Nat /\ id < x /\ (id \in DOMAIN db \/ Below(id))
          /\ id \in Lasting => rows[id].event \in Range(receiver.log[rows[id].game])
      BY <1>4 DEF Hearing, Known, x
    <3>2. id # x
      BY <3>1, <1>2
    <3> QED
      BY <3>1, <3>2, <2>1, <1>2, <1>4, <1>6
  <2> QED
    BY <2>1, <2>2 DEF Known
<1>8. Missed'
  <2> SUFFICES ASSUME NEW h \in Games, NEW d \in 1..told'[h]
               PROVE  \/ Out(receiver.log, closed, h, d)
                      \/ \E id \in Lasting' : rows'[id].game = h /\ rows'[id].event = d /\ Open(rows'[id])
    BY <1>4 DEF Missed
  <2>1. CASE d \in 1..told[h]
    BY <2>1, <1>6 DEF Hearing, Missed
  <2>2. CASE d \notin 1..told[h]
    <3>1. h = g /\ d = e
      BY <2>2, <1>2, <1>4 DEF Outbox, Shapes, Numbers, e
    <3> QED
      BY <3>1, <1>3, <1>5, <1>6
  <2> QED
    BY <2>1, <2>2
<1>9. Claims'
  <2>1. \A id \in Lasting' : Claim(rows'[id], receiver.log, closed)
    BY <1>6, OpenClaims DEF Hearing, Claims
  <2>2. ASSUME Writing'
        PROVE  Claim(putting'[1], receiver.log, closed)
    <3>1. CASE Writing
      <4>1. putting' = putting
        BY <3>1, <1>4 DEF FlushAsync
      <4> QED
        BY <3>1, <4>1 DEF Hearing, Claims
    <3>2. CASE ~Writing
      <4> DEFINE n == Head(batch')
      <4>1. putting' = Put(batch', rows') /\ batch' # <<>>
        BY <2>2, <3>2, <1>4 DEF FlushAsync, Writing
      <4>2. putting'[1] = Stored(rows'[n])
        BY <4>1 DEF Put
      <4>3. n \in Lasting'
        BY <2>2 DEF Outbox, Writes, StoredRow
      <4> HIDE DEF n
      <4>4. rows'[n] \in RowSet({n})
        <5>1. \A id \in Ids' : rows'[id] \in RowSet({id})
          BY DEF Outbox, Shapes, RowFits
        <5> QED
          BY <4>3, <5>1 DEF Lasting
      <4> QED
        BY <2>1, <4>2, <4>3, <4>4, StoredClaims
    <3> QED
      BY <3>1, <3>2
  <2>3. \A id \in DOMAIN db' : Claim(db'[id], receiver.log, closed)
    BY <1>4 DEF Hearing, Claims
  <2> QED
    BY <2>1, <2>2, <2>3, <1>4 DEF Claims
<1>10. Gapless'
  BY <1>4 DEF Hearing, Gapless
<1> QED
  BY <1>7, <1>8, <1>9, <1>10 DEF Hearing

\* What changes neither the events nor what is written of them.
LEMMA StillHears ==
  ASSUME Hearing, Lasting' = Lasting, \A id \in Lasting : rows'[id] = rows[id],
         UNCHANGED <<db, writing, receiver, told, closed>>,
         nextId \in Nat, nextId' \in Nat, nextId' >= nextId,
         \A id \in Nat : id < nextId /\ Below(id) => Below(id)'
  PROVE  Hearing'
<1>1. Known'
  <2>1. ASSUME NEW id \in receiver'.seen
        PROVE  /\ id \in Nat /\ id < nextId' /\ (id \in DOMAIN db' \/ Below(id)')
               /\ id \in Lasting' => rows'[id].event \in Range(receiver'.log[rows'[id].game])
    BY DEF Hearing, Known
  <2> QED
    BY <2>1 DEF Known
<1>2. Missed'
  BY DEF Hearing, Missed
<1>3. Claims' /\ Gapless'
  BY DEF Hearing, Claims, Gapless, Writing
<1> QED
  BY <1>1, <1>2, <1>3 DEF Hearing

LEMMA EnqueueBeatHears ==
  ASSUME Outbox, Outbox', Hearing, NEW g \in Games, EnqueueBeat(g)
  PROVE  Hearing'
<1> DEFINE x == nextId
           r == Row(x, g, 0, TRUE)
<1>1. x \notin Ids
  <2>1. x \in Nat
    BY DEF Outbox, Shapes, Numbers
  <2>2. \A id \in Ids : id < x
    BY DEF Outbox, Shapes, RowFits
  <2> HIDE DEF x
  <2> QED
    BY <2>1, <2>2
<1>2. r.id = x /\ r.transient
  BY DEF Row
<1>3. /\ rows' = With(rows, r) /\ ClaimId
      /\ UNCHANGED <<dirty, writing, flight, db, ceiling, outside>>
  BY DEF EnqueueBeat
<1>4. /\ nextId \in Nat /\ nextId' = nextId + 1
      /\ \A id \in Nat : id < nextId /\ Below(id) => Below(id)'
  BY <1>3, CeilingsClear
<1> HIDE DEF x, r
<1>5. Ids' = Ids \cup {x} /\ rows'[x] = r /\ \A id \in Ids : rows'[id] = rows[id]
  <2> DEFINE w == With(rows, r)
  <2>1. DOMAIN w = DOMAIN rows \cup {x} /\ w[x] = r /\ \A id \in DOMAIN rows \ {x} : w[id] = rows[id]
    BY <1>2 DEF With
  <2>2. rows' = w
    BY <1>3
  <2> HIDE DEF w
  <2> QED
    BY <2>1, <2>2, <1>1 DEF Ids
<1>6. Lasting' = Lasting /\ \A id \in Lasting : rows'[id] = rows[id]
  BY <1>1, <1>2, <1>5 DEF Lasting
<1>7. nextId' \in Nat /\ nextId' >= nextId
  BY <1>4
<1> QED
  BY <1>3, <1>4, <1>6, <1>7, StillHears

LEMMA SweepHears ==
  ASSUME Outbox, Hearing, NEW due \in SUBSET Games, Sweep(due)
  PROVE  Hearing'
<1>1. UNCHANGED <<rows, nextId, idCeiling, dirty, writing, disk, outside, spent>>
  BY DEF Sweep
<1>2. Lasting' = Lasting /\ \A id \in Lasting : rows'[id] = rows[id]
  BY <1>1 DEF Lasting, Ids
<1>3. nextId \in Nat /\ nextId' \in Nat /\ nextId' >= nextId
  BY <1>1 DEF Outbox, Shapes, Numbers
<1>4. \A id \in Nat : Below(id) => Below(id)'
  BY <1>1 DEF Below
<1> QED
  BY <1>1, <1>2, <1>3, <1>4, StillHears

LEMMA CeilingHears ==
  ASSUME Outbox, Hearing, NEW c \in ceilingPut, CeilingLands(c) \/ CeilingFails(c)
  PROVE  Hearing'
<1>1. /\ UNCHANGED <<memory, db, outside>> /\ ceilingPut' \subseteq ceilingPut
      /\ ceiling' \in {ceiling} \cup ceilingPut
  BY DEF CeilingLands, CeilingFails
<1>2. Lasting' = Lasting /\ \A id \in Lasting : rows'[id] = rows[id]
  BY <1>1 DEF Lasting, Ids
<1>3. nextId \in Nat /\ nextId' \in Nat /\ nextId' >= nextId
  BY <1>1 DEF Outbox, Shapes, Numbers
<1>4. \A id \in Nat : Below(id) => Below(id)'
  BY <1>1 DEF Below
<1> QED
  BY <1>1, <1>2, <1>3, <1>4, StillHears

\* A row as it is when its turn in a batch comes claims what the row does.
LEMMA PutClaims ==
  ASSUME Outbox, NEW next \in Seq(Lasting), next # <<>>, NEW log, NEW gone,
         \A id \in Lasting : Claim(rows[id], log, gone)
  PROVE  Put(next, rows) = <<Stored(rows[Head(next)])>> /\ Claim(Stored(rows[Head(next)]), log, gone)
<1> DEFINE n == Head(next)
           q == rows[n]
<1>1. n \in Lasting
  OBVIOUS
<1>2. q \in RowSet({n}) /\ Claim(q, log, gone)
  BY <1>1 DEF Outbox, Shapes, RowFits, Lasting
<1>3. Put(next, rows) = <<Stored(q)>>
  BY DEF Put
<1> HIDE DEF n, q
<1>4. Claim(Stored(q), log, gone)
  BY <1>2, StoredClaims
<1> QED
  BY <1>3, <1>4 DEF n, q

LEMMA PutLandsHears ==
  ASSUME Outbox, Hearing, PutLands
  PROVE  Hearing'
<1> DEFINE r == putting[1]
           h == Head(batch)
           next == IF Len(batch) > 1 THEN Tail(batch) ELSE dirty
<1>1. /\ h \in Lasting /\ h \in Ids /\ r.id = h /\ batch \in Seq(Lasting) /\ dirty \in Seq(Lasting)
      /\ batch # <<>> /\ Writing
  BY DEF PutLands, Writing, Outbox, Writes, StoredRow, RowSet, Lasting
<1>2. /\ db' = With(db, r) /\ rows' = [rows EXCEPT ![h] = Stored(rows[h])]
      /\ batch' = next /\ putting' = Put(next, rows)
      /\ UNCHANGED <<nextId, idCeiling, flight, ceiling, ceilingPut, outside, spent>>
  BY <1>1 DEF PutLands, Stored
<1>3. next \in Seq(Lasting)
  BY <1>1
<1> HIDE DEF next, r, h
<1>4. DOMAIN db' = DOMAIN db \cup {h} /\ db'[h] = r /\ \A id \in DOMAIN db \ {h} : db'[id] = db[id]
  BY <1>1, <1>2 DEF With
<1>5. Ids' = Ids /\ rows'[h] = Stored(rows[h]) /\ \A id \in Ids \ {h} : rows'[id] = rows[id]
  BY <1>1, <1>2 DEF Ids
<1>6. rows[h] \in RowSet({h})
  BY <1>1 DEF Outbox, Shapes, RowFits
<1>7. /\ SameRow(rows'[h], rows[h]) /\ rows'[h].transient = rows[h].transient
      /\ rows'[h].state = rows[h].state
  BY <1>5, <1>6, StoredIs
<1>8. /\ Lasting' = Lasting
      /\ \A id \in Lasting : /\ rows'[id].game = rows[id].game /\ rows'[id].event = rows[id].event
                             /\ rows'[id].state = rows[id].state
  BY <1>5, <1>7 DEF Lasting, SameRow
<1>9. Known'
  BY <1>2, <1>4, <1>8 DEF Hearing, Known, Below
<1>10. Missed'
  BY <1>2, <1>8 DEF Hearing, Missed, Open
<1>11. Claims'
  <2>1. \A id \in Lasting' : Claim(rows'[id], receiver.log, closed)
    BY <1>8 DEF Hearing, Claims, Claim, Open
  <2>2. \A id \in DOMAIN db' : Claim(db'[id], receiver.log, closed)
    BY <1>1, <1>4 DEF Hearing, Claims, r
  <2>3. Writing' => Claim(putting'[1], receiver.log, closed)
    <3>1. \A id \in Lasting : Claim(rows[id], receiver.log, closed)
      BY DEF Hearing, Claims
    <3> SUFFICES ASSUME next # <<>> PROVE Claim(putting'[1], receiver.log, closed)
      BY <1>2 DEF Writing
    <3>2. Put(next, rows) = <<Stored(rows[Head(next)])>>
          /\ Claim(Stored(rows[Head(next)]), receiver.log, closed)
      BY <3>1, <1>3, PutClaims
    <3> QED
      BY <3>2, <1>2
  <2> QED
    BY <2>1, <2>2, <2>3, <1>2 DEF Claims
<1>12. Gapless'
  BY <1>2 DEF Hearing, Gapless
<1> QED
  BY <1>9, <1>10, <1>11, <1>12 DEF Hearing

LEMMA PutFailsHears ==
  ASSUME Outbox, Outbox', Hearing, PutFails
  PROVE  Hearing'
<1> DEFINE next == OwedAfterFault
<1>1. /\ batch' = next /\ putting' = Put(next, rows)
      /\ UNCHANGED <<rows, nextId, idCeiling, flight, disk, outside>>
  BY DEF PutFails
<1>2. Lasting' = Lasting
  BY <1>1 DEF Lasting, Ids
<1>3. next \in Seq(Lasting)
  BY <1>1, <1>2 DEF Outbox, Writes
<1> HIDE DEF next
<1>4. Known' /\ Missed' /\ Gapless'
  BY <1>1, <1>2 DEF Hearing, Known, Below, Missed, Gapless
<1>5. Claims'
  <2>1. Writing' => Claim(putting'[1], receiver.log, closed)
    <3>1. \A id \in Lasting : Claim(rows[id], receiver.log, closed)
      BY DEF Hearing, Claims
    <3> SUFFICES ASSUME next # <<>> PROVE Claim(putting'[1], receiver.log, closed)
      BY <1>1 DEF Writing
    <3>2. Put(next, rows) = <<Stored(rows[Head(next)])>>
          /\ Claim(Stored(rows[Head(next)]), receiver.log, closed)
      BY <3>1, <1>3, PutClaims
    <3> QED
      BY <3>2, <1>1
  <2> QED
    BY <2>1, <1>1, <1>2 DEF Hearing, Claims
<1> QED
  BY <1>4, <1>5 DEF Hearing

LEMMA PruneHears ==
  ASSUME Outbox, Hearing, Prune, ~uncovered'
  PROVE  Hearing'
<1> DEFINE gone == {id \in Ids : ~Open(rows[id])}
<1>1. /\ rows' = Restrict(rows, Ids \ gone) /\ db' = Restrict(db, DOMAIN db \ gone)
      /\ ceilingPut = {} /\ \A id \in gone : ~(id >= ceiling)
      /\ UNCHANGED <<nextId, idCeiling, dirty, writing, flight, ceiling, ceilingPut,
                     receiver, told, closed, spent>>
  BY DEF Prune
<1>2. \A id \in Ids : id \in gone <=> ~Open(rows[id])
  OBVIOUS
<1> HIDE DEF gone
<1>3. Ids' = Ids \ gone /\ \A id \in Ids' : rows'[id] = rows[id]
  BY <1>1 DEF Restrict, Ids
<1>4. DOMAIN db' = DOMAIN db \ gone /\ \A id \in DOMAIN db' : db'[id] = db[id]
  BY <1>1 DEF Restrict
<1>5. Lasting' = Lasting \ gone /\ \A id \in Lasting' : id \in Lasting /\ rows'[id] = rows[id]
  BY <1>3 DEF Lasting
<1>6. Known'
  <2>1. ceiling \in Nat
    BY DEF Outbox, Shapes, Numbers
  <2>2. ASSUME NEW id \in receiver'.seen
        PROVE  /\ id \in Nat /\ id < nextId' /\ (id \in DOMAIN db' \/ Below(id)')
               /\ id \in Lasting' => rows'[id].event \in Range(receiver'.log[rows'[id].game])
    <3>1. /\ id \in Nat /\ id < nextId /\ (id \in DOMAIN db \/ Below(id))
          /\ id \in Lasting => rows[id].event \in Range(receiver.log[rows[id].game])
      BY <1>1 DEF Hearing, Known
    <3>2. id \in gone => id < ceiling
      BY <3>1, <2>1, <1>1
    <3>3. id \in gone => Below(id)
      BY <3>2, <1>1 DEF Below
    <3>4. Below(id) => Below(id)'
      BY <1>1 DEF Below
    <3> QED
      BY <3>1, <3>3, <3>4, <1>1, <1>4, <1>5
  <2> QED
    BY <2>2 DEF Known
<1>7. Missed'
  <2>1. receiver' = receiver /\ told' = told /\ closed' = closed
    BY <1>1
  <2> SUFFICES ASSUME NEW g \in Games, NEW e \in 1..told[g]
               PROVE  \/ Out(receiver.log, closed, g, e)
                      \/ \E id \in Lasting' : rows'[id].game = g /\ rows'[id].event = e /\ Open(rows'[id])
    BY <2>1 DEF Missed
  <2>2. ASSUME NEW id \in Lasting, Open(rows[id])
        PROVE  id \in Lasting' /\ rows'[id] = rows[id]
    BY <2>2, <1>2, <1>5 DEF Lasting
  <2> QED
    BY <2>2 DEF Hearing, Missed
<1>8. Claims'
  <2>1. \A id \in Lasting' : Claim(rows'[id], receiver.log, closed)
    BY <1>5 DEF Hearing, Claims
  <2>2. \A id \in DOMAIN db' : Claim(db'[id], receiver.log, closed)
    BY <1>4 DEF Hearing, Claims
  <2>3. Writing' => Claim(putting'[1], receiver.log, closed)
    BY <1>1 DEF Hearing, Claims, Writing
  <2> QED
    BY <2>1, <2>2, <2>3, <1>1 DEF Claims
<1>9. Gapless'
  BY <1>1 DEF Hearing, Gapless
<1> QED
  BY <1>6, <1>7, <1>8, <1>9 DEF Hearing

\* What a request leaves of its row, once the receiver has or has not had it.
LEMMA SettledHears ==
  ASSUME Outbox, Outbox', Hearing, NEW g \in Busy, NEW S \in SUBSET {g}, Received(S),
         NEW row \in RowSet({flight[g]}), Tried(Sent(g), row), Settled(g, row),
         UNCHANGED <<nextId, idCeiling, disk, told, uncovered>>, closed \subseteq closed',
         ~row.transient => Claim(row, receiver'.log, closed')
  PROVE  Hearing'
<1> DEFINE x == flight[g]
           log == receiver'.log
<1>1. S \in SUBSET Busy
  OBVIOUS
<1>2. /\ Gapless' /\ Grown
      /\ \A id \in receiver'.seen :
           /\ id \in receiver.seen \/ id \in DOMAIN db
           /\ id \in Nat /\ id < nextId
           /\ id \in Lasting => rows[id].event \in Range(log[rows[id].game])
  BY <1>1, HeardOnce
<1>3. /\ g \in Games /\ x \in Ids /\ rows[x].game = g /\ row.id = x
      /\ row.game = g /\ row.event = rows[x].event /\ row.transient = rows[x].transient
  BY DEF Outbox, Shapes, Busy, InTurn, OpenOf, RowSet, Tried, Sent, SameRow
<1>4. \A id \in Lasting : rows[id] \in RowSet({id}) /\ rows[id].game \in Games
  BY DEF Outbox, Shapes, RowFits, Lasting, RowSet
<1>5. \A id \in DOMAIN db : db[id].game \in Games
  BY DEF Outbox, Shapes, InTable, StoredRow, RowSet
<1>6. Writing => putting[1].game \in Games
  BY DEF Outbox, Writes, StoredRow, RowSet
<1> HIDE DEF x, log
<1>7. /\ Lasting' = Lasting
      /\ \A id \in Lasting : rows'[id].game = rows[id].game /\ rows'[id].event = rows[id].event
      /\ \A id \in Lasting \ {x} : rows'[id] = rows[id]
      /\ x \in Lasting => rows'[x] = row /\ ~row.transient
  <2>1. CASE row.transient
    <3>1. rows' = Restrict(rows, Ids \ {x})
      BY <1>3, <2>1 DEF Settled
    <3>2. Ids' = Ids \ {x} /\ \A id \in Ids' : rows'[id] = rows[id]
      BY <3>1 DEF Restrict, Ids
    <3> QED
      BY <2>1, <3>2, <1>3 DEF Lasting
  <2>2. CASE ~row.transient
    <3>1. rows' = [rows EXCEPT ![x] = row]
      BY <1>3, <2>2 DEF Settled
    <3>2. Ids' = Ids /\ rows'[x] = row /\ \A id \in Ids \ {x} : rows'[id] = rows[id]
      BY <3>1, <1>3 DEF Ids
    <3> QED
      BY <2>2, <3>2, <1>3 DEF Lasting
  <2> QED
    BY <2>1, <2>2
<1>8. \A id \in Lasting' : Claim(rows'[id], log, closed')
  <2> TAKE id \in Lasting'
  <2>1. CASE id = x
    BY <2>1, <1>7 DEF log
  <2>2. CASE id # x
    <3>1. Claim(rows[id], receiver.log, closed) /\ rows[id].game \in Games /\ rows'[id] = rows[id]
      BY <2>2, <1>4, <1>7 DEF Hearing, Claims
    <3> DEFINE q == rows[id]
    <3>2. Claim(q, receiver.log, closed) /\ q.game \in Games
      BY <3>1
    <3> HIDE DEF q
    <3>3. Claim(q, log, closed')
      BY <3>2, <1>2, ClaimStays DEF Grown, log
    <3> QED
      BY <3>1, <3>3 DEF q
  <2> QED
    BY <2>1, <2>2
<1>9. Claims'
  <2>1. \A id \in DOMAIN db' : Claim(db'[id], log, closed')
    <3> TAKE id \in DOMAIN db'
    <3> DEFINE q == db[id]
    <3>1. Claim(q, receiver.log, closed) /\ q.game \in Games /\ db'[id] = q
      BY <1>5 DEF Hearing, Claims
    <3> HIDE DEF q
    <3>2. Claim(q, log, closed')
      BY <3>1, <1>2, ClaimStays DEF Grown, log
    <3> QED
      BY <3>1, <3>2
  <2>2. ASSUME Writing'
        PROVE  Claim(putting'[1], log, closed')
    <3>1. CASE UNCHANGED putting /\ Writing
      <4> DEFINE q == putting[1]
      <4>1. Claim(q, receiver.log, closed) /\ q.game \in Games
        BY <3>1, <1>6 DEF Hearing, Claims
      <4> HIDE DEF q
      <4>2. Claim(q, log, closed')
        BY <4>1, <1>2, ClaimStays DEF Grown, log
      <4> QED
        BY <3>1, <4>2 DEF q
    <3>2. ASSUME ~(UNCHANGED putting /\ Writing)
          PROVE  putting' = Put(batch', rows') /\ batch' # <<>>
      <4>1. CASE row.transient
        BY <2>2, <3>2, <4>1 DEF Settled, Writing
      <4>2. CASE ~row.transient
        BY <2>2, <3>2, <4>2 DEF Settled, FlushAsync, Writing
      <4> QED
        BY <4>1, <4>2
    <3>3. CASE putting' = Put(batch', rows') /\ batch' # <<>>
      <4> DEFINE n == Head(batch')
                 q == rows'[n]
      <4>1. putting'[1] = Stored(q)
        BY <3>3 DEF Put
      <4>2. n \in Lasting'
        BY <2>2 DEF Outbox, Writes, StoredRow
      <4>3. \A id \in Ids' : rows'[id] \in RowSet({id})
        BY DEF Outbox, Shapes, RowFits
      <4> HIDE DEF n
      <4>4. q \in RowSet({n}) /\ Claim(q, log, closed')
        BY <4>2, <4>3, <1>8 DEF Lasting
      <4> HIDE DEF q
      <4> QED
        BY <4>1, <4>4, StoredClaims
    <3> QED
      BY <3>1, <3>2, <3>3
  <2> QED
    BY <2>1, <2>2, <1>8 DEF Claims, log
<1>10. Missed'
  <2> SUFFICES ASSUME NEW h \in Games, NEW e \in 1..told[h]
               PROVE  \/ Out(log, closed', h, e)
                      \/ \E id \in Lasting' : rows'[id].game = h /\ rows'[id].event = e /\ Open(rows'[id])
    BY DEF Missed, log
  <2>1. CASE Out(receiver.log, closed, h, e)
    BY <2>1, <1>2 DEF Out, Grown, log
  <2>2. ASSUME NEW id \in Lasting, rows[id].game = h, rows[id].event = e
        PROVE  Open(rows'[id]) \/ Out(log, closed', h, e)
    BY <2>2, <1>7, <1>8 DEF Claim
  <2> QED
    BY <2>1, <2>2, <1>7 DEF Hearing, Missed
<1>11. Known'
  <2>1. ASSUME NEW id \in receiver'.seen
        PROVE  /\ id \in Nat /\ id < nextId' /\ (id \in DOMAIN db' \/ Below(id)')
               /\ id \in Lasting' => rows'[id].event \in Range(log[rows'[id].game])
    BY <1>2, <1>7 DEF Hearing, Known, Below
  <2> QED
    BY <2>1 DEF Known, log
<1> QED
  BY <1>2, <1>9, <1>10, <1>11 DEF Hearing

LEMMA DeliveredHears ==
  ASSUME Outbox, Outbox', Hearing, NEW g \in Games, Delivered(g)
  PROVE  Hearing'
<1> DEFINE q == Answered(Sent(g))
<1>1. g \in Busy /\ Received({g}) /\ Settled(g, q)
      /\ UNCHANGED <<nextId, idCeiling, disk, told, closed, uncovered>>
  BY DEF Delivered, Answered
<1>2. /\ Sent(g) \in RowSet({flight[g]}) /\ Sent(g).attempts <= Tries /\ Open(Sent(g))
      /\ Sent(g).game = g
  BY <1>1 DEF Outbox, Shapes, RowFits, InTurn, OpenOf, Sent
<1>3. q \in RowSet({flight[g]}) /\ Tried(Sent(g), q)
  BY <1>2, AnsweredIs
<1>4. q.transient = Sent(g).transient /\ q.event = Sent(g).event /\ q.game = g
  BY <1>2, <1>3 DEF Tried, SameRow
<1>5. closed \subseteq closed' /\ {g} \in SUBSET Busy /\ g \in {g}
  BY <1>1
<1>6. ~Sent(g).transient => Sent(g).event \in Range(receiver'.log[g])
  BY <1>1, <1>5, HeardOnce
<1> HIDE DEF q
<1>7. ~q.transient => Claim(q, receiver'.log, closed')
  BY <1>4, <1>6 DEF Claim, Out
<1> QED
  BY <1>1, <1>3, <1>5, <1>7, SettledHears

LEMMA FailHears ==
  ASSUME Outbox, Outbox', Hearing, NEW g \in Games, Fail(g)
  PROVE  Hearing'
<1> DEFINE q == Failed(Sent(g))
<1>1. PICK S \in SUBSET {g} : Received(S)
  BY DEF Fail
<1>2. /\ g \in Busy /\ Settled(g, q)
      /\ UNCHANGED <<nextId, idCeiling, disk, told, uncovered>>
      /\ closed' = IF q.state = "abandoned" /\ ~q.transient
                   THEN closed \cup {<<g, q.event>>} ELSE closed
  BY DEF Fail
<1>3. /\ Sent(g) \in RowSet({flight[g]}) /\ Sent(g).attempts <= Tries /\ Open(Sent(g))
      /\ Sent(g).game = g
  BY <1>2 DEF Outbox, Shapes, RowFits, InTurn, OpenOf, Sent
<1>4. /\ q \in RowSet({flight[g]}) /\ Tried(Sent(g), q) /\ q.state \in {"open", "abandoned"}
  BY <1>3, FailedIs
<1>5. q.game = g
  BY <1>3, <1>4 DEF Tried, SameRow
<1> HIDE DEF q
<1>6. closed \subseteq closed'
  BY <1>2
<1>7. ~q.transient => Claim(q, receiver'.log, closed')
  BY <1>2, <1>4, <1>5 DEF Claim, Out, Open
<1> QED
  BY <1>1, <1>2, <1>4, <1>6, <1>7, SettledHears

LEMMA CrashHears ==
  ASSUME Outbox, Outbox', Hearing, Crash
  PROVE  Hearing'
<1>1. PICK table, kept : Leaves(table, kept)
  BY DEF Crash, Leaves
<1>2. PICK S \in SUBSET Busy : Received(S)
  BY DEF Crash
<1>3. /\ batch' = <<>> /\ ceilingPut' = {} /\ UNCHANGED <<told, uncovered>>
  BY DEF Crash
<1>4. /\ rows' = table /\ db' = table /\ ceiling' = kept /\ idCeiling' = nextId'
      /\ closed' = closed \cup {<<rows[id].game, rows[id].event>> :
                                  id \in {i \in Ids \ DOMAIN table : ~rows[i].transient}}
  BY <1>1 DEF Leaves
<1>5. /\ \A id \in DOMAIN table : StoredRow(table[id], id)
      /\ kept \in Nat /\ kept \in {ceiling} \cup ceilingPut
      /\ nextId' \in Nat \ {0} /\ nextId' >= kept
      /\ \A id \in DOMAIN table : id < nextId'
      /\ DOMAIN db \subseteq DOMAIN table
      /\ \A id \in DOMAIN table :
           \/ id \in DOMAIN db /\ table[id] = db[id]
           \/ Writing /\ id = Head(batch) /\ table[id] = putting[1]
  BY <1>1, CrashLeaves
<1>6. Lasting' = DOMAIN table
  BY <1>4, <1>5 DEF Lasting, Ids, StoredRow
<1> DEFINE log == receiver'.log
<1>7. closed \subseteq closed'
  BY <1>4
<1>8. /\ Gapless' /\ Grown
      /\ \A id \in receiver'.seen :
           /\ id \in receiver.seen \/ id \in DOMAIN db
           /\ id \in Nat /\ id < nextId
           /\ id \in Lasting => rows[id].event \in Range(log[rows[id].game])
  BY <1>2, <1>7, HeardOnce
<1>9. \A id \in DOMAIN table : /\ id \in Lasting /\ table[id].game = rows[id].game
                               /\ table[id].event = rows[id].event /\ table[id].game \in Games
  BY <1>5 DEF StoredRow, SameRow, RowSet
<1>10. Known'
  <2>1. ASSUME NEW id \in receiver'.seen
        PROVE  /\ id \in Nat /\ id < nextId' /\ (id \in DOMAIN db' \/ Below(id)')
               /\ id \in Lasting' => rows'[id].event \in Range(log[rows'[id].game])
    <3>1. id \in Nat /\ (id \in DOMAIN table \/ Below(id))
      BY <1>5, <1>8 DEF Hearing, Known
    <3>2. Below(id) => id < kept
      BY <1>5 DEF Below
    <3>3. id < kept => Below(id)'
      BY <1>3, <1>4 DEF Below
    <3>4. id < nextId' /\ (id \in DOMAIN db' \/ Below(id)')
      BY <3>1, <3>2, <3>3, <1>4, <1>5
    <3>5. id \in Lasting' => rows'[id].event \in Range(log[rows'[id].game])
      BY <1>4, <1>6, <1>8, <1>9
    <3> QED
      BY <3>1, <3>4, <3>5
  <2> QED
    BY <2>1 DEF Known, log
<1>11. \A id \in DOMAIN table : Claim(table[id], log, closed')
  <2> TAKE id \in DOMAIN table
  <2> DEFINE q == table[id]
  <2>1. Claim(q, receiver.log, closed) /\ q.game \in Games
    BY <1>5, <1>9 DEF Hearing, Claims
  <2> HIDE DEF q
  <2>2. Claim(q, log, closed')
    BY <2>1, <1>7, <1>8, ClaimStays DEF Grown
  <2> QED
    BY <2>2 DEF q
<1>12. Claims'
  BY <1>3, <1>4, <1>6, <1>11 DEF Claims, Writing, log
<1>13. Missed'
  <2> SUFFICES ASSUME NEW g \in Games, NEW e \in 1..told[g]
               PROVE  \/ Out(log, closed', g, e)
                      \/ \E id \in DOMAIN table : table[id].game = g /\ table[id].event = e /\ Open(table[id])
    BY <1>3, <1>4, <1>6 DEF Missed, log
  <2>1. CASE Out(receiver.log, closed, g, e)
    BY <2>1, <1>7, <1>8 DEF Out, Grown
  <2>2. ASSUME NEW id \in Lasting, rows[id].game = g, rows[id].event = e
        PROVE  \/ Out(log, closed', g, e)
               \/ id \in DOMAIN table /\ table[id].game = g /\ table[id].event = e /\ Open(table[id])
    <3>1. CASE id \in DOMAIN table
      BY <2>2, <3>1, <1>9, <1>11 DEF Claim
    <3>2. CASE id \notin DOMAIN table
      <4>1. id \in {i \in Ids \ DOMAIN table : ~rows[i].transient}
        BY <3>2 DEF Lasting
      <4>2. <<g, e>> \in closed'
        BY <4>1, <2>2, <1>4
      <4> QED
        BY <4>2 DEF Out
    <3> QED
      BY <3>1, <3>2
  <2> QED
    BY <2>1, <2>2 DEF Hearing, Missed
<1> QED
  BY <1>8, <1>10, <1>12, <1>13 DEF Hearing

LEMMA HearingBegins == Init => Hearing
<1> SUFFICES ASSUME Init PROVE Hearing
  OBVIOUS
<1>1. Lasting = {} /\ DOMAIN db = {} /\ ~Writing /\ receiver.seen = {}
      /\ receiver.log = [g \in Games |-> <<>>] /\ told = [g \in Games |-> 0]
  BY DEF Init, Lasting, Ids, Writing
<1>2. Known
  BY <1>1 DEF Known
<1>3. Missed /\ Claims /\ Gapless
  BY <1>1 DEF Missed, Claims, Gapless
<1> QED
  BY <1>2, <1>3 DEF Hearing

LEMMA HearingStep ==
  ASSUME Outbox, Outbox', uncovered \/ Hearing, [Next]_vars
  PROVE  uncovered' \/ Hearing'
<1>1. CASE UNCHANGED vars
  <2>1. /\ UNCHANGED <<rows, db, batch, landed, putting, receiver, told, closed, nextId, ceiling,
                       idCeiling, ceilingPut, uncovered>>
    BY <1>1
  <2>2. Lasting' = Lasting
    BY <2>1 DEF Lasting, Ids
  <2>3. nextId \in Nat /\ nextId' \in Nat /\ nextId' >= nextId
    BY <2>1 DEF Outbox, Shapes, Numbers
  <2>4. \A id \in Nat : Below(id) => Below(id)'
    BY <2>1 DEF Below
  <2>5. Hearing => Hearing'
    BY <2>1, <2>2, <2>3, <2>4, StillHears
  <2> QED
    BY <2>1, <2>5
<1>2. CASE Next
  <2>1. uncovered => uncovered'
    BY <1>2 DEF Next, PutLands, PutFails, CeilingLands, CeilingFails, Enqueue, EnqueueBeat, Sweep,
       Delivered, Fail, Prune, Crash
  <2>2. ASSUME Hearing, ~uncovered'
        PROVE  Hearing'
    BY <1>2, <2>2, EnqueueHears, EnqueueBeatHears, SweepHears, CeilingHears, DeliveredHears,
       FailHears, PutLandsHears, PutFailsHears, PruneHears, CrashHears DEF Next
  <2> QED
    BY <2>1, <2>2
<1> QED
  BY <1>1, <1>2

\* What a game tells is heard in the order it happened, with nothing left
\* out but what was given up on or went in a crash, however the requests,
\* the writes, refusals, restarts and the pruning of old rows fall, and a
\* row counted as delivered was accepted: as long as no row was dropped
\* whose id no stored ceiling is above, sweep(), settle() and nextId between
\* them never put a second event on an id.
THEOREM ReceiverHearsInOrder == Spec => []HeardInOrder
<1>1. Init => (uncovered \/ Hearing)
  BY HearingBegins
<1>2. Outbox /\ Outbox' /\ (uncovered \/ Hearing) /\ [Next]_vars => (uncovered' \/ Hearing')
  BY HearingStep
<1>3. uncovered \/ Hearing => HeardInOrder
  <2> SUFFICES ASSUME Hearing PROVE HeardInOrder
    BY DEF HeardInOrder
  <2>1. \A id \in Ids : rows[id].state = "delivered" /\ ~rows[id].transient
                          => rows[id].event \in Accepted(rows[id].game)
    BY DEF Hearing, Claims, Claim, Open, Lasting, Accepted
  <2> QED
    BY <2>1 DEF Hearing, Gapless, HeardInOrder, NoIdTwice
<1> QED
  BY <1>1, <1>2, <1>3, OutboxAlways, PTL DEF Spec

-----------------------------------------------------------------------------
(* The line of requests *)

Limits ==
  /\ nextId <= idCeiling
  /\ closed \subseteq Games \X Nat
  /\ Cardinality(Busy) <= MaxInFlight

\* The games chosen have different heads, and all but the last of them come
\* before it.
LEMMA LineIsKept ==
  ASSUME Outbox, Limits, NEW due \in SUBSET Games, Sweep(due)
  PROVE  Cardinality(Busy') <= MaxInFlight
<1> DEFINE before(g) == {h \in due : HeadOf(h) < HeadOf(g)}
           chosen == {g \in due : Cardinality(Busy) + Cardinality(before(g)) < MaxInFlight}
<1>1. /\ due \subseteq Sendable /\ chosen # {} /\ chosen \subseteq due
      /\ flight' = [g \in Games |-> IF g \in chosen THEN HeadOf(g) ELSE flight[g]]
  BY DEF Sweep
<1>2. \A g \in chosen : Cardinality(Busy) + Cardinality(before(g)) < MaxInFlight
  OBVIOUS
<1>3. \A g, h \in due : HeadOf(h) < HeadOf(g) => h \in before(g)
  OBVIOUS
<1>4. \A g \in due : before(g) \subseteq due
  OBVIOUS
<1> HIDE DEF chosen, before
<1>5. \A id \in Ids : RowFits(id)
  BY DEF Outbox, Shapes
<1>6. ASSUME NEW g \in due
      PROVE  HeadOf(g) \in 0..nextId /\ rows[HeadOf(g)].game = g
  <2>1. g \in Games /\ OpenOf(g) # {}
    BY <1>1 DEF Sendable
  <2>2. OpenOf(g) \in SUBSET Nat /\ OpenOf(g) \subseteq Ids
    BY <1>5 DEF OpenOf, RowFits
  <2>3. HeadOf(g) \in OpenOf(g)
    BY <2>1, <2>2, LeastOf DEF HeadOf
  <2>4. RowFits(HeadOf(g)) /\ rows[HeadOf(g)].game = g /\ nextId \in Nat
    BY <2>2, <2>3, <1>5 DEF OpenOf, Outbox, Shapes, Numbers
  <2> QED
    BY <2>4 DEF RowFits
<1>7. PICK last \in chosen : \A h \in chosen : HeadOf(h) <= HeadOf(last)
  <2> DEFINE heads == {HeadOf(g) : g \in chosen}
  <2>1. heads \in SUBSET (0..nextId) /\ heads # {} /\ nextId \in Nat
    BY <1>1, <1>6 DEF Outbox, Shapes, Numbers
  <2>2. \A h \in chosen : HeadOf(h) \in heads
    OBVIOUS
  <2>3. \A x \in heads : \E g \in chosen : x = HeadOf(g)
    OBVIOUS
  <2> HIDE DEF heads
  <2>4. Max(heads) \in heads /\ \A x \in heads : x <= Max(heads)
    BY <2>1, BoundedMax
  <2> QED
    BY <2>2, <2>3, <2>4
<1>8. \A h \in chosen : h = last \/ HeadOf(h) < HeadOf(last)
  <2> TAKE h \in chosen
  <2>1. HeadOf(h) = HeadOf(last) => h = last
    BY <1>1, <1>6
  <2>2. HeadOf(h) \in 0..nextId /\ HeadOf(last) \in 0..nextId /\ HeadOf(h) <= HeadOf(last)
    BY <1>1, <1>6, <1>7
  <2> QED
    BY <2>1, <2>2 DEF Outbox, Shapes, Numbers
<1> DEFINE b == before(last)
<1>9. chosen \subseteq b \cup {last}
  BY <1>1, <1>3, <1>8
<1>10. Busy' \subseteq (Busy \cup b) \cup {last} /\ Busy \cup b \in SUBSET Games
  BY <1>1, <1>4, <1>9 DEF Busy
<1>11. Cardinality(Busy) + Cardinality(b) < MaxInFlight
  BY <1>2
<1>12. IsFiniteSet(Busy) /\ IsFiniteSet(b) /\ IsFiniteSet(Busy \cup b)
       /\ Busy \in SUBSET Games /\ b \in SUBSET Games
  <2>1. b \in SUBSET Games /\ Busy \in SUBSET Games
    BY <1>1, <1>4 DEF Busy
  <2> HIDE DEF b
  <2> QED
    BY <2>1, <1>10, FS_Subset, WebhooksAssumption
<1> HIDE DEF b
<1>13. Cardinality(Busy \cup b) <= Cardinality(Busy) + Cardinality(b)
  <2>1. Cardinality(Busy \cup b) = Cardinality(Busy) + Cardinality(b) - Cardinality(Busy \cap b)
    BY <1>12, FS_Union
  <2>2. Busy \cap b \in SUBSET Busy
    OBVIOUS
  <2>3. Cardinality(Busy \cap b) \in Nat
    BY <1>12, <2>2, FS_Subset, FS_CardinalityType
  <2>4. Cardinality(Busy) \in Nat /\ Cardinality(b) \in Nat
    BY <1>12, FS_CardinalityType
  <2> QED
    BY <2>1, <2>3, <2>4
<1>14. /\ IsFiniteSet((Busy \cup b) \cup {last})
       /\ Cardinality((Busy \cup b) \cup {last}) <= Cardinality(Busy \cup b) + 1
  <2> DEFINE u == Busy \cup b
  <2>1. IsFiniteSet(u) /\ Cardinality(u) \in Nat
    BY <1>12, FS_CardinalityType
  <2> HIDE DEF u
  <2>2. /\ IsFiniteSet(u \cup {last})
        /\ Cardinality(u \cup {last}) = IF last \in u THEN Cardinality(u) ELSE Cardinality(u) + 1
    BY <2>1, FS_AddElement
  <2>3. Cardinality(u \cup {last}) <= Cardinality(u) + 1
    BY <2>1, <2>2
  <2> QED
    BY <2>2, <2>3 DEF u
<1>15. Cardinality(Busy') <= Cardinality((Busy \cup b) \cup {last})
       /\ Cardinality(Busy') \in Nat
  BY <1>10, <1>14, FS_Subset, FS_CardinalityType
<1>16. /\ Cardinality(Busy) \in Nat /\ Cardinality(b) \in Nat /\ Cardinality(Busy \cup b) \in Nat
       /\ Cardinality((Busy \cup b) \cup {last}) \in Nat /\ MaxInFlight \in Nat
  BY <1>12, <1>14, FS_CardinalityType, WebhooksAssumption
<1> QED
  BY <1>11, <1>13, <1>14, <1>15, <1>16

\* A request that ends leaves its place in the line.
LEMMA LineShortens ==
  ASSUME Limits, Busy' \subseteq Busy
  PROVE  Cardinality(Busy') <= MaxInFlight
<1>1. Busy \in SUBSET Games /\ Busy' \in SUBSET Busy
  BY DEF Busy
<1>2. IsFiniteSet(Busy)
  BY <1>1, FS_Subset, WebhooksAssumption
<1>3. Cardinality(Busy') <= Cardinality(Busy) /\ IsFiniteSet(Busy')
  BY <1>1, <1>2, FS_Subset
<1>4. Cardinality(Busy) \in Nat /\ Cardinality(Busy') \in Nat /\ MaxInFlight \in Nat
  BY <1>2, <1>3, FS_CardinalityType, WebhooksAssumption
<1> QED
  BY <1>3, <1>4 DEF Limits

LEMMA LimitsStep ==
  ASSUME Outbox, Outbox', Limits, [Next]_vars
  PROVE  Limits'
<1>1. /\ nextId \in Nat /\ idCeiling \in Nat /\ Block \in Nat
  BY WebhooksAssumption DEF Outbox, Shapes, Numbers
<1>2. \A id \in Ids : rows[id].game \in Games /\ rows[id].event \in Nat
  BY DEF Outbox, Shapes, RowFits, RowSet
<1>3. CASE \E due \in SUBSET Games : Sweep(due)
  BY <1>3, LineIsKept DEF Sweep, Limits
<1>4. CASE \E g \in Games : Enqueue(g) \/ EnqueueBeat(g)
  <2>1. nextId' <= idCeiling'
    <3>1. ClaimId
      BY <1>4 DEF Enqueue, EnqueueBeat
    <3>2. \/ nextId' = nextId + 1 /\ idCeiling' = nextId + 1 + Block
          \/ nextId' = nextId + 1 /\ idCeiling' = idCeiling /\ ~(nextId + 1 > idCeiling)
      BY <3>1 DEF ClaimId
    <3> QED
      BY <1>1, <3>2
  <2>2. UNCHANGED <<flight, closed>>
    BY <1>4 DEF Enqueue, EnqueueBeat
  <2>3. Busy' \subseteq Busy
    BY <2>2 DEF Busy
  <2> QED
    BY <2>1, <2>2, <2>3, LineShortens DEF Limits
<1>5. CASE \E g \in Games : Delivered(g) \/ Fail(g)
  <2>1. PICK g \in Games : Delivered(g) \/ Fail(g)
    BY <1>5
  <2>2. flight' = [flight EXCEPT ![g] = 0] /\ UNCHANGED <<nextId, idCeiling>> /\ g \in Busy
    BY <2>1 DEF Delivered, Fail, Settled
  <2>3. Busy' \subseteq Busy
    BY <2>2 DEF Busy, Outbox, Shapes, Numbers
  <2>4. closed' \subseteq Games \X Nat
    <3>1. CASE Delivered(g)
      BY <3>1 DEF Delivered, Limits
    <3>2. CASE Fail(g)
      <4>1. /\ Sent(g) \in RowSet({flight[g]}) /\ Sent(g).attempts <= Tries /\ Open(Sent(g))
        BY <2>2 DEF Outbox, Shapes, RowFits, InTurn, OpenOf, Sent
      <4>2. Failed(Sent(g)).event \in Nat
        BY <4>1, FailedIs DEF RowSet
      <4> QED
        BY <3>2, <4>2 DEF Fail, Limits
    <3> QED
      BY <2>1, <3>1, <3>2
  <2> QED
    BY <2>2, <2>3, <2>4, LineShortens DEF Limits
<1>6. CASE Crash
  <2>1. nextId' = idCeiling' /\ flight' = [g \in Games |-> 0]
    BY <1>6 DEF Crash
  <2>2. Busy' \subseteq Busy
    BY <2>1 DEF Busy
  <2>3. nextId' <= idCeiling'
    BY <2>1 DEF Outbox, Shapes, Numbers
  <2>4. closed' \subseteq Games \X Nat
    BY <1>2, <1>6 DEF Crash, Limits
  <2> QED
    BY <2>2, <2>3, <2>4, LineShortens DEF Limits
<1>7. CASE \/ PutLands \/ PutFails \/ Prune \/ UNCHANGED vars
           \/ \E c \in ceilingPut : CeilingLands(c) \/ CeilingFails(c)
  <2>1. UNCHANGED <<nextId, idCeiling, flight, closed>>
    BY <1>7 DEF PutLands, PutFails, CeilingLands, CeilingFails, Prune
  <2>2. Busy' \subseteq Busy
    BY <2>1 DEF Busy
  <2> QED
    BY <2>1, <2>2, LineShortens DEF Limits
<1> QED
  BY <1>3, <1>4, <1>5, <1>6, <1>7 DEF Next

\* The outbox has its type; with it, sweep() never has more than MaxInFlight
\* requests under way, whatever walks of the rows it makes and however they
\* end, and no request, write or mark is about a row that is gone.
THEOREM OutboxKeepsItsType == Spec => []TypeOK
<1>1. Init => Limits
  <2> SUFFICES ASSUME Init PROVE Limits
    OBVIOUS
  <2>1. Busy = {} /\ Cardinality({}) = 0 /\ MaxInFlight \in Nat
    BY FS_EmptySet, WebhooksAssumption DEF Init, Busy
  <2> QED
    BY <2>1 DEF Init, Limits
<1>2. Outbox /\ Outbox' /\ Limits /\ [Next]_vars => Limits'
  BY LimitsStep
<1>3. Outbox /\ Limits => TypeOK
  <2> SUFFICES ASSUME Outbox, Limits PROVE TypeOK
    OBVIOUS
  <2>1. \A id \in Ids : rows[id] \in RowSet({id}) /\ id < nextId
    BY DEF Outbox, Shapes, RowFits
  <2>2. \A id \in DOMAIN db : db[id] \in RowSet({id}) /\ id \in Ids
    BY DEF Outbox, Shapes, InTable, StoredRow, Lasting
  <2>3. {nextId, idCeiling, ceiling} \cup ceilingPut \subseteq Nat /\ nextId <= idCeiling
    BY DEF Outbox, Shapes, Numbers, Limits
  <2>4. Range(dirty) \cup Range(batch) \subseteq Ids /\ Range(landed) \subseteq Ids
    BY RangeOf DEF Outbox, Writes, Lasting
  <2>5. (Writing => Len(putting) = 1 /\ putting[1].id = Head(batch)) /\ (~Writing => landed = <<>>)
    <3>1. ASSUME Writing PROVE Len(putting) = 1 /\ putting[1].id = Head(batch)
      <4> DEFINE q == putting[1]
      <4>1. putting = <<q>> /\ q.id = Head(batch)
        BY <3>1 DEF Outbox, Writes, StoredRow, RowSet
      <4> HIDE DEF q
      <4> QED
        BY <4>1
    <3> QED
      BY <3>1 DEF Outbox, Writes
  <2>6. \A g \in Busy : flight[g] \in OpenOf(g)
    BY DEF Outbox, InTurn
  <2>7. told \in [Games -> Nat] /\ closed \subseteq Games \X Nat
        /\ Cardinality(Busy) <= MaxInFlight
    BY DEF Outbox, Shapes, Numbers, Limits
  <2> QED
    BY <2>1, <2>2, <2>3, <2>4, <2>5, <2>6, <2>7 DEF TypeOK
<1> QED
  BY <1>1, <1>2, <1>3, OutboxAlways, PTL DEF Spec
=============================================================================
