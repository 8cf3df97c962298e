----------------------------- MODULE FieldProofs ----------------------------
(***************************************************************************)
(* What the runs check of the field on small instances, for any number of  *)
(* people and tables, any stacks and any schedule: the types; that a       *)
(* running hand keeps its players and its seats, and no chip is lost or    *)
(* made; that however seats change no table is over its size and nobody is *)
(* left at a broken one; that the ledger and the seats together are the    *)
(* field; that a handler leaves the tables level; that one table keeps the *)
(* standings; and, for any number of restarts, what a restart costs.       *)
(*                                                                         *)
(* HandIsWhole is not inductive alone.  A seat is carried off a table that *)
(* the handler in progress has found idle several steps before, a stack is *)
(* handed to somebody who must not hold one already, and the start deals   *)
(* with seats that must be empty: HandInv says so.                         *)
(*                                                                         *)
(* The store is written while hands are played and while handlers wait, so *)
(* what FileIsWhole asks of a field in the store is not to be had from the *)
(* write alone: every table that deals must have been on record, as it was *)
(* before its hand, since the hand began (Records), no move may fall       *)
(* between a record and a deal (MovesWait), and what is in the store must  *)
(* be a field that could be on the felt (OnFile), or the next restart      *)
(* would not bring one back.                                               *)
(*                                                                         *)
(* What is said of the field alone, up to the part on a field that is      *)
(* held, is said of Field's own Spec.                                      *)
(***************************************************************************)
EXTENDS Restart, SequenceTheorems, ChipsProofs

USE DEF vars, people, seats, hand, ledger, queue, clock, Person, Table, Nowhere, Nobody

-----------------------------------------------------------------------------
(* Types, one lemma per action; a step that computes a value has its type  *)
(* shown first.                                                            *)

Line == [uid : Person, place : Int]

AgendaOK ==
  /\ doing \in Steps /\ onTable \in Table \union {Nowhere} /\ todo \subseteq Person
  /\ over \in BOOLEAN /\ ticking \in BOOLEAN
  /\ doing \in {"queued", "emptying"} => onTable \in Table

\* A line of the ledger, and the ledgers made of them.
LEMMA LineType ==
  ASSUME NEW p \in Person, NEW n \in Int
  PROVE  Out(p, n) \in Line
BY DEF Out, Line

LEMMA RenumberType ==
  ASSUME NEW s \in Seq(Line), NEW n \in Int
  PROVE  Renumber(s, n) \in Seq(Line)
<1>1. Len(s) \in Nat /\ \A i \in 1..Len(s) : s[i] \in Line
  BY LenProperties, ElementOfSeq
<1>2. \A i \in 1..Len(s) : s[i].uid \in Person /\ n - i + 1 \in Int
  BY <1>1 DEF Line
<1>3. \A i \in 1..Len(s) : Out(s[i].uid, n - i + 1) \in Line
  BY <1>2, LineType
<1> QED
  BY <1>1, <1>3, IsASeq DEF Renumber

LEMMA StruckType ==
  ASSUME NEW s \in Seq(Line), NEW i \in 1..Len(s)
  PROVE  Struck(s, i) \in Seq(Line)
<1>1. Len(s) \in Nat /\ \A k \in 1..Len(s) : s[k] \in Line
  BY LenProperties, ElementOfSeq
<1>2. Len(s) - 1 \in Nat
  BY <1>1
<1>3. \A k \in 1..(Len(s) - 1) : (IF k < i THEN s[k] ELSE s[k + 1]) \in Line
  BY <1>1
<1> QED
  BY <1>2, <1>3, IsASeq DEF Struck

LEMMA FiniteGroup ==
  ASSUME NEW S \in SUBSET Person
  PROVE  IsFiniteSet(S) /\ Cardinality(S) \in Nat
<1>1. IsFiniteSet(Person)
  BY SizesAssumption, FS_Interval
<1> QED
  BY <1>1, FS_Subset, FS_CardinalityType

\* Where TypeOK says what the steps below read.
LEMMA TypeFacts ==
  ASSUME TypeOK
  PROVE  /\ outs \in Seq(Line) /\ Len(outs) \in Nat /\ fieldSize \in Nat
         /\ NextPlace \in Int /\ Made \subseteq Table
         /\ \A p \in Person : stack[p] \in Nat /\ bet[p] \in Nat /\ at[p] \in Table \union {0}
         /\ \A t \in Table : Seats(t) \subseteq Person /\ InHand(t) \subseteq Person
<1>1. outs \in Seq(Line)
  BY DEF TypeOK, Line
<1>2. Len(outs) \in Nat
  BY <1>1, LenProperties
<1>3. fieldSize \in Nat /\ NextPlace \in Int
  BY <1>2 DEF TypeOK, NextPlace
<1>4. Made \subseteq Table
  BY SizesAssumption DEF TypeOK, Made
<1>5. /\ \A p \in Person : stack[p] \in Nat /\ bet[p] \in Nat /\ at[p] \in Table \union {0}
      /\ \A t \in Table : Seats(t) \subseteq Person /\ InHand(t) \subseteq Person
  BY DEF TypeOK, Seats, InHand
<1> QED
  BY <1>1, <1>2, <1>3, <1>4, <1>5

LEMMA TakeOutTypes ==
  ASSUME TypeOK, NEW p \in Person, TakeOutOfPlay(p)
  PROVE  /\ expected' \in Int /\ outs' \in Seq(Line)
         /\ stack' \in [Person -> Nat] /\ at' \in [Person -> Table \union {0}]
<1>1. expected' \in Int /\ stack' \in [Person -> Nat] /\ at' \in [Person -> Table \union {0}]
  <2>1. expected' \in Int
    BY TypeFacts DEF TypeOK, TakeOutOfPlay
  <2>2. stack' \in [Person -> Nat] /\ at' \in [Person -> Table \union {0}]
    BY DEF TypeOK, TakeOutOfPlay
  <2> QED
    BY <2>1, <2>2
<1>2. outs' \in Seq(Line)
  BY TypeFacts, LineType, AppendProperties DEF TakeOutOfPlay, Record
<1> QED
  BY <1>1, <1>2

LEMMA TakeSeatTypes ==
  ASSUME TypeOK, NEW p \in Person, TakeSeat(p)
  PROVE  /\ at' \in [Person -> Table \union {0}] /\ opened' \in 0..MaxTables
         /\ broken' \subseteq Table /\ breakOrder' \in Seq(Table)
         /\ stack' \in [Person -> Nat] /\ expected' \in Int
<1>1. stack' \in [Person -> Nat] /\ expected' \in Int /\ broken' \subseteq Table
  BY SizesAssumption, SMTT(30) DEF TypeOK, TakeSeat
<1>2. CASE /\ \E t \in Table : IsFewest(t, Seatable) /\ at' = [at EXCEPT ![p] = t]
           /\ UNCHANGED <<opened, breakOrder>>
  BY <1>1, <1>2 DEF TypeOK
<1>3. CASE /\ opened < MaxTables
           /\ opened' = opened + 1
           /\ breakOrder' = <<opened + 1>> \o breakOrder
           /\ at' = [at EXCEPT ![p] = opened + 1]
  <2>1. opened + 1 \in Table /\ opened + 1 \in 0..MaxTables
    BY <1>3, SizesAssumption DEF TypeOK
  <2>2. <<opened + 1>> \in Seq(Table)
    BY <2>1
  <2>3. breakOrder' \in Seq(Table)
    BY <1>3, <2>2, ConcatProperties DEF TypeOK
  <2> QED
    BY <1>1, <1>3, <2>1, <2>3 DEF TypeOK
<1> QED
  BY <1>2, <1>3 DEF TakeSeat

LEMMA TypeRegister ==
  ASSUME TypeOK, NEW p \in Person, Register(p)
  PROVE  TypeOK'
BY SMTT(30) DEF TypeOK, Register, Steps, Agenda, GoTo, WorkOn, SettleField, EndHandler, agenda

LEMMA TypeUnregister ==
  ASSUME TypeOK, NEW p \in Person, Unregister(p)
  PROVE  TypeOK'
BY SMTT(30) DEF TypeOK, Unregister, Steps, Agenda, GoTo, WorkOn, SettleField, EndHandler, agenda

LEMMA TypeRegisterLate ==
  ASSUME TypeOK, NEW p \in Person, RegisterLate(p)
  PROVE  TypeOK'
<1>1. /\ at' \in [Person -> Table \union {0}] /\ opened' \in 0..MaxTables
      /\ broken' \subseteq Table /\ breakOrder' \in Seq(Table)
      /\ stack' \in [Person -> Nat] /\ expected' \in Int
  BY TakeSeatTypes DEF RegisterLate
<1>2. entrants' \subseteq Person
  BY DEF TypeOK, RegisterLate
<1>3. fieldSize' \in Nat
  BY <1>2, FiniteGroup DEF RegisterLate
<1>4. outs' \in Seq(Line)
  BY <1>3, TypeFacts, RenumberType DEF RegisterLate
<1> QED
  BY <1>1, <1>2, <1>3, <1>4 DEF TypeOK, RegisterLate, Row, Line, agenda

LEMMA TypeReenter ==
  ASSUME TypeOK, NEW p \in Person, Reenter(p)
  PROVE  TypeOK'
<1>1. /\ at' \in [Person -> Table \union {0}] /\ opened' \in 0..MaxTables
      /\ broken' \subseteq Table /\ breakOrder' \in Seq(Table)
      /\ stack' \in [Person -> Nat] /\ expected' \in Int
  BY TakeSeatTypes DEF Reenter
<1>2. outs' \in Seq(Line)
  <2>1. PICK i \in 1..Len(outs) : outs' = Renumber(Struck(outs, i), fieldSize)
    BY DEF Reenter
  <2>2. Struck(outs, i) \in Seq(Line)
    BY TypeFacts, StruckType
  <2> QED
    BY <2>1, <2>2, TypeFacts, RenumberType
<1>3. extra' \in Nat
  BY DEF TypeOK, Reenter
<1> QED
  BY <1>1, <1>2, <1>3 DEF TypeOK, Reenter, Row, Line, agenda

LEMMA TypeTakeAddOn ==
  ASSUME TypeOK, NEW p \in Person, TakeAddOn(p)
  PROVE  TypeOK'
<1>1. /\ stack' \in [Person -> Nat] /\ expected' \in Int /\ extra' \in Nat
      /\ wantAddOn' \subseteq Person /\ addOns' \subseteq Person
  <2>1. stack[p] + StartChips \in Nat
    BY TypeFacts, SizesAssumption
  <2>2. stack' \in [Person -> Nat]
    BY <2>1 DEF TypeOK, TakeAddOn
  <2>3. expected' \in Int /\ extra' \in Nat
    <3>1. /\ expected \in Int /\ extra \in Nat /\ StartChips \in Nat
          /\ extra' = extra + 1 \/ extra' = extra
          /\ expected' = expected + StartChips \/ expected' = expected
      BY SizesAssumption DEF TypeOK, TakeAddOn
    <3> QED
      BY <3>1
  <2>4. wantAddOn' \subseteq Person /\ addOns' \subseteq Person
    BY DEF TypeOK, TakeAddOn
  <2> QED
    BY <2>2, <2>3, <2>4
<1>2. AgendaOK'
  BY DEF AgendaOK, TypeOK, TakeAddOn, SettleField, Agenda, agenda, Steps
<1> QED
  BY <1>1, <1>2 DEF TypeOK, AgendaOK, TakeAddOn, Row

LEMMA TypeRemoveFromPlay ==
  ASSUME TypeOK, NEW p \in Person, RemoveFromPlay(p)
  PROVE  TypeOK'
<1>1. /\ expected' \in Int /\ outs' \in Seq(Line)
      /\ stack' \in [Person -> Nat] /\ at' \in [Person -> Table \union {0}]
  BY TakeOutTypes, TypeFacts DEF RemoveFromPlay, TypeOK
<1>2. barred' \subseteq Person /\ removals' \subseteq Person
  BY DEF TypeOK, RemoveFromPlay
<1>3. AgendaOK'
  BY DEF AgendaOK, TypeOK, RemoveFromPlay, SettleField, Agenda, agenda, Steps
<1> QED
  BY <1>1, <1>2, <1>3 DEF TypeOK, AgendaOK, RemoveFromPlay, Row, Line

LEMMA TypeReconnect ==
  ASSUME TypeOK, NEW p \in Person, Reconnect(p)
  PROVE  TypeOK'
BY SMTT(30) DEF TypeOK, Reconnect, Steps, Agenda, GoTo, WorkOn, SettleField, EndHandler, agenda

LEMMA TypeApplyRemoval ==
  ASSUME TypeOK, NEW p \in Person, ApplyRemoval(p)
  PROVE  TypeOK'
<1>1. /\ expected' \in Int /\ outs' \in Seq(Line)
      /\ stack' \in [Person -> Nat] /\ at' \in [Person -> Table \union {0}]
  BY TakeOutTypes DEF ApplyRemoval
<1>2. removals' \subseteq Person
  BY DEF TypeOK, ApplyRemoval
<1> QED
  BY <1>1, <1>2 DEF TypeOK, ApplyRemoval, Row, Line, agenda

LEMMA TypeApplyAddOn ==
  ASSUME TypeOK, NEW p \in Person, ApplyAddOn(p)
  PROVE  TypeOK'
<1>1. /\ stack' \in [Person -> Nat] /\ expected' \in Int /\ extra' \in Nat
      /\ wantAddOn' \subseteq Person /\ addOns' \subseteq Person
  <2>1. stack[p] + StartChips \in Nat
    BY TypeFacts, SizesAssumption
  <2>2. stack' \in [Person -> Nat]
    BY <2>1 DEF TypeOK, ApplyAddOn
  <2>3. expected' \in Int /\ extra' \in Nat
    BY SizesAssumption DEF TypeOK, ApplyAddOn
  <2>4. wantAddOn' \subseteq Person /\ addOns' \subseteq Person
    BY DEF TypeOK, ApplyAddOn
  <2> QED
    BY <2>2, <2>3, <2>4
<1> QED
  BY <1>1 DEF TypeOK, ApplyAddOn, Row, agenda

LEMMA TypeApplyMove ==
  ASSUME TypeOK, NEW p \in Person, ApplyMove(p)
  PROVE  TypeOK'
<1>1. at' \in [Person -> Table \union {0}] /\ moves' \in [Person -> Table \union {0}]
  BY DEF TypeOK, ApplyMove
<1> QED
  BY <1>1 DEF TypeOK, ApplyMove, WorkOn, Agenda, Doing, Row

LEMMA TypeCarryOff ==
  ASSUME TypeOK, NEW p \in Person, CarryOff(p)
  PROVE  TypeOK'
<1>1. at' \in [Person -> Table \union {0}]
  BY DEF TypeOK, CarryOff
<1>2. todo' \subseteq Person
  BY DEF TypeOK, CarryOff, WorkOn, Agenda
<1> QED
  BY <1>1, <1>2 DEF TypeOK, CarryOff, WorkOn, Agenda, Row

LEMMA TypeStart ==
  ASSUME TypeOK, Start
  PROVE  TypeOK'
<1> DEFINE n == Cardinality(entrants)
           m == TablesFor(n)
<1>1. n \in Nat /\ n >= 2
  BY FiniteGroup DEF TypeOK, Start
<1>2. m \in Nat /\ m <= MaxTables
  <2>1. n + TableSize - 1 \in Nat
    BY <1>1, SizesAssumption
  <2>2. (n + TableSize - 1) \div TableSize \in Nat
    BY <2>1, SizesAssumption
  <2> QED
    BY <2>2 DEF Start, TablesFor
<1> HIDE DEF m
<1>3. /\ at' \in [Person -> Table \union {0}] /\ stack' \in [Person -> Nat]
      /\ opened' \in 0..MaxTables
  <2>1. PICK d \in [entrants -> 1..m] :
          at' = [p \in Person |-> IF p \in entrants THEN d[p] ELSE Nowhere]
    BY DEF Start, Draws, m
  <2>2. 1..m \subseteq Table
    BY <1>2, SizesAssumption
  <2>3. at' \in [Person -> Table \union {0}]
    BY <2>1, <2>2
  <2>4. stack' \in [Person -> Nat] /\ opened' = m
    BY SizesAssumption DEF Start, m
  <2> QED
    BY <1>2, <2>3, <2>4, SizesAssumption
<1>4. breakOrder' \in Seq(Table)
  <2>1. breakOrder' = [i \in 1..m |-> m - i + 1]
    BY DEF Start, m
  <2>2. \A i \in 1..m : m - i + 1 \in Table
    BY <1>2, SizesAssumption
  <2> QED
    BY <1>2, <2>1, <2>2, IsASeq
<1>5. expected' \in Int /\ fieldSize' \in Nat /\ outs' \in Seq(Line)
  BY <1>1, SizesAssumption DEF Start
<1>6. row' \in Row
  BY ScheduleAssumption, LenProperties DEF Start, Row
<1> QED
  BY <1>3, <1>4, <1>5, <1>6 DEF TypeOK, Start, Line, agenda

LEMMA TypeLevelUp ==
  ASSUME TypeOK, LevelUp
  PROVE  TypeOK'
<1>1. Len(Schedule) \in Nat
  BY ScheduleAssumption, LenProperties
<1>2. row' \in Row
  BY <1>1 DEF TypeOK, LevelUp, Row
<1> QED
  BY <1>2 DEF TypeOK, LevelUp, Row, agenda

LEMMA TypeHold ==
  ASSUME TypeOK, Hold
  PROVE  TypeOK'
BY DEF TypeOK, Hold, Steps, Agenda, GoTo, WorkOn, SettleField, EndHandler, agenda

LEMMA TypeQueuedDone ==
  ASSUME TypeOK, QueuedDone
  PROVE  TypeOK'
BY DEF TypeOK, QueuedDone, Queued, Doing, Steps, Agenda, GoTo, WorkOn, SettleField,
       EndHandler, agenda

LEMMA TypeFinish ==
  ASSUME TypeOK, Finish
  PROVE  TypeOK'
<1>1. PICK w \in Person \union {Nobody} :
        /\ winner' = w
        /\ outs' = IF over \/ w = Nobody THEN outs ELSE Append(outs, Out(w, 1))
  BY DEF Finish
<1>2. outs' \in Seq(Line)
  <2>1. CASE over \/ w = Nobody
    BY <1>1, <2>1, TypeFacts
  <2>2. CASE ~(over \/ w = Nobody)
    <3>1. Out(w, 1) \in Line
      BY <2>2, LineType
    <3> QED
      BY <1>1, <2>2, <3>1, TypeFacts, AppendProperties
  <2> QED
    BY <2>1, <2>2
<1>3. winner' \in Person \union {Nobody}
  BY <1>1
<1> QED
  BY <1>2, <1>3 DEF TypeOK, Finish, EndHandler, Agenda, Steps, Row, Line

LEMMA TypePlayOn ==
  ASSUME TypeOK, PlayOn
  PROVE  TypeOK'
BY DEF TypeOK, PlayOn, Doing, Movers, Steps, Agenda, GoTo, WorkOn, SettleField, EndHandler, agenda

LEMMA TypeMovesDone ==
  ASSUME TypeOK, MovesDone
  PROVE  TypeOK'
BY DEF TypeOK, MovesDone, Doing, GoTo, Steps, Agenda, GoTo, WorkOn, SettleField, EndHandler,
       agenda

LEMMA TypeNoBreak ==
  ASSUME TypeOK, NoBreak
  PROVE  TypeOK'
BY DEF TypeOK, NoBreak, Doing, GoTo, Steps, Agenda, GoTo, WorkOn, SettleField, EndHandler, agenda

LEMMA TypeEmptied ==
  ASSUME TypeOK, Emptied
  PROVE  TypeOK'
<1>1. broken' \subseteq Table
  <2>1. onTable \in Table
    BY DEF TypeOK, Emptied, Doing
  <2> QED
    BY <2>1 DEF TypeOK, Emptied
<1> QED
  BY <1>1 DEF TypeOK, Emptied, GoTo, Agenda, Steps, Row

LEMMA TypeBalanced ==
  ASSUME TypeOK, Balanced
  PROVE  TypeOK'
BY DEF TypeOK, Balanced, Doing, GoTo, Steps, Agenda, GoTo, WorkOn, SettleField, EndHandler, agenda

LEMMA TypeCollapsed ==
  ASSUME TypeOK, Collapsed
  PROVE  TypeOK'
BY DEF TypeOK, Collapsed, Doing, GoTo, Steps, Agenda, GoTo, WorkOn, SettleField, EndHandler,
       agenda

LEMMA TypeSweep ==
  ASSUME TypeOK, Sweep
  PROVE  TypeOK'
<1>1. broken' \subseteq Table
  BY TypeFacts DEF TypeOK, Sweep
<1>2. AgendaOK'
  BY DEF AgendaOK, TypeOK, Sweep, GoTo, EndHandler, Agenda, Steps
<1> QED
  BY <1>1, <1>2 DEF TypeOK, AgendaOK, Sweep, Row

LEMMA TypeTickMovesDone ==
  ASSUME TypeOK, TickMovesDone
  PROVE  TypeOK'
BY DEF TypeOK, TickMovesDone, Doing, GoTo, ReadyOnTick, Steps, Agenda, GoTo, WorkOn,
       SettleField, EndHandler, agenda

LEMMA TypeDealtAll ==
  ASSUME TypeOK, DealtAll
  PROVE  TypeOK'
BY DEF TypeOK, DealtAll, Doing, Steps, Agenda, GoTo, WorkOn, SettleField, EndHandler, agenda

LEMMA TypeTick ==
  ASSUME TypeOK, Tick
  PROVE  TypeOK'
BY DEF TypeOK, Tick, Movers, ReadyOnTick, Running, Steps, Agenda, GoTo, WorkOn, SettleField,
       EndHandler, agenda

LEMMA TypeBeginBreak ==
  ASSUME TypeOK, NEW t \in Table, BeginBreak(t)
  PROVE  TypeOK'
BY DEF TypeOK, BeginBreak, Doing, Seats, Steps, Agenda, GoTo, WorkOn, SettleField, EndHandler,
       agenda

LEMMA TypeCollapse ==
  ASSUME TypeOK, NEW t \in Table, Collapse(t)
  PROVE  TypeOK'
<1>1. at' \in [Person -> Table \union {0}] /\ broken' \subseteq Table
  BY DEF TypeOK, Collapse
<1>2. todo' \subseteq Person /\ onTable' \in Table \union {0}
  BY DEF TypeOK, Collapse, WorkOn, Agenda
<1> QED
  BY <1>1, <1>2 DEF TypeOK, Collapse, WorkOn, Agenda, Row

LEMMA TypeDeal ==
  ASSUME TypeOK, NEW t \in Table, Deal(t)
  PROVE  TypeOK'
<1>1. PICK post \in [Stacked(t) -> 0..Forced] :
        /\ \A p \in Stacked(t) : post[p] <= stack[p]
        /\ stack' = [p \in Person |-> IF p \in Stacked(t) THEN stack[p] - post[p] ELSE stack[p]]
        /\ bet' = [p \in Person |-> IF p \in Stacked(t) THEN post[p] ELSE bet[p]]
  BY DEF Deal
<1>2. Stacked(t) \subseteq Person
  BY DEF Stacked, Seats
<1>3. \A p \in Stacked(t) : post[p] \in Nat /\ stack[p] \in Nat /\ stack[p] - post[p] \in Nat
  BY <1>1, <1>2, TypeFacts, SizesAssumption
<1>4. stack' \in [Person -> Nat] /\ bet' \in [Person -> Nat]
  BY <1>1, <1>3, TypeFacts
<1>5. dealtIn' \subseteq Person /\ dealing' \subseteq Table
  BY <1>2 DEF TypeOK, Deal
<1> QED
  BY <1>4, <1>5 DEF TypeOK, Deal, WorkOn, Agenda, Row

LEMMA TypeEndHand ==
  ASSUME TypeOK, NEW t \in Table, EndHand(t)
  PROVE  TypeOK'
<1>1. PICK win \in Payouts(t) :
      LET after  == [p \in Person |-> IF p \in InHand(t) THEN stack[p] + win[p] ELSE stack[p]]
          bust   == {p \in Seats(t) : after[p] = 0}
          alive  == {p \in Person : at[p] # Nowhere /\ after[p] > 0}
          final  == Cardinality(alive) <= 1
      IN
      /\ \E s \in Orderings(bust), w \in alive \union {Nobody} :
           outs' = outs \o [i \in DOMAIN s |-> Out(s[i], NextPlace - i + 1)]
                        \o (IF w = Nobody THEN <<>> ELSE <<Out(w, 1)>>)
      /\ stack' = after
      /\ at' = [p \in Person |-> IF p \in bust THEN Nowhere ELSE at[p]]
      /\ Agenda("queued", t, {}, final, FALSE)
  BY ZenonT(60) DEF EndHand
<1>2. win \in [InHand(t) -> Nat]
  BY DEF Payouts
<1>3. stack' \in [Person -> Nat]
  BY <1>1, <1>2, TypeFacts
<1>4. at' \in [Person -> Table \union {0}]
  BY <1>1, TypeFacts
<1>5. AgendaOK'
  <2> DEFINE after == [p \in Person |-> IF p \in InHand(t) THEN stack[p] + win[p] ELSE stack[p]]
             alive == {p \in Person : at[p] # Nowhere /\ after[p] > 0}
  <2>1. Agenda("queued", t, {}, Cardinality(alive) <= 1, FALSE)
    BY <1>1
  <2> HIDE DEF alive
  <2>2. (Cardinality(alive) <= 1) \in BOOLEAN
    OBVIOUS
  <2> QED
    BY <2>1, <2>2 DEF AgendaOK, Agenda, Steps
<1>6. outs' \in Seq(Line)
  <2> DEFINE after  == [p \in Person |-> IF p \in InHand(t) THEN stack[p] + win[p] ELSE stack[p]]
             bust   == {p \in Seats(t) : after[p] = 0}
             alive  == {p \in Person : at[p] # Nowhere /\ after[p] > 0}
  <2>1. PICK s \in Orderings(bust), w \in alive \union {Nobody} :
          outs' = outs \o [i \in DOMAIN s |-> Out(s[i], NextPlace - i + 1)]
                       \o (IF w = Nobody THEN <<>> ELSE <<Out(w, 1)>>)
    BY <1>1
  <2>2. bust \subseteq Person /\ alive \subseteq Person
    BY TypeFacts
  <2> HIDE DEF bust, alive
  <2>3. Cardinality(bust) \in Nat
    BY <2>2, FiniteGroup
  <2>4. s \in [1..Cardinality(bust) -> bust]
    BY DEF Orderings
  <2>5. [i \in DOMAIN s |-> Out(s[i], NextPlace - i + 1)] \in Seq(Line)
    <3>1. DOMAIN s = 1..Cardinality(bust)
      BY <2>4
    <3>2. \A i \in 1..Cardinality(bust) : s[i] \in Person /\ NextPlace - i + 1 \in Int
      <4>1. NextPlace \in Int
        BY TypeFacts
      <4>2. \A i \in 1..Cardinality(bust) : s[i] \in bust
        BY <2>4
      <4>3. \A i \in 1..Cardinality(bust) : NextPlace - i + 1 \in Int
        BY <2>3, <4>1
      <4> QED
        BY <2>2, <4>2, <4>3
    <3>3. \A i \in 1..Cardinality(bust) : Out(s[i], NextPlace - i + 1) \in Line
      BY <3>2, LineType
    <3> QED
      BY <2>3, <3>1, <3>3, IsASeq
  <2>6. (IF w = Nobody THEN <<>> ELSE <<Out(w, 1)>>) \in Seq(Line)
    <3>1. w # Nobody => Out(w, 1) \in Line
      BY <2>2, LineType
    <3> QED
      BY <3>1, EmptySeq
  <2> QED
    BY <2>1, <2>5, <2>6, TypeFacts, ConcatProperties
<1>7. /\ bet' \in [Person -> Nat] /\ dealtIn' \subseteq Person /\ rekeyed' \subseteq Person
      /\ dealing' \subseteq Table /\ resting' \subseteq Table
  BY TypeFacts DEF TypeOK, EndHand
<1> QED
  BY <1>3, <1>4, <1>5, <1>6, <1>7 DEF TypeOK, AgendaOK, EndHand, Row, Line

LEMMA TypeRested ==
  ASSUME TypeOK, NEW t \in Table, Rested(t)
  PROVE  TypeOK'
BY DEF TypeOK, Rested, Steps, Agenda, GoTo, WorkOn, SettleField, EndHandler, agenda

LEMMA TypeStepLevel ==
  ASSUME TypeOK, NEW i \in Row, StepLevel(i)
  PROVE  TypeOK'
BY DEF TypeOK, StepLevel, Running, Row, Steps, Agenda, GoTo, WorkOn, SettleField, EndHandler,
       agenda

LEMMA TypeRequestMove ==
  ASSUME TypeOK, NEW p \in Person, NEW t \in Table, RequestMove(p, t)
  PROVE  TypeOK'
<1>1. /\ asked' \in Nat
      /\ at' \in [Person -> Table \union {0}] /\ moves' \in [Person -> Table \union {0}]
  <2>1. asked' \in Nat
    BY DEF TypeOK, RequestMove
  <2>2. at' \in [Person -> Table \union {0}]
    BY DEF TypeOK, RequestMove
  <2>3. moves' \in [Person -> Table \union {0}]
    BY DEF TypeOK, RequestMove
  <2> QED
    BY <2>1, <2>2, <2>3
<1>2. AgendaOK'
  BY DEF AgendaOK, TypeOK, RequestMove, SettleField, Agenda, agenda, Steps
<1> QED
  BY <1>1, <1>2 DEF TypeOK, AgendaOK, RequestMove, Row

LEMMA TypeBalance ==
  ASSUME TypeOK, NEW p \in Person, NEW t \in Table, Balance(p, t)
  PROVE  TypeOK'
BY DEF TypeOK, Balance, Doing, Steps, Agenda, GoTo, WorkOn, SettleField, EndHandler, agenda

LEMMA TypeWager ==
  ASSUME TypeOK, NEW p \in Person, NEW n \in 1..stack[p], Wager(p, n)
  PROVE  TypeOK'
<1>1. stack[p] - n \in Nat /\ bet[p] + n \in Nat
  BY TypeFacts
<1>2. stack' \in [Person -> Nat] /\ bet' \in [Person -> Nat]
  BY <1>1 DEF TypeOK, Wager
<1> QED
  BY <1>2 DEF TypeOK, Wager, Row, agenda

-----------------------------------------------------------------------------
(* Hands *)

\* Nobody off the felt has chips in front of them, only entrants sit, and
\* before the start there is nothing on any table.
OutsideEmpty == \A p \in Person : at[p] = Nowhere => stack[p] = 0
EnteredOnly  == \A p \in Person : at[p] # Nowhere => p \in entrants
NotStarted   ==
  status = "registering" =>
    /\ \A p \in Person : at[p] = Nowhere
    /\ dealtIn = {} /\ dealing = {} /\ expected = 0 /\ doing = "idle"

\* The table a handler is clearing up after a hand, or emptying, is idle, and
\* whoever it has still to carry off sits there.
HandlerFree ==
  /\ doing \in {"queued", "emptying"} => onTable \notin dealing
  /\ doing = "emptying" => \A p \in todo : at[p] = onTable

HandInv == HandIsWhole /\ OutsideEmpty /\ EnteredOnly /\ NotStarted /\ HandlerFree

-----------------------------------------------------------------------------
(* What the steps do to the hands, by kind *)

\* Nobody moves and no chip does.
LEMMA HandQuiet ==
  ASSUME TypeOK, HandInv, status' # "registering", HandlerFree',
         UNCHANGED <<entrants, at, stack, bet, dealtIn, dealing>>
  PROVE  HandInv'
<1>1. InHandSeated' /\ MoneyInHand' /\ BrokeInHand'
  BY DEF HandInv, HandIsWhole, InHandSeated, MoneyInHand, BrokeInHand
<1>2. HandsPeopled'
  BY DEF HandInv, HandIsWhole, HandsPeopled, InHand
<1>3. OutsideEmpty' /\ EnteredOnly' /\ NotStarted'
  BY DEF HandInv, OutsideEmpty, EnteredOnly, NotStarted
<1> QED
  BY <1>1, <1>2, <1>3 DEF HandInv, HandIsWhole

\* Somebody's seat changes table: they are in no hand, so no hand notices.
LEMMA HandCarry ==
  ASSUME TypeOK, HandInv, status' # "registering", HandlerFree',
         NEW p \in Person, NEW t \in Table,
         at[p] # Nowhere, at[p] \notin dealing, at' = [at EXCEPT ![p] = t],
         UNCHANGED <<entrants, stack, bet, dealtIn, dealing>>
  PROVE  HandInv'
<1>1. p \notin dealtIn
  BY DEF HandInv, HandIsWhole, InHandSeated
<1>2. \A q \in Person : q # p => at'[q] = at[q]
  BY DEF TypeOK
<1>3. at'[p] = t /\ t # Nowhere
  BY DEF TypeOK
<1>4. InHandSeated' /\ MoneyInHand'
  BY <1>1, <1>2 DEF HandInv, HandIsWhole, InHandSeated, MoneyInHand
<1>5. BrokeInHand'
  BY <1>2, <1>3 DEF HandInv, HandIsWhole, BrokeInHand
<1>6. HandsPeopled'
  <2>1. \A u \in Table : InHand(u)' = InHand(u)
    BY <1>1, <1>2 DEF InHand, TypeOK
  <2> QED
    BY <2>1 DEF HandInv, HandIsWhole, HandsPeopled, TypeOK
<1>7. OutsideEmpty' /\ EnteredOnly' /\ NotStarted'
  BY <1>2, <1>3 DEF HandInv, OutsideEmpty, EnteredOnly, NotStarted
<1> QED
  BY <1>4, <1>5, <1>6, <1>7 DEF HandInv, HandIsWhole

\* Somebody who is in no hand goes, with their chips.
LEMMA HandLeave ==
  ASSUME TypeOK, HandInv, status' # "registering", HandlerFree',
         NEW p \in Person, at[p] # Nowhere, at[p] \notin dealing, TakeOutOfPlay(p),
         UNCHANGED <<entrants, bet, dealtIn, dealing>>
  PROVE  HandInv'
<1>1. p \notin dealtIn
  BY DEF HandInv, HandIsWhole, InHandSeated
<1>2. \A q \in Person : q # p => at'[q] = at[q] /\ stack'[q] = stack[q]
  BY DEF TypeOK, TakeOutOfPlay
<1>3. at'[p] = Nowhere /\ stack'[p] = 0
  BY DEF TypeOK, TakeOutOfPlay
<1>4. InHandSeated' /\ MoneyInHand'
  BY <1>1, <1>2 DEF HandInv, HandIsWhole, InHandSeated, MoneyInHand
<1>5. BrokeInHand'
  BY <1>2, <1>3 DEF HandInv, HandIsWhole, BrokeInHand
<1>6. HandsPeopled'
  <2>1. \A u \in Table : InHand(u)' = InHand(u)
    BY <1>1, <1>2 DEF InHand, TypeOK
  <2> QED
    BY <2>1 DEF HandInv, HandIsWhole, HandsPeopled, TypeOK
<1>7. OutsideEmpty' /\ EnteredOnly' /\ NotStarted'
  BY <1>2, <1>3 DEF HandInv, OutsideEmpty, EnteredOnly, NotStarted
<1> QED
  BY <1>4, <1>5, <1>6, <1>7 DEF HandInv, HandIsWhole

\* Where a new seat is: at a table, for somebody who had none.
LEMMA SeatTaken ==
  ASSUME TypeOK, NEW p \in Person, TakeSeat(p)
  PROVE  /\ at'[p] \in Table /\ stack'[p] = StartChips
         /\ at' = [at EXCEPT ![p] = at'[p]]
<1>1. stack'[p] = StartChips
  BY DEF TypeOK, TakeSeat
<1>2. CASE \E t \in Table : at' = [at EXCEPT ![p] = t]
  BY <1>1, <1>2 DEF TypeOK
<1>3. CASE opened < MaxTables /\ at' = [at EXCEPT ![p] = opened + 1]
  <2>1. opened + 1 \in Table
    BY <1>3, SizesAssumption DEF TypeOK
  <2> QED
    BY <1>1, <1>3, <2>1 DEF TypeOK
<1> QED
  BY <1>2, <1>3 DEF TakeSeat

\* Somebody sits down with a stack, dealt into no hand.
LEMMA HandSit ==
  ASSUME TypeOK, HandInv, status' # "registering", HandlerFree',
         NEW p \in Person, at[p] = Nowhere, TakeSeat(p),
         entrants' = entrants \union {p}, UNCHANGED <<bet, dealtIn, dealing>>
  PROVE  HandInv'
<1>1. p \notin dealtIn
  <2>1. Nowhere \notin dealing
    BY DEF TypeOK
  <2> QED
    BY <2>1 DEF HandInv, HandIsWhole, InHandSeated
<1>2. \A q \in Person : q # p => at'[q] = at[q] /\ stack'[q] = stack[q]
  BY SeatTaken DEF TypeOK, TakeSeat
<1>3. at'[p] # Nowhere /\ stack'[p] # 0
  BY SeatTaken, SizesAssumption
<1>4. InHandSeated' /\ MoneyInHand'
  BY <1>1, <1>2 DEF HandInv, HandIsWhole, InHandSeated, MoneyInHand
<1>5. BrokeInHand'
  BY <1>2, <1>3 DEF HandInv, HandIsWhole, BrokeInHand
<1>6. HandsPeopled'
  <2>1. \A u \in Table : InHand(u)' = InHand(u)
    BY <1>1, <1>2 DEF InHand, TypeOK
  <2> QED
    BY <2>1 DEF HandInv, HandIsWhole, HandsPeopled, TypeOK
<1>7. OutsideEmpty' /\ EnteredOnly' /\ NotStarted'
  BY <1>2, <1>3 DEF HandInv, OutsideEmpty, EnteredOnly, NotStarted
<1> QED
  BY <1>4, <1>5, <1>6, <1>7 DEF HandInv, HandIsWhole

\* Somebody seated is handed chips.
LEMMA HandTopUp ==
  ASSUME TypeOK, HandInv, status' # "registering", HandlerFree',
         NEW p \in Person, at[p] # Nowhere,
         stack' = [stack EXCEPT ![p] = @ + StartChips],
         UNCHANGED <<entrants, at, bet, dealtIn, dealing>>
  PROVE  HandInv'
<1>1. /\ \A q \in Person : q # p => stack'[q] = stack[q]
      /\ stack'[p] # 0
  BY SizesAssumption DEF TypeOK
<1>2. InHandSeated' /\ MoneyInHand' /\ BrokeInHand'
  BY <1>1 DEF HandInv, HandIsWhole, InHandSeated, MoneyInHand, BrokeInHand
<1>3. HandsPeopled'
  BY DEF HandInv, HandIsWhole, HandsPeopled, InHand
<1>4. OutsideEmpty' /\ EnteredOnly' /\ NotStarted'
  BY <1>1 DEF HandInv, OutsideEmpty, EnteredOnly, NotStarted
<1> QED
  BY <1>2, <1>3, <1>4 DEF HandInv, HandIsWhole

-----------------------------------------------------------------------------
(* Steps that leave the seats and the chips alone *)

LEMMA HandRested ==
  ASSUME TypeOK, HandInv, NEW t \in Table, Rested(t)
  PROVE  HandInv'
<1>1. status' # "registering" /\ UNCHANGED <<entrants, at, stack, bet, dealtIn, dealing>>
  BY DEF Rested, Running, Doing, Queued
<1>2. HandlerFree'
  BY DEF HandInv, HandlerFree, Rested, Running, Doing, Queued, Agenda, GoTo, WorkOn,
         SettleField, EndHandler, agenda
<1> QED
  BY <1>1, <1>2, HandQuiet

LEMMA HandLevelUp ==
  ASSUME TypeOK, HandInv, LevelUp
  PROVE  HandInv'
<1>1. status' # "registering" /\ UNCHANGED <<entrants, at, stack, bet, dealtIn, dealing>>
  BY DEF LevelUp, Running, Doing, Queued
<1>2. HandlerFree'
  BY DEF HandInv, HandlerFree, LevelUp, Running, Doing, Queued, Agenda, GoTo, WorkOn,
         SettleField, EndHandler, agenda
<1> QED
  BY <1>1, <1>2, HandQuiet

LEMMA HandStepLevel ==
  ASSUME TypeOK, HandInv, NEW i \in Row, StepLevel(i)
  PROVE  HandInv'
<1>1. status' # "registering" /\ UNCHANGED <<entrants, at, stack, bet, dealtIn, dealing>>
  BY DEF StepLevel, Running, Doing, Queued
<1>2. HandlerFree'
  BY DEF HandInv, HandlerFree, StepLevel, Running, Doing, Queued, Agenda, GoTo, WorkOn,
         SettleField, EndHandler, agenda
<1> QED
  BY <1>1, <1>2, HandQuiet

LEMMA HandHold ==
  ASSUME TypeOK, HandInv, Hold
  PROVE  HandInv'
<1>1. status' # "registering" /\ UNCHANGED <<entrants, at, stack, bet, dealtIn, dealing>>
  BY DEF Hold, Running, Doing, Queued
<1>2. HandlerFree'
  BY DEF HandInv, HandlerFree, Hold, Running, Doing, Queued, Agenda, GoTo, WorkOn,
         SettleField, EndHandler, agenda
<1> QED
  BY <1>1, <1>2, HandQuiet

LEMMA HandReconnect ==
  ASSUME TypeOK, HandInv, NEW p \in Person, Reconnect(p)
  PROVE  HandInv'
<1>1. status' # "registering" /\ UNCHANGED <<entrants, at, stack, bet, dealtIn, dealing>>
  BY DEF Reconnect, Running, Doing, Queued
<1>2. HandlerFree'
  BY DEF HandInv, HandlerFree, Reconnect, Running, Doing, Queued, Agenda, GoTo, WorkOn,
         SettleField, EndHandler, agenda
<1> QED
  BY <1>1, <1>2, HandQuiet

LEMMA HandQueuedDone ==
  ASSUME TypeOK, HandInv, QueuedDone
  PROVE  HandInv'
<1>1. status' # "registering" /\ UNCHANGED <<entrants, at, stack, bet, dealtIn, dealing>>
  BY DEF QueuedDone, Running, Doing, Queued
<1>2. HandlerFree'
  BY DEF HandInv, HandlerFree, QueuedDone, Running, Doing, Queued, Agenda, GoTo, WorkOn,
         SettleField, EndHandler, agenda
<1> QED
  BY <1>1, <1>2, HandQuiet

LEMMA HandFinish ==
  ASSUME TypeOK, HandInv, Finish
  PROVE  HandInv'
<1>1. status' # "registering" /\ UNCHANGED <<entrants, at, stack, bet, dealtIn, dealing>>
  BY DEF Finish, Running, Doing, Queued
<1>2. HandlerFree'
  BY DEF HandInv, HandlerFree, Finish, Running, Doing, Queued, Agenda, GoTo, WorkOn,
         SettleField, EndHandler, agenda
<1> QED
  BY <1>1, <1>2, HandQuiet

LEMMA HandPlayOn ==
  ASSUME TypeOK, HandInv, PlayOn
  PROVE  HandInv'
<1>1. status' # "registering" /\ UNCHANGED <<entrants, at, stack, bet, dealtIn, dealing>>
  BY DEF PlayOn, Running, Doing, Queued
<1>2. HandlerFree'
  BY DEF HandInv, HandlerFree, PlayOn, Running, Doing, Queued, Agenda, GoTo, WorkOn,
         SettleField, EndHandler, agenda
<1> QED
  BY <1>1, <1>2, HandQuiet

LEMMA HandMovesDone ==
  ASSUME TypeOK, HandInv, MovesDone
  PROVE  HandInv'
<1>1. status' # "registering" /\ UNCHANGED <<entrants, at, stack, bet, dealtIn, dealing>>
  BY DEF MovesDone, Running, Doing, Queued
<1>2. HandlerFree'
  BY DEF HandInv, HandlerFree, MovesDone, Running, Doing, Queued, Agenda, GoTo, WorkOn,
         SettleField, EndHandler, agenda
<1> QED
  BY <1>1, <1>2, HandQuiet

LEMMA HandBeginBreak ==
  ASSUME TypeOK, HandInv, NEW t \in Table, BeginBreak(t)
  PROVE  HandInv'
<1>1. status' # "registering" /\ UNCHANGED <<entrants, at, stack, bet, dealtIn, dealing>>
  BY DEF BeginBreak, Running, Doing, Queued
<1>2. HandlerFree'
  BY DEF HandInv, HandlerFree, BeginBreak, Running, Doing, Queued, CanBreak, Seats, Agenda,
         GoTo, WorkOn, SettleField, EndHandler, agenda
<1> QED
  BY <1>1, <1>2, HandQuiet

LEMMA HandNoBreak ==
  ASSUME TypeOK, HandInv, NoBreak
  PROVE  HandInv'
<1>1. status' # "registering" /\ UNCHANGED <<entrants, at, stack, bet, dealtIn, dealing>>
  BY DEF NoBreak, Running, Doing, Queued
<1>2. HandlerFree'
  BY DEF HandInv, HandlerFree, NoBreak, Running, Doing, Queued, Agenda, GoTo, WorkOn,
         SettleField, EndHandler, agenda
<1> QED
  BY <1>1, <1>2, HandQuiet

LEMMA HandEmptied ==
  ASSUME TypeOK, HandInv, Emptied
  PROVE  HandInv'
<1>1. status' # "registering" /\ UNCHANGED <<entrants, at, stack, bet, dealtIn, dealing>>
  BY DEF Emptied, Running, Doing, Queued
<1>2. HandlerFree'
  BY DEF HandInv, HandlerFree, Emptied, Running, Doing, Queued, Agenda, GoTo, WorkOn,
         SettleField, EndHandler, agenda
<1> QED
  BY <1>1, <1>2, HandQuiet

LEMMA HandBalanced ==
  ASSUME TypeOK, HandInv, Balanced
  PROVE  HandInv'
<1>1. status' # "registering" /\ UNCHANGED <<entrants, at, stack, bet, dealtIn, dealing>>
  BY DEF Balanced, Running, Doing, Queued
<1>2. HandlerFree'
  BY DEF HandInv, HandlerFree, Balanced, Running, Doing, Queued, Agenda, GoTo, WorkOn,
         SettleField, EndHandler, agenda
<1> QED
  BY <1>1, <1>2, HandQuiet

LEMMA HandCollapsed ==
  ASSUME TypeOK, HandInv, Collapsed
  PROVE  HandInv'
<1>1. status' # "registering" /\ UNCHANGED <<entrants, at, stack, bet, dealtIn, dealing>>
  BY DEF Collapsed, Running, Doing, Queued
<1>2. HandlerFree'
  BY DEF HandInv, HandlerFree, Collapsed, Running, Doing, Queued, Agenda, GoTo, WorkOn,
         SettleField, EndHandler, agenda
<1> QED
  BY <1>1, <1>2, HandQuiet

LEMMA HandSweep ==
  ASSUME TypeOK, HandInv, Sweep
  PROVE  HandInv'
<1>1. status' # "registering" /\ UNCHANGED <<entrants, at, stack, bet, dealtIn, dealing>>
  BY DEF Sweep, Running, Doing, Queued
<1>2. HandlerFree'
  BY DEF HandInv, HandlerFree, Sweep, Running, Doing, Queued, Agenda, GoTo, WorkOn,
         SettleField, EndHandler, agenda
<1> QED
  BY <1>1, <1>2, HandQuiet

LEMMA HandTickMovesDone ==
  ASSUME TypeOK, HandInv, TickMovesDone
  PROVE  HandInv'
<1>1. status' # "registering" /\ UNCHANGED <<entrants, at, stack, bet, dealtIn, dealing>>
  BY DEF TickMovesDone, Running, Doing, Queued
<1>2. HandlerFree'
  BY DEF HandInv, HandlerFree, TickMovesDone, Running, Doing, Queued, ReadyOnTick, Agenda,
         GoTo, WorkOn, SettleField, EndHandler, agenda
<1> QED
  BY <1>1, <1>2, HandQuiet

LEMMA HandDealtAll ==
  ASSUME TypeOK, HandInv, DealtAll
  PROVE  HandInv'
<1>1. status' # "registering" /\ UNCHANGED <<entrants, at, stack, bet, dealtIn, dealing>>
  BY DEF DealtAll, Running, Doing, Queued
<1>2. HandlerFree'
  BY DEF HandInv, HandlerFree, DealtAll, Running, Doing, Queued, Agenda, GoTo, WorkOn,
         SettleField, EndHandler, agenda
<1> QED
  BY <1>1, <1>2, HandQuiet

LEMMA HandTick ==
  ASSUME TypeOK, HandInv, Tick
  PROVE  HandInv'
<1>1. status' # "registering" /\ UNCHANGED <<entrants, at, stack, bet, dealtIn, dealing>>
  BY DEF Tick, Running, Doing, Queued
<1>2. HandlerFree'
  BY DEF HandInv, HandlerFree, Tick, Running, Doing, Queued, ReadyOnTick, Agenda, GoTo,
         WorkOn, SettleField, EndHandler, agenda
<1> QED
  BY <1>1, <1>2, HandQuiet

-----------------------------------------------------------------------------
(* Steps that carry, seat, unseat or pay somebody *)

LEMMA HandApplyMove ==
  ASSUME TypeOK, HandInv, NEW p \in Person, ApplyMove(p)
  PROVE  HandInv'
<1>1. /\ status' # "registering" /\ doing' = doing /\ doing \in {"moves", "tickMoves"}
      /\ UNCHANGED <<entrants, stack, bet, dealtIn, dealing>>
  BY DEF ApplyMove, Doing, WorkOn, Agenda
<1>2. HandlerFree'
  BY <1>1 DEF HandlerFree
<1>3. CASE UNCHANGED at
  BY <1>1, <1>2, <1>3, HandQuiet
<1>4. CASE /\ MoveStands(p, moves[p]) /\ {at[p], moves[p]} \intersect dealing = {}
           /\ at' = [at EXCEPT ![p] = moves[p]]
  <2>1. at[p] # Nowhere /\ at[p] \notin dealing
    BY <1>4 DEF MoveStands
  <2>2. moves[p] \in Table
    BY <1>4, TypeFacts DEF MoveStands
  <2> QED
    BY <1>1, <1>2, <1>4, <2>1, <2>2, HandCarry
<1> QED
  BY <1>3, <1>4 DEF ApplyMove

LEMMA HandRequestMove ==
  ASSUME TypeOK, HandInv, NEW p \in Person, NEW t \in Table, RequestMove(p, t)
  PROVE  HandInv'
<1>1. /\ status' # "registering" /\ UNCHANGED <<entrants, stack, bet, dealtIn, dealing>>
      /\ at[p] # Nowhere
  BY DEF RequestMove, Running, MoveStands
<1>2. HandlerFree'
  BY DEF RequestMove, Running, Idle, HandlerFree, Agenda, SettleField, agenda
<1>3. CASE UNCHANGED at
  BY <1>1, <1>2, <1>3, HandQuiet
<1>4. CASE {at[p], t} \intersect dealing = {} /\ at' = [at EXCEPT ![p] = t]
  <2>1. at[p] \notin dealing
    BY <1>4
  <2> QED
    BY <1>1, <1>2, <1>4, <2>1, HandCarry
<1> QED
  BY <1>3, <1>4 DEF RequestMove

LEMMA HandCarryOff ==
  ASSUME TypeOK, HandInv, NEW p \in Person, CarryOff(p)
  PROVE  HandInv'
<1>1. /\ status' # "registering" /\ doing = "emptying" /\ p \in todo
      /\ doing' = doing /\ onTable' = onTable /\ todo' = todo \ {p}
      /\ UNCHANGED <<entrants, stack, bet, dealtIn, dealing>>
  BY DEF CarryOff, Doing, WorkOn, Agenda
<1>2. at[p] = onTable /\ onTable \notin dealing /\ onTable # Nowhere
  BY <1>1 DEF HandInv, HandlerFree, TypeOK
<1>3. PICK u \in Table : at' = [at EXCEPT ![p] = u]
  BY DEF CarryOff
<1>4. HandlerFree'
  BY <1>1, <1>2, <1>3 DEF HandInv, HandlerFree, TypeOK
<1> QED
  BY <1>1, <1>2, <1>3, <1>4, HandCarry

LEMMA HandBalance ==
  ASSUME TypeOK, HandInv, NEW p \in Person, NEW t \in Table, Balance(p, t)
  PROVE  HandInv'
<1>1. /\ status' # "registering" /\ doing = "balance" /\ doing' = doing
      /\ UNCHANGED <<entrants, stack, bet, dealtIn, dealing>>
      /\ at[p] # Nowhere /\ at' = [at EXCEPT ![p] = t]
  BY DEF Balance, Doing, agenda
<1>2. at[p] \notin dealing
  BY DEF Balance, CanBalance
<1>3. HandlerFree'
  BY <1>1 DEF HandlerFree
<1> QED
  BY <1>1, <1>2, <1>3, HandCarry

LEMMA HandCollapse ==
  ASSUME TypeOK, HandInv, NEW t \in Table, Collapse(t)
  PROVE  HandInv'
<1>1. /\ status' # "registering" /\ doing = "collapse" /\ doing' = doing
      /\ UNCHANGED <<entrants, stack, bet, dealtIn, dealing>> /\ t \notin dealing
  BY DEF Collapse, CanCollapse, Doing, WorkOn, Agenda
<1>2. PICK p \in Stacked(t), u \in Table : at' = [at EXCEPT ![p] = u]
  BY DEF Collapse
<1>3. p \in Person /\ at[p] = t /\ at[p] # Nowhere
  BY DEF Stacked, Seats
<1>4. HandlerFree'
  BY <1>1 DEF HandlerFree
<1> QED
  BY <1>1, <1>2, <1>3, <1>4, HandCarry

LEMMA HandRemoveFromPlay ==
  ASSUME TypeOK, HandInv, NEW p \in Person, RemoveFromPlay(p)
  PROVE  HandInv'
<1>1. /\ status' # "registering" /\ at[p] # Nowhere
      /\ UNCHANGED <<entrants, bet, dealtIn, dealing>>
  BY DEF RemoveFromPlay, Running
<1>2. HandlerFree'
  BY DEF RemoveFromPlay, Running, Idle, HandlerFree, Agenda, SettleField, agenda
<1>3. CASE UNCHANGED <<stack, at>>
  BY <1>1, <1>2, <1>3, HandQuiet
<1>4. CASE at[p] \notin dealing /\ TakeOutOfPlay(p)
  BY <1>1, <1>2, <1>4, HandLeave
<1> QED
  BY <1>3, <1>4 DEF RemoveFromPlay

LEMMA HandApplyRemoval ==
  ASSUME TypeOK, HandInv, NEW p \in Person, ApplyRemoval(p)
  PROVE  HandInv'
<1>1. /\ status' # "registering" /\ doing = "queued" /\ TakeOutOfPlay(p) /\ at[p] = onTable
      /\ UNCHANGED <<entrants, bet, dealtIn, dealing, doing, onTable, todo>>
  BY DEF ApplyRemoval, Queued, Doing, Leaving, agenda
<1>2. onTable \notin dealing /\ onTable # Nowhere
  BY <1>1 DEF HandInv, HandlerFree, TypeOK
<1>3. HandlerFree'
  BY <1>1, <1>2 DEF HandlerFree
<1> QED
  BY <1>1, <1>2, <1>3, HandLeave

LEMMA HandRegisterLate ==
  ASSUME TypeOK, HandInv, NEW p \in Person, RegisterLate(p)
  PROVE  HandInv'
<1>1. /\ status' # "registering" /\ TakeSeat(p) /\ p \notin entrants
      /\ entrants' = entrants \union {p} /\ UNCHANGED <<bet, dealtIn, dealing>>
      /\ doing = "idle" /\ doing' = doing
  BY DEF RegisterLate, Running, Idle, hand, agenda
<1>2. at[p] = Nowhere
  BY <1>1 DEF HandInv, EnteredOnly
<1>3. HandlerFree'
  BY <1>1 DEF HandlerFree
<1> QED
  BY <1>1, <1>2, <1>3, HandSit

LEMMA HandReenter ==
  ASSUME TypeOK, HandInv, NEW p \in Person, Reenter(p)
  PROVE  HandInv'
<1>1. /\ status' # "registering" /\ TakeSeat(p) /\ at[p] = Nowhere
      /\ entrants' = entrants \union {p} /\ UNCHANGED <<bet, dealtIn, dealing>>
      /\ doing = "idle" /\ doing' = doing
  BY DEF Reenter, Running, Idle, hand, agenda
<1>2. HandlerFree'
  BY <1>1 DEF HandlerFree
<1> QED
  BY <1>1, <1>2, HandSit

LEMMA HandTakeAddOn ==
  ASSUME TypeOK, HandInv, NEW p \in Person, TakeAddOn(p)
  PROVE  HandInv'
<1>1. /\ status' # "registering" /\ at[p] # Nowhere
      /\ UNCHANGED <<entrants, at, bet, dealtIn, dealing>>
  BY DEF TakeAddOn, Running
<1>2. HandlerFree'
  BY DEF TakeAddOn, Running, Idle, HandlerFree, Agenda, SettleField, agenda
<1>3. CASE UNCHANGED stack
  BY <1>1, <1>2, <1>3, HandQuiet
<1>4. CASE stack' = [stack EXCEPT ![p] = @ + StartChips]
  BY <1>1, <1>2, <1>4, HandTopUp
<1> QED
  BY <1>3, <1>4 DEF TakeAddOn

LEMMA HandApplyAddOn ==
  ASSUME TypeOK, HandInv, NEW p \in Person, ApplyAddOn(p)
  PROVE  HandInv'
<1>1. /\ status' # "registering" /\ at[p] = onTable /\ doing = "queued"
      /\ stack' = [stack EXCEPT ![p] = @ + StartChips]
      /\ UNCHANGED <<entrants, at, bet, dealtIn, dealing, doing, onTable, todo>>
  BY DEF ApplyAddOn, Queued, Doing, Paying, agenda
<1>2. onTable # Nowhere
  BY <1>1 DEF TypeOK
<1>3. HandlerFree'
  BY <1>1 DEF HandInv, HandlerFree
<1> QED
  BY <1>1, <1>2, <1>3, HandTopUp

-----------------------------------------------------------------------------
(* The start, and the hand itself *)

LEMMA HandRegister ==
  ASSUME TypeOK, HandInv, NEW p \in Person, Register(p) \/ Unregister(p)
  PROVE  HandInv'
<1>1. /\ status = "registering" /\ entrants' \subseteq entrants \union {p}
      /\ UNCHANGED <<status, at, stack, bet, dealtIn, dealing, expected, doing, onTable, todo>>
  BY DEF Register, Unregister, agenda
<1>2. \A q \in Person : at[q] = Nowhere
  BY <1>1 DEF HandInv, NotStarted
<1>3. InHandSeated' /\ MoneyInHand' /\ BrokeInHand'
  BY <1>1 DEF HandInv, HandIsWhole, InHandSeated, MoneyInHand, BrokeInHand
<1>4. HandsPeopled'
  BY <1>1 DEF HandInv, HandIsWhole, HandsPeopled, InHand
<1>5. OutsideEmpty' /\ EnteredOnly' /\ NotStarted' /\ HandlerFree'
  BY <1>1, <1>2 DEF HandInv, OutsideEmpty, EnteredOnly, NotStarted, HandlerFree
<1> QED
  BY <1>3, <1>4, <1>5 DEF HandInv, HandIsWhole

LEMMA HandStart ==
  ASSUME TypeOK, HandInv, Start
  PROVE  HandInv'
<1>1. /\ status = "registering" /\ status' = "running"
      /\ UNCHANGED <<entrants, bet, dealtIn, dealing, doing>>
      /\ stack' = [p \in Person |-> IF p \in entrants THEN StartChips ELSE 0]
  BY DEF Start, agenda
<1>2. dealtIn = {} /\ dealing = {} /\ doing = "idle"
  BY <1>1 DEF HandInv, NotStarted
<1>3. ASSUME NEW p \in Person
      PROVE  (at'[p] # Nowhere <=> p \in entrants) /\ (p \in entrants <=> stack'[p] # 0)
  <2>1. PICK d \in Draws(Cardinality(entrants)) :
          at' = [q \in Person |-> IF q \in entrants THEN d[q] ELSE Nowhere]
    BY DEF Start
  <2>2. p \in entrants => d[p] \in 1..TablesFor(Cardinality(entrants))
    BY DEF Draws
  <2>3. p \in entrants => d[p] # 0
    BY <2>2
  <2> QED
    BY <1>1, <2>1, <2>3, SizesAssumption
<1>4. InHandSeated' /\ MoneyInHand' /\ BrokeInHand' /\ HandsPeopled'
  BY <1>1, <1>2, <1>3 DEF HandInv, HandIsWhole, InHandSeated, MoneyInHand, BrokeInHand,
     HandsPeopled
<1>5. OutsideEmpty' /\ EnteredOnly' /\ NotStarted' /\ HandlerFree'
  BY <1>1, <1>2, <1>3 DEF OutsideEmpty, EnteredOnly, NotStarted, HandlerFree
<1> QED
  BY <1>4, <1>5 DEF HandInv, HandIsWhole

LEMMA HandWager ==
  ASSUME TypeOK, HandInv, NEW p \in Person, NEW n \in 1..stack[p], Wager(p, n)
  PROVE  HandInv'
<1>1. /\ status' # "registering" /\ p \in dealtIn
      /\ UNCHANGED <<entrants, at, dealtIn, dealing, doing, onTable, todo>>
  BY DEF Wager, Running, agenda
<1>2. \A q \in Person : q # p => stack'[q] = stack[q] /\ bet'[q] = bet[q]
  BY DEF TypeOK, Wager
<1>3. at[p] # Nowhere
  BY <1>1 DEF HandInv, HandIsWhole, InHandSeated, TypeOK
<1>4. InHandSeated' /\ MoneyInHand' /\ BrokeInHand'
  BY <1>1, <1>2 DEF HandInv, HandIsWhole, InHandSeated, MoneyInHand, BrokeInHand
<1>5. HandsPeopled'
  BY <1>1 DEF HandInv, HandIsWhole, HandsPeopled, InHand
<1>6. OutsideEmpty' /\ EnteredOnly' /\ NotStarted' /\ HandlerFree'
  BY <1>1, <1>2, <1>3 DEF HandInv, OutsideEmpty, EnteredOnly, NotStarted, HandlerFree
<1> QED
  BY <1>4, <1>5, <1>6 DEF HandInv, HandIsWhole

LEMMA HandDeal ==
  ASSUME TypeOK, HandInv, NEW t \in Table, Deal(t)
  PROVE  HandInv'
<1>1. /\ status' # "registering" /\ doing = "deal" /\ doing' = doing
      /\ dealtIn' = dealtIn \union Stacked(t) /\ dealing' = dealing \union {t}
      /\ UNCHANGED <<entrants, at>>
  BY DEF Deal, Doing, WorkOn, Agenda
<1>2. t \notin dealing /\ Cardinality(Stacked(t)) >= 2
  BY DEF Deal, CanStartHand
<1>3. \A p \in Person : p \notin Stacked(t) => stack'[p] = stack[p] /\ bet'[p] = bet[p]
  BY DEF Deal
<1>4. \A p \in Person : p \in Stacked(t) <=> at[p] = t /\ stack[p] > 0
  BY DEF Stacked, Seats
<1>5. InHandSeated' /\ MoneyInHand' /\ BrokeInHand'
  <2>1. InHandSeated'
    BY <1>1, <1>4 DEF HandInv, HandIsWhole, InHandSeated
  <2>2. MoneyInHand'
    BY <1>1, <1>3 DEF HandInv, HandIsWhole, MoneyInHand
  <2>3. BrokeInHand'
    BY <1>1, <1>3 DEF HandInv, HandIsWhole, BrokeInHand
  <2> QED
    BY <2>1, <2>2, <2>3
<1>6. HandsPeopled'
  <2>1. InHand(t)' = Stacked(t)
    BY <1>1, <1>2, <1>4 DEF HandInv, HandIsWhole, InHandSeated, InHand, Stacked, Seats, TypeOK
  <2>2. \A u \in dealing : InHand(u)' = InHand(u)
    BY <1>1, <1>2, <1>4 DEF InHand, Stacked, Seats
  <2> QED
    BY <1>1, <1>2, <2>1, <2>2 DEF HandInv, HandIsWhole, HandsPeopled
<1>7. OutsideEmpty' /\ EnteredOnly' /\ NotStarted' /\ HandlerFree'
  BY <1>1, <1>3, <1>4 DEF HandInv, OutsideEmpty, EnteredOnly, NotStarted, HandlerFree
<1> QED
  BY <1>5, <1>6, <1>7 DEF HandInv, HandIsWhole

\* Who is where when a hand is over: the broke are gone, the rest stay.
LEMMA HandEndHand ==
  ASSUME TypeOK, HandInv, NEW t \in Table, EndHand(t)
  PROVE  HandInv'
<1>1. /\ status' # "registering" /\ doing' = "queued" /\ onTable' = t
      /\ dealtIn' = dealtIn \ InHand(t) /\ dealing' = dealing \ {t}
      /\ bet' = [p \in Person |-> IF p \in InHand(t) THEN 0 ELSE bet[p]]
      /\ UNCHANGED entrants
  BY DEF EndHand, Running, Agenda
<1>2. ASSUME NEW p \in Person
      PROVE  /\ at[p] # t => at'[p] = at[p] /\ stack'[p] = stack[p]
             /\ at[p] = t /\ stack'[p] = 0 => at'[p] = Nowhere
             /\ at[p] = t /\ stack'[p] # 0 => at'[p] = t
  BY DEF EndHand, Seats, InHand
<1>3. \A p \in Person : p \in InHand(t) <=> p \in dealtIn /\ at[p] = t
  BY DEF InHand
<1>4. t # Nowhere
  OBVIOUS
<1>5. InHandSeated' /\ MoneyInHand' /\ BrokeInHand'
  <2>1. InHandSeated'
    BY <1>1, <1>2, <1>3 DEF HandInv, HandIsWhole, InHandSeated
  <2>2. MoneyInHand'
    BY <1>1, <1>3 DEF HandInv, HandIsWhole, MoneyInHand
  <2>3. BrokeInHand'
    BY <1>1, <1>2, <1>3, <1>4 DEF HandInv, HandIsWhole, BrokeInHand
  <2> QED
    BY <2>1, <2>2, <2>3
<1>6. HandsPeopled'
  <2>1. \A u \in dealing \ {t} : InHand(u)' = InHand(u)
    BY <1>1, <1>2, <1>3, <1>4 DEF InHand, TypeOK
  <2> QED
    BY <1>1, <2>1 DEF HandInv, HandIsWhole, HandsPeopled
<1>7. OutsideEmpty' /\ EnteredOnly' /\ NotStarted' /\ HandlerFree'
  BY <1>1, <1>2, <1>4 DEF HandInv, OutsideEmpty, EnteredOnly, NotStarted, HandlerFree
<1> QED
  BY <1>5, <1>6, <1>7 DEF HandInv, HandIsWhole

-----------------------------------------------------------------------------
(* Types *)

LEMMA TypeStill ==
  ASSUME TypeOK, UNCHANGED vars
  PROVE  TypeOK'
<1>1. UNCHANGED <<status, entrants, barred, extra, at, opened, broken, breakOrder, stack>>
  OBVIOUS
<1>2. UNCHANGED <<bet, dealtIn, rekeyed, dealing, resting, outs, fieldSize, expected>>
  OBVIOUS
<1>3. UNCHANGED <<removals, moves, wantAddOn, asked, addOns, row, stopped, winner>>
  OBVIOUS
<1>4. UNCHANGED <<doing, onTable, todo, over, ticking>>
  BY DEF agenda
<1> QED
  BY <1>1, <1>2, <1>3, <1>4 DEF TypeOK, Row

LEMMA TypeStep ==
  ASSUME TypeOK, [Next]_vars
  PROVE  TypeOK'
<1>0. CASE UNCHANGED vars
  BY <1>0, TypeStill
<1>1. ASSUME NEW p \in Person, Register(p) PROVE TypeOK'
  BY <1>1, TypeRegister
<1>2. ASSUME NEW p \in Person, Unregister(p) PROVE TypeOK'
  BY <1>2, TypeUnregister
<1>3. ASSUME NEW p \in Person, RegisterLate(p) PROVE TypeOK'
  BY <1>3, TypeRegisterLate
<1>4. ASSUME NEW p \in Person, Reenter(p) PROVE TypeOK'
  BY <1>4, TypeReenter
<1>5. ASSUME NEW p \in Person, TakeAddOn(p) PROVE TypeOK'
  BY <1>5, TypeTakeAddOn
<1>6. ASSUME NEW p \in Person, RemoveFromPlay(p) PROVE TypeOK'
  BY <1>6, TypeRemoveFromPlay
<1>7. ASSUME NEW p \in Person, Reconnect(p) PROVE TypeOK'
  BY <1>7, TypeReconnect
<1>8. ASSUME NEW p \in Person, ApplyRemoval(p) PROVE TypeOK'
  BY <1>8, TypeApplyRemoval
<1>9. ASSUME NEW p \in Person, ApplyAddOn(p) PROVE TypeOK'
  BY <1>9, TypeApplyAddOn
<1>10. ASSUME NEW p \in Person, ApplyMove(p) PROVE TypeOK'
  BY <1>10, TypeApplyMove
<1>11. ASSUME NEW p \in Person, CarryOff(p) PROVE TypeOK'
  BY <1>11, TypeCarryOff
<1>12. ASSUME NEW t \in Table, BeginBreak(t) PROVE TypeOK'
  BY <1>12, TypeBeginBreak
<1>13. ASSUME NEW t \in Table, Collapse(t) PROVE TypeOK'
  BY <1>13, TypeCollapse
<1>14. ASSUME NEW t \in Table, Deal(t) PROVE TypeOK'
  BY <1>14, TypeDeal
<1>15. ASSUME NEW t \in Table, EndHand(t) PROVE TypeOK'
  BY <1>15, TypeEndHand
<1>16. ASSUME NEW t \in Table, Rested(t) PROVE TypeOK'
  BY <1>16, TypeRested
<1>17. CASE Start
  BY <1>17, TypeStart
<1>18. CASE LevelUp
  BY <1>18, TypeLevelUp
<1>19. CASE Hold
  BY <1>19, TypeHold
<1>20. CASE QueuedDone
  BY <1>20, TypeQueuedDone
<1>21. CASE Finish
  BY <1>21, TypeFinish
<1>22. CASE PlayOn
  BY <1>22, TypePlayOn
<1>23. CASE MovesDone
  BY <1>23, TypeMovesDone
<1>24. CASE NoBreak
  BY <1>24, TypeNoBreak
<1>25. CASE Emptied
  BY <1>25, TypeEmptied
<1>26. CASE Balanced
  BY <1>26, TypeBalanced
<1>27. CASE Collapsed
  BY <1>27, TypeCollapsed
<1>28. CASE Sweep
  BY <1>28, TypeSweep
<1>29. CASE TickMovesDone
  BY <1>29, TypeTickMovesDone
<1>30. CASE DealtAll
  BY <1>30, TypeDealtAll
<1>31. CASE Tick
  BY <1>31, TypeTick
<1>32. ASSUME NEW i \in Row, StepLevel(i) PROVE TypeOK'
  BY <1>32, TypeStepLevel
<1>33. ASSUME NEW p \in Person, NEW t \in Table, RequestMove(p, t) PROVE TypeOK'
  BY <1>33, TypeRequestMove
<1>34. ASSUME NEW p \in Person, NEW t \in Table, Balance(p, t) PROVE TypeOK'
  BY <1>34, TypeBalance
<1>35. ASSUME NEW p \in Person, NEW n \in 1..stack[p], Wager(p, n) PROVE TypeOK'
  BY <1>35, TypeWager
<1>100. CASE Ask
  BY <1>100, <1>1, <1>2, <1>3, <1>4, <1>5, <1>6, <1>7, <1>33, <1>35, <1>17, <1>18, <1>19, <1>32 DEF Ask
<1>101. CASE Follow
  BY <1>101, <1>20, <1>21, <1>22, <1>23, <1>24, <1>25, <1>26, <1>27, <1>28, <1>29, <1>30, <1>8, <1>9, <1>10, <1>11, <1>34, <1>12, <1>13, <1>14 DEF Follow
<1> QED
  BY <1>0, <1>100, <1>101, <1>31, <1>15, <1>16 DEF Next

LEMMA TypeInit ==
  ASSUME Init
  PROVE  TypeOK
<1>1. row \in Row
  BY ScheduleAssumption, LenProperties DEF Init, Row
<1>2. breakOrder \in Seq(Table) /\ outs \in Seq([uid : Person, place : Int])
  BY EmptySeq DEF Init
<1>3. opened \in 0..MaxTables
  BY SizesAssumption DEF Init
<1>4. /\ at \in [Person -> Table \union {Nowhere}] /\ moves \in [Person -> Table \union {Nowhere}]
      /\ stack \in [Person -> Nat] /\ bet \in [Person -> Nat]
  BY DEF Init
<1>8. status \in {"registering", "running", "finished"} /\ stopped \in BOOLEAN
  BY DEF Init
<1>5. /\ extra \in Nat /\ fieldSize \in Nat /\ expected \in Int /\ asked \in Nat
      /\ winner \in Person \union {Nobody}
  BY DEF Init
<1>7. /\ entrants \subseteq Person /\ barred \subseteq Person /\ broken \subseteq Table
      /\ dealtIn \subseteq Person /\ rekeyed \subseteq Person
      /\ dealing \subseteq Table /\ resting \subseteq Table
      /\ removals \subseteq Person /\ wantAddOn \subseteq Person /\ addOns \subseteq Person
  BY DEF Init
<1>6. /\ doing \in Steps /\ onTable \in Table \union {Nowhere} /\ todo \subseteq Person
      /\ doing \in {"queued", "emptying"} => onTable \in Table
      /\ over \in BOOLEAN /\ ticking \in BOOLEAN
  BY DEF Init, Steps
<1> QED
  BY <1>1, <1>2, <1>3, <1>4, <1>5, <1>6, <1>7, <1>8 DEF TypeOK

\* Whatever happens to the field, every part of its state stays of its kind:
\* in particular no stack and no bet is ever negative (director.js, engine.js).
THEOREM TypeCorrect == Spec => []TypeOK
<1>1. Init => TypeOK
  BY TypeInit
<1>2. TypeOK /\ [Next]_vars => TypeOK'
  BY TypeStep
<1> QED
  BY <1>1, <1>2, PTL DEF Spec

-----------------------------------------------------------------------------
(* A running hand is whole *)

LEMMA HandStill ==
  ASSUME HandInv, UNCHANGED vars
  PROVE  HandInv'
<1>1. UNCHANGED <<status, entrants, at, stack, bet, dealtIn, dealing, expected>>
  OBVIOUS
<1>2. UNCHANGED <<doing, onTable, todo>>
  BY DEF agenda
<1>3. InHandSeated' /\ MoneyInHand' /\ BrokeInHand' /\ HandsPeopled'
  BY <1>1 DEF HandInv, HandIsWhole, InHandSeated, MoneyInHand, BrokeInHand, HandsPeopled, InHand
<1>4. OutsideEmpty' /\ EnteredOnly' /\ NotStarted' /\ HandlerFree'
  BY <1>1, <1>2 DEF HandInv, OutsideEmpty, EnteredOnly, NotStarted, HandlerFree
<1> QED
  BY <1>3, <1>4 DEF HandInv, HandIsWhole

LEMMA HandStep ==
  ASSUME TypeOK, HandInv, [Next]_vars
  PROVE  HandInv'
<1>0. CASE UNCHANGED vars
  BY <1>0, HandStill
<1>1. ASSUME NEW p \in Person, Register(p) PROVE HandInv'
  BY <1>1, HandRegister
<1>2. ASSUME NEW p \in Person, Unregister(p) PROVE HandInv'
  BY <1>2, HandRegister
<1>3. ASSUME NEW p \in Person, RegisterLate(p) PROVE HandInv'
  BY <1>3, HandRegisterLate
<1>4. ASSUME NEW p \in Person, Reenter(p) PROVE HandInv'
  BY <1>4, HandReenter
<1>5. ASSUME NEW p \in Person, TakeAddOn(p) PROVE HandInv'
  BY <1>5, HandTakeAddOn
<1>6. ASSUME NEW p \in Person, RemoveFromPlay(p) PROVE HandInv'
  BY <1>6, HandRemoveFromPlay
<1>7. ASSUME NEW p \in Person, Reconnect(p) PROVE HandInv'
  BY <1>7, HandReconnect
<1>8. ASSUME NEW p \in Person, ApplyRemoval(p) PROVE HandInv'
  BY <1>8, HandApplyRemoval
<1>9. ASSUME NEW p \in Person, ApplyAddOn(p) PROVE HandInv'
  BY <1>9, HandApplyAddOn
<1>10. ASSUME NEW p \in Person, ApplyMove(p) PROVE HandInv'
  BY <1>10, HandApplyMove
<1>11. ASSUME NEW p \in Person, CarryOff(p) PROVE HandInv'
  BY <1>11, HandCarryOff
<1>12. ASSUME NEW t \in Table, BeginBreak(t) PROVE HandInv'
  BY <1>12, HandBeginBreak
<1>13. ASSUME NEW t \in Table, Collapse(t) PROVE HandInv'
  BY <1>13, HandCollapse
<1>14. ASSUME NEW t \in Table, Deal(t) PROVE HandInv'
  BY <1>14, HandDeal
<1>15. ASSUME NEW t \in Table, EndHand(t) PROVE HandInv'
  BY <1>15, HandEndHand
<1>16. ASSUME NEW t \in Table, Rested(t) PROVE HandInv'
  BY <1>16, HandRested
<1>17. CASE Start
  BY <1>17, HandStart
<1>18. CASE LevelUp
  BY <1>18, HandLevelUp
<1>19. CASE Hold
  BY <1>19, HandHold
<1>20. CASE QueuedDone
  BY <1>20, HandQueuedDone
<1>21. CASE Finish
  BY <1>21, HandFinish
<1>22. CASE PlayOn
  BY <1>22, HandPlayOn
<1>23. CASE MovesDone
  BY <1>23, HandMovesDone
<1>24. CASE NoBreak
  BY <1>24, HandNoBreak
<1>25. CASE Emptied
  BY <1>25, HandEmptied
<1>26. CASE Balanced
  BY <1>26, HandBalanced
<1>27. CASE Collapsed
  BY <1>27, HandCollapsed
<1>28. CASE Sweep
  BY <1>28, HandSweep
<1>29. CASE TickMovesDone
  BY <1>29, HandTickMovesDone
<1>30. CASE DealtAll
  BY <1>30, HandDealtAll
<1>31. CASE Tick
  BY <1>31, HandTick
<1>32. ASSUME NEW i \in Row, StepLevel(i) PROVE HandInv'
  BY <1>32, HandStepLevel
<1>33. ASSUME NEW p \in Person, NEW t \in Table, RequestMove(p, t) PROVE HandInv'
  BY <1>33, HandRequestMove
<1>34. ASSUME NEW p \in Person, NEW t \in Table, Balance(p, t) PROVE HandInv'
  BY <1>34, HandBalance
<1>35. ASSUME NEW p \in Person, NEW n \in 1..stack[p], Wager(p, n) PROVE HandInv'
  BY <1>35, HandWager
<1>36. CASE Ask
  BY <1>36, <1>1, <1>2, <1>3, <1>4, <1>5, <1>6, <1>7, <1>33, <1>35, <1>17, <1>18,
     <1>19, <1>32 DEF Ask
<1>37. CASE Follow
  BY <1>37, <1>20, <1>21, <1>22, <1>23, <1>24, <1>25, <1>26, <1>27, <1>28, <1>29,
     <1>30, <1>8, <1>9, <1>10, <1>11, <1>34, <1>12, <1>13, <1>14 DEF Follow
<1> QED
  BY <1>0, <1>36, <1>37, <1>31, <1>15, <1>16 DEF Next

LEMMA HandInit ==
  ASSUME Init
  PROVE  HandInv
<1>1. /\ dealtIn = {} /\ dealing = {} /\ expected = 0 /\ doing = "idle"
      /\ \A p \in Person : at[p] = Nowhere /\ stack[p] = 0 /\ bet[p] = 0
  BY DEF Init
<1> QED
  BY <1>1 DEF HandInv, HandIsWhole, InHandSeated, MoneyInHand, BrokeInHand, HandsPeopled,
     OutsideEmpty, EnteredOnly, NotStarted, HandlerFree

Inv == TypeOK /\ HandInv

LEMMA InvHolds == Spec => []Inv
<1>1. Init => Inv
  BY TypeInit, HandInit DEF Inv
<1>2. Inv /\ [Next]_vars => Inv'
  BY TypeStep, HandStep DEF Inv
<1> QED
  BY <1>1, <1>2, PTL DEF Spec

\* No table break, no move of the host's or the balancer's, no removal and no
\* late entry ever takes a player, or a chip in the pot, out of a hand that is
\* being played (director.js defers all of them to the end of the hand).
THEOREM HandsAreWhole == Spec => []HandIsWhole
<1>1. Inv => HandIsWhole
  BY DEF Inv, HandInv
<1> QED
  BY <1>1, InvHolds, PTL

-----------------------------------------------------------------------------
(* No chip is lost or made *)

LEMMA ChipsStay ==
  ASSUME ChipConservation, UNCHANGED <<stack, bet, expected>>
  PROVE  ChipConservation'
BY DEF ChipConservation

\* Stacks and bets are holdings that can be added up, before a step and after.
LEMMA HoldingsType ==
  ASSUME TypeOK
  PROVE  stack \in [1..N -> Int] /\ bet \in [1..N -> Int]
BY DEF TypeOK

LEMMA HoldingsTypeNext ==
  ASSUME TypeOK'
  PROVE  stack' \in [1..N -> Int] /\ bet' \in [1..N -> Int]
<1>1. stack' \in [1..N -> Nat] /\ bet' \in [1..N -> Nat]
  BY DEF TypeOK
<1> QED
  BY <1>1

LEMMA FieldBalance ==
  \A a, b, c, d \in [1..N -> Int] :
    Balances(a, b, c, d, N) => Total(a, N) + Total(b, N) = Total(c, N) + Total(d, N)
<1>1. N \in Nat
  BY SizesAssumption
<1> QED
  BY <1>1, TotalBalance

LEMMA TotalWhole ==
  ASSUME NEW f \in [1..N -> Int]
  PROVE  Total(f, N) \in Int
<1>1. N \in Nat /\ N \in 0..N
  BY SizesAssumption
<1> QED
  BY <1>1, TotalType

\* One stack changes, and the field answers for the difference.
LEMMA ChipsAnswered ==
  ASSUME TypeOK, ChipConservation, NEW p \in Person, NEW v \in Nat,
         stack' = [stack EXCEPT ![p] = v], expected' = expected + v - stack[p],
         UNCHANGED bet
  PROVE  ChipConservation'
<1>1. N \in Nat /\ stack \in [1..N -> Int] /\ bet \in [1..N -> Int] /\ stack[p] \in Int
  BY SizesAssumption DEF TypeOK
<1>2. Total(stack', N) = Total(stack, N) - stack[p] + v
  <2>1. v \in Int /\ p \in 1..N
    OBVIOUS
  <2>2. Total([stack EXCEPT ![p] = v], N) = Total(stack, N) - stack[p] + v
    BY <1>1, <2>1, TotalUpdate
  <2> QED
    BY <2>2
<1>3. Total(stack, N) \in Int /\ Total(bet, N) \in Int
  BY <1>1, TotalWhole
<1>4. Total(stack, N) + Total(bet, N) = expected
  BY DEF ChipConservation
<1>5. Total(stack', N) + Total(bet, N) = expected'
  BY <1>1, <1>2, <1>3, <1>4
<1> QED
  BY <1>5 DEF ChipConservation

LEMMA ChipsSeat ==
  ASSUME Inv, ChipConservation, NEW p \in Person, at[p] = Nowhere, TakeSeat(p), UNCHANGED bet
  PROVE  ChipConservation'
<1>1. TypeOK /\ stack[p] = 0 /\ StartChips \in Nat /\ expected \in Int
  BY SizesAssumption DEF Inv, HandInv, OutsideEmpty, TypeOK
<1>2. stack' = [stack EXCEPT ![p] = StartChips] /\ expected' = expected + StartChips - stack[p]
  BY <1>1 DEF TakeSeat
<1> QED
  BY <1>1, <1>2, ChipsAnswered

LEMMA ChipsLeave ==
  ASSUME Inv, ChipConservation, NEW p \in Person, TakeOutOfPlay(p), UNCHANGED bet
  PROVE  ChipConservation'
<1>1. TypeOK /\ stack[p] \in Nat /\ expected \in Int
  BY DEF Inv, TypeOK
<1>2. stack' = [stack EXCEPT ![p] = 0] /\ expected' = expected + 0 - stack[p]
  BY <1>1 DEF TakeOutOfPlay
<1> QED
  BY <1>1, <1>2, ChipsAnswered

LEMMA ChipsTopUp ==
  ASSUME Inv, ChipConservation, NEW p \in Person,
         stack' = [stack EXCEPT ![p] = @ + StartChips], expected' = expected + StartChips,
         UNCHANGED bet
  PROVE  ChipConservation'
<1>1. TypeOK /\ stack[p] \in Nat /\ expected \in Int /\ StartChips \in Nat
  BY SizesAssumption DEF Inv, TypeOK
<1>2. stack[p] + StartChips \in Nat
  BY <1>1
<1>3. expected' = expected + (stack[p] + StartChips) - stack[p]
  BY <1>1
<1>4. stack' = [stack EXCEPT ![p] = stack[p] + StartChips]
  OBVIOUS
<1> QED
  BY <1>1, <1>2, <1>3, <1>4, ChipsAnswered

\* The start hands out as many stacks as there are entrants.
LEMMA ChipsStart ==
  ASSUME Inv, ChipConservation, Start
  PROVE  ChipConservation'
<1>1. /\ stack' = [p \in 1..N |-> IF p \in entrants THEN StartChips ELSE 0]
      /\ expected' = StartChips * Cardinality(entrants) /\ bet' = bet
  BY DEF Start
<1>2. N \in Nat /\ entrants \in SUBSET (1..N) /\ StartChips \in Int /\ Cardinality(entrants) \in Nat
  BY SizesAssumption, FiniteGroup DEF Inv, TypeOK
<1>3. Total(stack', N) = StartChips * Cardinality(entrants)
  BY <1>1, <1>2, TotalShare
<1>4. \A p \in 1..N : bet[p] = 0
  <2>1. dealtIn = {}
    BY DEF Start, Inv, HandInv, NotStarted
  <2>2. \A p \in Person : bet[p] \in Nat /\ (bet[p] > 0 => p \in dealtIn)
    BY DEF Inv, HandInv, HandIsWhole, MoneyInHand, TypeOK
  <2> QED
    BY <2>1, <2>2
<1>5. Total(bet, N) = 0
  <2>1. N \in 0..N
    BY <1>2
  <2> QED
    BY <1>2, <1>4, <2>1, TotalZero
<1>6. Total(stack', N) + Total(bet', N) = expected'
  BY <1>1, <1>2, <1>3, <1>5
<1> QED
  BY <1>6 DEF ChipConservation

\* Chips that go in from one's own stack, one by one or at the deal.
LEMMA ChipsIn ==
  ASSUME TypeOK, TypeOK', ChipConservation, UNCHANGED expected,
         \A p \in Person : stack'[p] + bet'[p] = stack[p] + bet[p]
  PROVE  ChipConservation'
<1>1. /\ stack \in [1..N -> Int] /\ bet \in [1..N -> Int]
      /\ stack' \in [1..N -> Int] /\ bet' \in [1..N -> Int]
  BY HoldingsType, HoldingsTypeNext
<1>2. Balances(stack', bet', stack, bet, N)
  BY DEF Balances
<1>3. Total(stack', N) + Total(bet', N) = Total(stack, N) + Total(bet, N)
  BY <1>1, <1>2, FieldBalance
<1> QED
  BY <1>3 DEF ChipConservation

LEMMA ChipsWager ==
  ASSUME TypeOK, TypeOK', ChipConservation, NEW p \in Person, NEW n \in 1..stack[p], Wager(p, n)
  PROVE  ChipConservation'
<1>1. ASSUME NEW q \in Person
      PROVE  stack'[q] + bet'[q] = stack[q] + bet[q]
  <2>1. stack[q] \in Nat /\ bet[q] \in Nat /\ stack[p] \in Nat
    BY DEF TypeOK
  <2>2. CASE q = p
    <3>1. stack'[p] = stack[p] - n /\ bet'[p] = bet[p] + n
      BY DEF TypeOK, Wager
    <3> QED
      BY <2>1, <2>2, <3>1
  <2>3. CASE q # p
    <3>1. stack'[q] = stack[q] /\ bet'[q] = bet[q]
      BY <2>3 DEF TypeOK, Wager
    <3> QED
      BY <3>1
  <2> QED
    BY <2>2, <2>3
<1>2. UNCHANGED expected
  BY DEF Wager
<1> QED
  BY <1>1, <1>2, ChipsIn

LEMMA ChipsDeal ==
  ASSUME Inv, TypeOK', ChipConservation, NEW t \in Table, Deal(t)
  PROVE  ChipConservation'
<1>1. TypeOK
  BY DEF Inv
<1>2. \A p \in Stacked(t) : bet[p] = 0
  <2>1. t \notin dealing
    BY DEF Deal, CanStartHand
  <2>2. \A p \in Stacked(t) : p \in Person /\ p \notin dealtIn
    BY <2>1 DEF Stacked, Seats, Inv, HandInv, HandIsWhole, InHandSeated
  <2> QED
    BY <1>1, <2>2, SMTT(30) DEF Inv, HandInv, HandIsWhole, MoneyInHand, TypeOK
<1>3. PICK post \in [Stacked(t) -> 0..Forced] :
        /\ stack' = [p \in Person |-> IF p \in Stacked(t) THEN stack[p] - post[p] ELSE stack[p]]
        /\ bet' = [p \in Person |-> IF p \in Stacked(t) THEN post[p] ELSE bet[p]]
  BY DEF Deal
<1>4. ASSUME NEW q \in Person
      PROVE  stack'[q] + bet'[q] = stack[q] + bet[q]
  <2>1. stack[q] \in Nat /\ bet[q] \in Nat
    BY <1>1 DEF TypeOK
  <2>2. CASE q \in Stacked(t)
    <3>1. post[q] \in Int /\ bet[q] = 0
      BY <1>2, <2>2, SizesAssumption
    <3>2. stack'[q] = stack[q] - post[q] /\ bet'[q] = post[q]
      BY <1>3, <2>2
    <3> QED
      BY <2>1, <3>1, <3>2
  <2>3. CASE q \notin Stacked(t)
    BY <1>3, <2>3
  <2> QED
    BY <2>2, <2>3
<1>5. UNCHANGED expected
  BY DEF Deal
<1> QED
  BY <1>1, <1>4, <1>5, ChipsIn

\* The pot leaves the bets and is on the stacks, however it is shared.
LEMMA ChipsEndHand ==
  ASSUME TypeOK, TypeOK', ChipConservation, NEW t \in Table, EndHand(t)
  PROVE  ChipConservation'
<1>1. PICK win \in Payouts(t) :
        stack' = [p \in Person |-> IF p \in InHand(t) THEN stack[p] + win[p] ELSE stack[p]]
  BY DEF EndHand
<1> DEFINE won  == [p \in 1..N |-> IF p \in InHand(t) THEN win[p] ELSE 0]
           put  == [p \in 1..N |-> IF p \in InHand(t) THEN bet[p] ELSE 0]
           none == [p \in 1..N |-> 0]
<1>2. bet' = [p \in Person |-> IF p \in InHand(t) THEN 0 ELSE bet[p]] /\ expected' = expected
  BY DEF EndHand
<1>3. Total(won, N) = Pot(t) /\ Pot(t) = Total(put, N)
  BY DEF Payouts, Pot
<1>4. /\ N \in Nat /\ stack \in [1..N -> Int] /\ bet \in [1..N -> Int]
      /\ stack' \in [1..N -> Int] /\ bet' \in [1..N -> Int]
  BY SizesAssumption, HoldingsType, HoldingsTypeNext
<1>5. win \in [InHand(t) -> Int]
  BY DEF Payouts
<1>6. won \in [1..N -> Int] /\ put \in [1..N -> Int] /\ none \in [1..N -> Int]
  BY <1>4, <1>5
<1>7. \A p \in 1..N : /\ stack'[p] + none[p] = stack[p] + won[p]
                      /\ bet'[p] + put[p] = bet[p] + none[p]
  BY <1>1, <1>2, <1>4, <1>5
<1>8. Total(none, N) = 0
  <2>1. \A p \in 1..N : none[p] = 0
    OBVIOUS
  <2> HIDE DEF none
  <2>2. N \in 0..N
    BY <1>4
  <2> QED
    BY <1>4, <2>1, <2>2, TotalZero
<1> HIDE DEF won, put, none
<1>12. Balances(stack', none, stack, won, N) /\ Balances(bet', put, bet, none, N)
  BY <1>7 DEF Balances
<1>9. /\ Total(stack', N) + Total(none, N) = Total(stack, N) + Total(won, N)
      /\ Total(bet', N) + Total(put, N) = Total(bet, N) + Total(none, N)
  <2>1. Total(stack', N) + Total(none, N) = Total(stack, N) + Total(won, N)
    <3>1. /\ stack' \in [1..N -> Int] /\ none \in [1..N -> Int]
          /\ stack \in [1..N -> Int] /\ won \in [1..N -> Int]
      BY <1>4, <1>6
    <3>2. Balances(stack', none, stack, won, N)
      BY <1>12
    <3> QED
      BY ONLY <3>1, <3>2, FieldBalance
  <2>2. Total(bet', N) + Total(put, N) = Total(bet, N) + Total(none, N)
    <3>1. /\ bet' \in [1..N -> Int] /\ put \in [1..N -> Int]
          /\ bet \in [1..N -> Int] /\ none \in [1..N -> Int]
      BY <1>4, <1>6
    <3>2. Balances(bet', put, bet, none, N)
      BY <1>12
    <3> QED
      BY ONLY <3>1, <3>2, FieldBalance
  <2> QED
    BY <2>1, <2>2
<1>10. /\ Total(stack, N) \in Int /\ Total(bet, N) \in Int /\ Total(won, N) \in Int
       /\ Total(stack', N) \in Int /\ Total(bet', N) \in Int
  BY <1>4, <1>6, TotalWhole
<1>11. Total(stack', N) + Total(bet', N) = Total(stack, N) + Total(bet, N)
  BY <1>3, <1>8, <1>9, <1>10
<1> QED
  BY <1>2, <1>11 DEF ChipConservation

LEMMA ChipsStep ==
  ASSUME Inv, TypeOK', ChipConservation, [Next]_vars
  PROVE  ChipConservation'
<1> TypeOK
  BY DEF Inv
<1>0. CASE UNCHANGED vars
  <2>1. UNCHANGED <<stack, bet, expected>>
    BY <1>0
  <2> QED
    BY <2>1, ChipsStay
<1>1. ASSUME NEW p \in Person, Register(p) PROVE ChipConservation'
  BY <1>1, ChipsStay DEF Register
<1>2. ASSUME NEW p \in Person, Unregister(p) PROVE ChipConservation'
  BY <1>2, ChipsStay DEF Unregister
<1>3. ASSUME NEW p \in Person, RegisterLate(p) PROVE ChipConservation'
  BY <1>3, ChipsSeat DEF RegisterLate, Inv, HandInv, EnteredOnly
<1>4. ASSUME NEW p \in Person, Reenter(p) PROVE ChipConservation'
  BY <1>4, ChipsSeat DEF Reenter
<1>5. ASSUME NEW p \in Person, TakeAddOn(p) PROVE ChipConservation'
  BY <1>5, ChipsStay, ChipsTopUp DEF TakeAddOn
<1>6. ASSUME NEW p \in Person, RemoveFromPlay(p) PROVE ChipConservation'
  BY <1>6, ChipsStay, ChipsLeave DEF RemoveFromPlay
<1>7. ASSUME NEW p \in Person, Reconnect(p) PROVE ChipConservation'
  BY <1>7, ChipsStay DEF Reconnect
<1>8. ASSUME NEW p \in Person, ApplyRemoval(p) PROVE ChipConservation'
  BY <1>8, ChipsLeave DEF ApplyRemoval
<1>9. ASSUME NEW p \in Person, ApplyAddOn(p) PROVE ChipConservation'
  BY <1>9, ChipsTopUp DEF ApplyAddOn
<1>10. ASSUME NEW p \in Person, ApplyMove(p) PROVE ChipConservation'
  BY <1>10, ChipsStay DEF ApplyMove
<1>11. ASSUME NEW p \in Person, CarryOff(p) PROVE ChipConservation'
  BY <1>11, ChipsStay DEF CarryOff
<1>12. ASSUME NEW t \in Table, BeginBreak(t) PROVE ChipConservation'
  BY <1>12, ChipsStay DEF BeginBreak
<1>13. ASSUME NEW t \in Table, Collapse(t) PROVE ChipConservation'
  BY <1>13, ChipsStay DEF Collapse
<1>14. ASSUME NEW t \in Table, Deal(t) PROVE ChipConservation'
  BY <1>14, ChipsDeal
<1>15. ASSUME NEW t \in Table, EndHand(t) PROVE ChipConservation'
  BY <1>15, ChipsEndHand
<1>16. ASSUME NEW t \in Table, Rested(t) PROVE ChipConservation'
  BY <1>16, ChipsStay DEF Rested
<1>17. CASE Start
  BY <1>17, ChipsStart
<1>18. CASE LevelUp
  BY <1>18, ChipsStay DEF LevelUp
<1>19. CASE Hold
  BY <1>19, ChipsStay DEF Hold
<1>20. CASE QueuedDone
  BY <1>20, ChipsStay DEF QueuedDone
<1>21. CASE Finish
  BY <1>21, ChipsStay DEF Finish
<1>22. CASE PlayOn
  BY <1>22, ChipsStay DEF PlayOn
<1>23. CASE MovesDone
  BY <1>23, ChipsStay DEF MovesDone
<1>24. CASE NoBreak
  BY <1>24, ChipsStay DEF NoBreak
<1>25. CASE Emptied
  BY <1>25, ChipsStay DEF Emptied
<1>26. CASE Balanced
  BY <1>26, ChipsStay DEF Balanced
<1>27. CASE Collapsed
  BY <1>27, ChipsStay DEF Collapsed
<1>28. CASE Sweep
  BY <1>28, ChipsStay DEF Sweep
<1>29. CASE TickMovesDone
  BY <1>29, ChipsStay DEF TickMovesDone
<1>30. CASE DealtAll
  BY <1>30, ChipsStay DEF DealtAll
<1>31. CASE Tick
  BY <1>31, ChipsStay DEF Tick
<1>32. ASSUME NEW i \in Row, StepLevel(i) PROVE ChipConservation'
  BY <1>32, ChipsStay DEF StepLevel
<1>33. ASSUME NEW p \in Person, NEW t \in Table, RequestMove(p, t) PROVE ChipConservation'
  BY <1>33, ChipsStay DEF RequestMove
<1>34. ASSUME NEW p \in Person, NEW t \in Table, Balance(p, t) PROVE ChipConservation'
  BY <1>34, ChipsStay DEF Balance
<1>35. ASSUME NEW p \in Person, NEW n \in 1..stack[p], Wager(p, n) PROVE ChipConservation'
  BY <1>35, ChipsWager
<1>36. CASE Ask
  BY <1>36, <1>1, <1>2, <1>3, <1>4, <1>5, <1>6, <1>7, <1>33, <1>35, <1>17, <1>18,
     <1>19, <1>32 DEF Ask
<1>37. CASE Follow
  BY <1>37, <1>20, <1>21, <1>22, <1>23, <1>24, <1>25, <1>26, <1>27, <1>28, <1>29,
     <1>30, <1>8, <1>9, <1>10, <1>11, <1>34, <1>12, <1>13, <1>14 DEF Follow
<1> QED
  BY <1>0, <1>36, <1>37, <1>31, <1>15, <1>16 DEF Next

\* Whatever the order of entries, add-ons, moves, removals and hands, the chips
\* on the felt are the chips the field answers for: assertChipConservation of
\* director.js never throws.
THEOREM ChipsAreConserved == Spec => []ChipConservation
<1>1. Init => ChipConservation
  <2>1. ASSUME Init
        PROVE  /\ \A p \in 1..N : stack[p] = 0 /\ bet[p] = 0
               /\ expected = 0 /\ N \in Nat /\ N \in 0..N
    BY <2>1, SizesAssumption DEF Init
  <2>2. ASSUME Init
        PROVE  Total(stack, N) = 0 /\ Total(bet, N) = 0
    BY <2>1, <2>2, TotalZero
  <2> QED
    BY <2>1, <2>2 DEF ChipConservation
<1>2. Inv /\ Inv' /\ ChipConservation /\ [Next]_vars => ChipConservation'
  BY ChipsStep DEF Inv
<1> QED
  BY <1>1, <1>2, InvHolds, PTL DEF Spec

-----------------------------------------------------------------------------
(* The seats of a running hand *)

LEMMA StandStill ==
  ASSUME UNCHANGED <<at, dealtIn>>
  PROVE  SeatsStand
BY DEF SeatsStand, Seats, InHand

\* Somebody in no hand changes seats, to a table that is not dealing, or comes
\* from outside.
LEMMA StandMoved ==
  ASSUME Inv, NEW p \in Person, NEW u, at' = [at EXCEPT ![p] = u],
         at[p] \notin dealing, u \notin dealing \/ at[p] = Nowhere, UNCHANGED dealtIn
  PROVE  SeatsStand
<1>1. p \notin dealtIn
  BY DEF Inv, HandInv, HandIsWhole, InHandSeated
<1>2. \A q \in Person : q # p => at'[q] = at[q]
  BY DEF Inv, TypeOK
<1>3. at'[p] = u
  BY DEF Inv, TypeOK
<1>4. dealtIn \subseteq Person
  BY DEF Inv, TypeOK
<1> QED
  BY <1>1, <1>2, <1>3, <1>4 DEF SeatsStand, Seats, InHand

LEMMA StandSeat ==
  ASSUME Inv, NEW p \in Person, at[p] = Nowhere, TakeSeat(p), UNCHANGED dealtIn
  PROVE  SeatsStand
<1>1. at' = [at EXCEPT ![p] = at'[p]]
  BY SeatTaken DEF Inv
<1>2. at[p] \notin dealing
  BY DEF Inv, TypeOK
<1> QED
  BY <1>1, <1>2, StandMoved

LEMMA StandStart ==
  ASSUME Inv, Start
  PROVE  SeatsStand
<1>1. dealing = {}
  BY DEF Start, Inv, HandInv, NotStarted
<1> QED
  BY <1>1 DEF SeatsStand

LEMMA StandDeal ==
  ASSUME Inv, NEW t \in Table, Deal(t)
  PROVE  SeatsStand
<1>1. at' = at /\ dealtIn' = dealtIn \union Stacked(t) /\ t \notin dealing
  BY DEF Deal, CanStartHand
<1>2. \A p \in Stacked(t) : at[p] = t
  BY DEF Stacked, Seats
<1> QED
  BY <1>1, <1>2 DEF SeatsStand, Seats, InHand

LEMMA StandEndHand ==
  ASSUME Inv, NEW t \in Table, EndHand(t)
  PROVE  SeatsStand
<1>1. dealtIn' = dealtIn \ InHand(t) /\ dealing' = dealing \ {t}
  BY DEF EndHand
<1>2. \A p \in Person : at[p] # t => at'[p] = at[p]
  BY DEF EndHand, Seats
<1>3. \A p \in Person : at[p] = t => at'[p] = t \/ at'[p] = Nowhere
  BY DEF EndHand, Seats
<1>4. \A u \in dealing \intersect dealing' : u # t /\ u # Nowhere
  BY <1>1 DEF Inv, TypeOK
<1>5. dealtIn \subseteq Person
  BY DEF Inv, TypeOK
<1> QED
  BY <1>1, <1>2, <1>3, <1>4, <1>5 DEF SeatsStand, Seats, InHand

LEMMA StandCarryOff ==
  ASSUME Inv, NEW p \in Person, CarryOff(p)
  PROVE  SeatsStand
<1>1. at[p] \notin dealing /\ dealtIn' = dealtIn
  BY DEF CarryOff, Doing, Inv, HandInv, HandlerFree
<1>2. PICK u \in Table : u \notin dealing /\ at' = [at EXCEPT ![p] = u]
  BY DEF CarryOff, IsFewest, Rooms
<1> QED
  BY <1>1, <1>2, StandMoved

LEMMA StandCollapse ==
  ASSUME Inv, NEW t \in Table, Collapse(t)
  PROVE  SeatsStand
<1>1. t \notin dealing /\ dealtIn' = dealtIn
  BY DEF Collapse, CanCollapse
<1>2. PICK p \in Stacked(t), u \in Table : u \notin dealing /\ at' = [at EXCEPT ![p] = u]
  BY DEF Collapse, IsFewest, Refuge
<1>3. p \in Person /\ at[p] = t
  BY DEF Stacked, Seats
<1> QED
  BY <1>1, <1>2, <1>3, StandMoved

LEMMA StandApplyMove ==
  ASSUME Inv, NEW p \in Person, ApplyMove(p)
  PROVE  SeatsStand
<1>1. dealtIn' = dealtIn
  BY DEF ApplyMove
<1>2. CASE UNCHANGED at
  BY <1>1, <1>2, StandStill
<1>3. CASE {at[p], moves[p]} \intersect dealing = {} /\ at' = [at EXCEPT ![p] = moves[p]]
  BY <1>1, <1>3, StandMoved
<1> QED
  BY <1>2, <1>3 DEF ApplyMove

LEMMA StandRequestMove ==
  ASSUME Inv, NEW p \in Person, NEW t \in Table, RequestMove(p, t)
  PROVE  SeatsStand
<1>1. dealtIn' = dealtIn
  BY DEF RequestMove
<1>2. CASE UNCHANGED at
  BY <1>1, <1>2, StandStill
<1>3. CASE {at[p], t} \intersect dealing = {} /\ at' = [at EXCEPT ![p] = t]
  BY <1>1, <1>3, StandMoved
<1> QED
  BY <1>2, <1>3 DEF RequestMove

LEMMA StandBalance ==
  ASSUME Inv, NEW p \in Person, NEW t \in Table, Balance(p, t)
  PROVE  SeatsStand
<1>1. dealtIn' = dealtIn /\ at' = [at EXCEPT ![p] = t]
  BY DEF Balance
<1>2. at[p] \notin dealing /\ t \notin dealing
  BY DEF Balance, CanBalance
<1> QED
  BY <1>1, <1>2, StandMoved

LEMMA StandRemoveFromPlay ==
  ASSUME Inv, NEW p \in Person, RemoveFromPlay(p)
  PROVE  SeatsStand
<1>1. dealtIn' = dealtIn /\ Nowhere \notin dealing
  BY DEF RemoveFromPlay, Inv, TypeOK
<1>2. CASE UNCHANGED at
  BY <1>1, <1>2, StandStill
<1>3. CASE at[p] \notin dealing /\ at' = [at EXCEPT ![p] = Nowhere]
  BY <1>1, <1>3, StandMoved
<1> QED
  BY <1>2, <1>3 DEF RemoveFromPlay, TakeOutOfPlay

LEMMA StandApplyRemoval ==
  ASSUME Inv, NEW p \in Person, ApplyRemoval(p)
  PROVE  SeatsStand
<1>1. dealtIn' = dealtIn /\ Nowhere \notin dealing
  BY DEF ApplyRemoval, Inv, TypeOK
<1>2. at[p] \notin dealing
  BY DEF ApplyRemoval, Queued, Doing, Leaving, Inv, HandInv, HandlerFree
<1>3. at' = [at EXCEPT ![p] = Nowhere]
  BY DEF ApplyRemoval, TakeOutOfPlay
<1> QED
  BY <1>1, <1>2, <1>3, StandMoved

LEMMA StandStep ==
  ASSUME Inv, [Next]_vars
  PROVE  SeatsStand
<1>0. CASE UNCHANGED vars
  <2>1. UNCHANGED <<at, dealtIn>>
    BY <1>0
  <2> QED
    BY <2>1, StandStill
<1>1. ASSUME NEW p \in Person, Register(p) PROVE SeatsStand
  BY <1>1, StandStill DEF Register
<1>2. ASSUME NEW p \in Person, Unregister(p) PROVE SeatsStand
  BY <1>2, StandStill DEF Unregister
<1>3. ASSUME NEW p \in Person, RegisterLate(p) PROVE SeatsStand
  BY <1>3, StandSeat DEF RegisterLate, Inv, HandInv, EnteredOnly
<1>4. ASSUME NEW p \in Person, Reenter(p) PROVE SeatsStand
  BY <1>4, StandSeat DEF Reenter
<1>5. ASSUME NEW p \in Person, TakeAddOn(p) PROVE SeatsStand
  BY <1>5, StandStill DEF TakeAddOn
<1>6. ASSUME NEW p \in Person, RemoveFromPlay(p) PROVE SeatsStand
  BY <1>6, StandRemoveFromPlay
<1>7. ASSUME NEW p \in Person, Reconnect(p) PROVE SeatsStand
  BY <1>7, StandStill DEF Reconnect
<1>8. ASSUME NEW p \in Person, ApplyRemoval(p) PROVE SeatsStand
  BY <1>8, StandApplyRemoval
<1>9. ASSUME NEW p \in Person, ApplyAddOn(p) PROVE SeatsStand
  BY <1>9, StandStill DEF ApplyAddOn
<1>10. ASSUME NEW p \in Person, ApplyMove(p) PROVE SeatsStand
  BY <1>10, StandApplyMove
<1>11. ASSUME NEW p \in Person, CarryOff(p) PROVE SeatsStand
  BY <1>11, StandCarryOff
<1>12. ASSUME NEW t \in Table, BeginBreak(t) PROVE SeatsStand
  BY <1>12, StandStill DEF BeginBreak
<1>13. ASSUME NEW t \in Table, Collapse(t) PROVE SeatsStand
  BY <1>13, StandCollapse
<1>14. ASSUME NEW t \in Table, Deal(t) PROVE SeatsStand
  BY <1>14, StandDeal
<1>15. ASSUME NEW t \in Table, EndHand(t) PROVE SeatsStand
  BY <1>15, StandEndHand
<1>16. ASSUME NEW t \in Table, Rested(t) PROVE SeatsStand
  BY <1>16, StandStill DEF Rested
<1>17. CASE Start
  BY <1>17, StandStart
<1>18. CASE LevelUp
  BY <1>18, StandStill DEF LevelUp
<1>19. CASE Hold
  BY <1>19, StandStill DEF Hold
<1>20. CASE QueuedDone
  BY <1>20, StandStill DEF QueuedDone
<1>21. CASE Finish
  BY <1>21, StandStill DEF Finish
<1>22. CASE PlayOn
  BY <1>22, StandStill DEF PlayOn
<1>23. CASE MovesDone
  BY <1>23, StandStill DEF MovesDone
<1>24. CASE NoBreak
  BY <1>24, StandStill DEF NoBreak
<1>25. CASE Emptied
  BY <1>25, StandStill DEF Emptied
<1>26. CASE Balanced
  BY <1>26, StandStill DEF Balanced
<1>27. CASE Collapsed
  BY <1>27, StandStill DEF Collapsed
<1>28. CASE Sweep
  BY <1>28, StandStill DEF Sweep
<1>29. CASE TickMovesDone
  BY <1>29, StandStill DEF TickMovesDone
<1>30. CASE DealtAll
  BY <1>30, StandStill DEF DealtAll
<1>31. CASE Tick
  BY <1>31, StandStill DEF Tick
<1>32. ASSUME NEW i \in Row, StepLevel(i) PROVE SeatsStand
  BY <1>32, StandStill DEF StepLevel
<1>33. ASSUME NEW p \in Person, NEW t \in Table, RequestMove(p, t) PROVE SeatsStand
  BY <1>33, StandRequestMove
<1>34. ASSUME NEW p \in Person, NEW t \in Table, Balance(p, t) PROVE SeatsStand
  BY <1>34, StandBalance
<1>35. ASSUME NEW p \in Person, NEW n \in 1..stack[p], Wager(p, n) PROVE SeatsStand
  BY <1>35, StandStill DEF Wager
<1>36. CASE Ask
  BY <1>36, <1>1, <1>2, <1>3, <1>4, <1>5, <1>6, <1>7, <1>33, <1>35, <1>17, <1>18,
     <1>19, <1>32 DEF Ask
<1>37. CASE Follow
  BY <1>37, <1>20, <1>21, <1>22, <1>23, <1>24, <1>25, <1>26, <1>27, <1>28, <1>29,
     <1>30, <1>8, <1>9, <1>10, <1>11, <1>34, <1>12, <1>13, <1>14 DEF Follow
<1> QED
  BY <1>0, <1>36, <1>37, <1>31, <1>15, <1>16 DEF Next

\* However the host, the balancer and the removals interleave with the hands,
\* every step leaves the seats of every running hand standing: the isRunning
\* guards of director.js are enough.
THEOREM SeatsAlwaysStand == Spec => SeatsStandWhileDealing
<1>1. Inv /\ [Next]_vars => [SeatsStand]_vars
  BY StandStep
<1> QED
  BY <1>1, InvHolds, PTL DEF Spec, SeatsStandWhileDealing

-----------------------------------------------------------------------------
(* Counting people *)

LEMMA Fewer ==
  ASSUME NEW S \in SUBSET Person, NEW T \in SUBSET S
  PROVE  Cardinality(T) <= Cardinality(S) /\ (T # S => Cardinality(T) < Cardinality(S))
<1>1. IsFiniteSet(S) /\ Cardinality(S) \in Nat /\ Cardinality(T) \in Nat
  BY FiniteGroup
<1>2. Cardinality(T) <= Cardinality(S) /\ (Cardinality(S) = Cardinality(T) => S = T)
  BY <1>1, FS_Subset
<1> QED
  BY <1>1, <1>2

LEMMA OneMore ==
  ASSUME NEW S \in SUBSET Person, NEW p \in Person
  PROVE  Cardinality(S \union {p}) <= Cardinality(S) + 1
<1>1. IsFiniteSet(S) /\ Cardinality(S) \in Nat
  BY FiniteGroup
<1>2. Cardinality(S \union {p}) = IF p \in S THEN Cardinality(S) ELSE Cardinality(S) + 1
  BY <1>1, FS_AddElement
<1> QED
  BY <1>1, <1>2

LEMMA SeatsAreFew ==
  ASSUME NEW t
  PROVE  /\ Seats(t) \in SUBSET Person /\ IsFiniteSet(Seats(t)) /\ Count(t) \in Nat
         /\ Count(t) = 0 <=> Seats(t) = {}
<1>1. Seats(t) \in SUBSET Person
  BY DEF Seats
<1>2. IsFiniteSet(Seats(t)) /\ Cardinality(Seats(t)) \in Nat
  BY <1>1, FiniteGroup
<1> QED
  BY <1>1, <1>2, FS_EmptySet DEF Count

-----------------------------------------------------------------------------
(* No table over its size, nobody at a broken one *)

\* What SeatsHold needs to be inductive: tables are broken only once made,
\* none is made before the start, every table has its turn to break, and
\* those still to be carried off a table are those who still sit at it.
TablesInTurn ==
  /\ broken \subseteq Made
  /\ status = "registering" => opened = 0
  /\ \A t \in Made : \E i \in DOMAIN breakOrder : breakOrder[i] = t
Emptying == doing = "emptying" => onTable \in Made /\ Seats(onTable) = todo

SeatInv == SeatsHold /\ TablesInTurn /\ Emptying

\* People get up, or nobody moves, and tables at which nobody sits are broken.
LEMMA SeatsEmpty ==
  ASSUME TypeOK, SeatInv, status' = "registering" => status = "registering",
         \A p \in Person : at'[p] \in {at[p], Nowhere},
         UNCHANGED <<opened, breakOrder>>, broken \subseteq broken',
         \A t \in broken' \ broken : t \in Made /\ Seats(t)' = {},
         Emptying'
  PROVE  SeatInv'
<1>1. \A t \in Table : Seats(t)' \subseteq Seats(t)
  BY DEF Seats
<1>2. ASSUME NEW t \in Table
      PROVE  Count(t)' <= TableSize /\ (t \in broken' \/ t \notin Made' => Seats(t)' = {})
  <2>1. Count(t)' <= Count(t)
    BY <1>1, SeatsAreFew, Fewer DEF Count
  <2>2. Count(t) \in Nat /\ Count(t)' \in Nat /\ Count(t) <= TableSize
    <3>1. Seats(t)' \in SUBSET Person
      BY DEF Seats
    <3>2. Count(t)' \in Nat
      BY <3>1, FiniteGroup DEF Count
    <3> QED
      BY <3>2, SeatsAreFew DEF SeatInv, SeatsHold
  <2>3. t \in broken' \/ t \notin Made' => Seats(t)' = {}
    BY <1>1 DEF SeatInv, SeatsHold, Made
  <2> QED
    BY <2>1, <2>2, <2>3, SizesAssumption
<1>3. TablesInTurn'
  BY DEF SeatInv, TablesInTurn, Made
<1> QED
  BY <1>2, <1>3 DEF SeatInv, SeatsHold

\* Nobody gets up and no table breaks.
LEMMA SeatsStill ==
  ASSUME TypeOK, SeatInv, status' = "registering" => status = "registering",
         UNCHANGED <<at, opened, broken, breakOrder>>,
         doing' = "emptying" => UNCHANGED <<doing, onTable, todo>>
  PROVE  SeatInv'
<1>1. Emptying'
  BY DEF SeatInv, Emptying, Seats, Made
<1> QED
  BY <1>1, SeatsEmpty

\* Somebody sits down at a table that has room, as somebody new or from
\* another table, which may break behind them.
LEMMA SeatsFill ==
  ASSUME TypeOK, SeatInv, status' # "registering",
         NEW p \in Person, NEW t \in Table, at' = [at EXCEPT ![p] = t],
         t \in Made', t \notin broken', Count(t) < TableSize,
         Made \subseteq Made', broken \subseteq broken',
         \A u \in broken' \ broken : u \in Made /\ Seats(u) \subseteq {p},
         \A u \in Made' : \E i \in DOMAIN breakOrder' : breakOrder'[i] = u,
         Emptying'
  PROVE  SeatInv'
<1>1. Seats(t)' = Seats(t) \union {p}
  BY DEF Seats, TypeOK
<1>2. \A u \in Table : u # t => Seats(u)' \subseteq Seats(u) \ {p}
  BY DEF Seats, TypeOK
<1>3. ASSUME NEW u \in Table
      PROVE  Count(u)' <= TableSize /\ (u \in broken' \/ u \notin Made' => Seats(u)' = {})
  <2>1. Count(u) \in Nat /\ Count(u) <= TableSize /\ Seats(u) \in SUBSET Person
    BY SeatsAreFew DEF SeatInv, SeatsHold
  <2>2. Seats(u)' \in SUBSET Person /\ Count(u)' \in Nat
    <3>1. Seats(u)' \in SUBSET Person
      BY DEF Seats
    <3> QED
      BY <3>1, FiniteGroup DEF Count
  <2>3. CASE u = t
    <3>1. Count(u)' <= Count(u) + 1
      BY <1>1, <2>1, <2>3, OneMore DEF Count
    <3> QED
      BY <3>1, <2>1, <2>2, <2>3, SizesAssumption
  <2>4. CASE u # t
    <3>1. Seats(u)' \subseteq Seats(u) /\ p \notin Seats(u)'
      BY <1>2, <2>4
    <3>2. Count(u)' <= Count(u)
      BY <2>1, <3>1, Fewer DEF Count
    <3>3. u \in broken' \/ u \notin Made' => Seats(u)' = {}
      BY <3>1 DEF SeatInv, SeatsHold
    <3> QED
      BY <3>2, <3>3, <2>1, <2>2, SizesAssumption
  <2> QED
    BY <2>3, <2>4
<1>4. TablesInTurn'
  BY DEF SeatInv, TablesInTurn
<1> QED
  BY <1>3, <1>4 DEF SeatInv, SeatsHold

-----------------------------------------------------------------------------
(* The draw *)

LEMMA Quotients ==
  ASSUME NEW x \in Nat, NEW d \in Nat \ {0}
  PROVE  /\ x \div d \in Nat /\ x % d \in 0..(d - 1)
         /\ x = d * (x \div d) + (x % d)
OBVIOUS

\* There are tables enough for the field.
LEMMA RoomForAll ==
  ASSUME NEW n \in Nat \ {0}
  PROVE  TablesFor(n) \in Nat \ {0} /\ n <= TableSize * TablesFor(n)
<1>1. TableSize \in Nat \ {0} /\ n + TableSize - 1 \in Nat /\ n + TableSize - 1 >= TableSize
  BY SizesAssumption
<1> DEFINE T == (n + TableSize - 1) \div TableSize
           r == (n + TableSize - 1) % TableSize
<1>2. T \in Nat /\ r \in 0..(TableSize - 1) /\ n + TableSize - 1 = TableSize * T + r
  BY <1>1, Quotients
<1> HIDE DEF T, r
<1>3. TableSize * T \in Nat
  BY <1>1, <1>2
<1>4. n <= TableSize * T
  BY <1>1, <1>2, <1>3
<1>5. T # 0
  <2>1. SUFFICES ASSUME T = 0 PROVE FALSE
    OBVIOUS
  <2>2. TableSize * T = 0
    BY <1>1, <2>1
  <2> QED
    BY <1>4, <2>2
<1> QED
  BY <1>2, <1>4, <1>5 DEF TablesFor, T

\* Dealt round the tables, nobody is more than a table holds.
LEMMA DealtRound ==
  ASSUME NEW n \in Nat \ {0}, NEW t \in 1..TablesFor(n)
  PROVE  Cardinality({j \in 0..(n - 1) : j % TablesFor(n) = t - 1}) <= TableSize
<1> DEFINE T == TablesFor(n)
           S == {j \in 0..(n - 1) : j % T = t - 1}
           f == [j \in S |-> j \div T]
<1>1. T \in Nat \ {0} /\ n <= TableSize * T /\ TableSize \in Nat
  BY RoomForAll, SizesAssumption
<1> HIDE DEF T
<1>2. ASSUME NEW j \in S
      PROVE  /\ j \in Nat /\ j < n /\ j \div T \in 0..(TableSize - 1)
             /\ j = T * (j \div T) + (t - 1)
  <2>1. j \in Nat /\ j < n /\ j % T = t - 1
    OBVIOUS
  <2> DEFINE q == j \div T
  <2>2. q \in Nat /\ j = T * q + (t - 1) /\ t - 1 \in Nat
    <3>1. q \in Nat /\ j = T * q + (j % T)
      BY <1>1, <2>1, Quotients
    <3>2. t \in 1..T
      BY DEF T
    <3> QED
      BY <1>1, <2>1, <3>1, <3>2
  <2> HIDE DEF q
  <2>3. q < TableSize
    <3>1. SUFFICES ASSUME q >= TableSize PROVE FALSE
      BY <1>1, <2>2
    <3>2. T * q >= TableSize * T
      BY <1>1, <2>2, <3>1
    <3> QED
      BY <1>1, <2>1, <2>2, <3>2
  <2> QED
    BY <1>1, <2>1, <2>2, <2>3 DEF q
<1>3. f \in Injection(S, 0..(TableSize - 1))
  <2>1. f \in [S -> 0..(TableSize - 1)]
    BY <1>2
  <2>2. ASSUME NEW i \in S, NEW j \in S, f[i] = f[j] PROVE i = j
    BY <1>2, <2>2
  <2> QED
    BY <2>1, <2>2 DEF Injection, IsInjective
<1>4. IsFiniteSet(0..(TableSize - 1)) /\ Cardinality(0..(TableSize - 1)) = TableSize
  BY <1>1, FS_Interval, SizesAssumption
<1>5. Cardinality(S) <= Cardinality(0..(TableSize - 1))
  BY <1>3, <1>4, FS_Injection
<1> QED
  BY <1>4, <1>5 DEF T

LEMMA SeatStart ==
  ASSUME TypeOK, HandInv, SeatInv, Start
  PROVE  SeatInv'
<1> DEFINE n == Cardinality(entrants)
           T == TablesFor(n)
<1>1. n \in Nat /\ n >= 2 /\ T <= MaxTables /\ status = "registering" /\ status' = "running"
  BY FiniteGroup DEF TypeOK, Start
<1>2. PICK d \in Draws(n) : at' = [p \in Person |-> IF p \in entrants THEN d[p] ELSE Nowhere]
  BY DEF Start
<1>3. T \in Nat \ {0} /\ opened' = T
  BY <1>1, RoomForAll DEF Start
<1>4. breakOrder' = [i \in 1..T |-> T - i + 1] /\ broken' = broken /\ opened = 0
  BY <1>1 DEF Start, SeatInv, TablesInTurn
<1>5. entrants \in SUBSET Person /\ broken = {}
  BY <1>4 DEF TypeOK, SeatInv, TablesInTurn, Made
<1>6. d \in [entrants -> 1..T]
  BY DEF Draws
<1>7. ASSUME NEW t \in 1..T PROVE Cardinality({p \in entrants : d[p] = t}) <= TableSize
  <2>1. Cardinality({p \in entrants : d[p] = t}) = Cardinality({j \in 0..(n - 1) : j % T = t - 1})
    BY DEF Draws
  <2> QED
    BY <1>1, <2>1, DealtRound
<1> HIDE DEF n, T
<1>8. ASSUME NEW t \in Table
      PROVE  Count(t)' <= TableSize /\ (t \in broken' \/ t \notin Made' => Seats(t)' = {})
  <2>1. Seats(t)' = {p \in entrants : d[p] = t}
    <3>1. \A p \in Person : at'[p] = t <=> p \in entrants /\ d[p] = t
      BY <1>2, <1>5, <1>6
    <3> QED
      BY <1>5, <3>1 DEF Seats
  <2>2. CASE t \in 1..T
    BY <1>3, <1>4, <1>5, <1>7, <2>1, <2>2 DEF Count, Made
  <2>3. CASE t \notin 1..T
    <3>1. Seats(t)' = {}
      BY <1>6, <2>1, <2>3
    <3> QED
      BY <3>1, FS_EmptySet, SizesAssumption DEF Count
  <2> QED
    BY <2>2, <2>3
<1>9. TablesInTurn'
  <2>1. \A t \in 1..T : \E i \in 1..T : T - i + 1 = t
    <3>1. ASSUME NEW t \in 1..T PROVE T - t + 1 \in 1..T /\ T - (T - t + 1) + 1 = t
      BY <1>3
    <3> QED
      BY <3>1
  <2> QED
    BY <1>1, <1>3, <1>4, <1>5, <2>1 DEF TablesInTurn, Made
<1>10. Emptying'
  BY <1>1 DEF Start, Emptying, HandInv, NotStarted, agenda
<1> QED
  BY <1>8, <1>9, <1>10 DEF SeatInv, SeatsHold

-----------------------------------------------------------------------------
(* Sitting down, moving and breaking *)

LEMMA SeatTake ==
  ASSUME TypeOK, SeatInv, status' # "registering", NEW p \in Person, TakeSeat(p), Emptying'
  PROVE  SeatInv'
<1>1. broken' = broken
  BY DEF TakeSeat
<1>2. ASSUME NEW t \in Table, IsFewest(t, Seatable), at' = [at EXCEPT ![p] = t],
             UNCHANGED <<opened, breakOrder>>
      PROVE  SeatInv'
  <2>1. t \in Made /\ t \notin broken /\ Count(t) < TableSize
    BY <1>2 DEF IsFewest, Seatable
  <2>2. \A u \in Made' : \E i \in DOMAIN breakOrder' : breakOrder'[i] = u
    BY <1>2 DEF SeatInv, TablesInTurn, Made
  <2>3. Made' = Made
    BY <1>2 DEF Made
  <2> QED
    BY <1>1, <1>2, <2>1, <2>2, <2>3, SeatsFill
<1>3. CASE /\ opened < MaxTables /\ opened' = opened + 1
           /\ breakOrder' = <<opened + 1>> \o breakOrder
           /\ at' = [at EXCEPT ![p] = opened + 1]
  <2> DEFINE t == opened + 1
  <2>1. opened \in Nat /\ t \in Table /\ t \in Made' /\ t \notin Made /\ Made' = Made \union {t}
    BY <1>3, SizesAssumption DEF TypeOK, Made
  <2>2. t \notin broken' /\ Count(t) = 0 /\ 0 < TableSize
    BY <1>1, <2>1, SeatsAreFew, SizesAssumption DEF SeatInv, SeatsHold, TablesInTurn
  <2> HIDE DEF t
  <2>3. \A u \in Made' : \E i \in DOMAIN breakOrder' : breakOrder'[i] = u
    <3>1. /\ <<t>> \in Seq(Table) /\ breakOrder \in Seq(Table)
          /\ Len(<<t>>) = 1 /\ <<t>>[1] = t /\ breakOrder' = <<t>> \o breakOrder
      BY <1>3, <2>1 DEF TypeOK, t
    <3>2. /\ Len(breakOrder) \in Nat /\ DOMAIN breakOrder = 1..Len(breakOrder)
          /\ breakOrder' \in Seq(Table) /\ Len(breakOrder') = 1 + Len(breakOrder)
          /\ DOMAIN breakOrder' = 1..(1 + Len(breakOrder))
      BY <3>1, ConcatProperties, LenProperties
    <3>3. breakOrder'[1] = t
      BY <3>1, <3>2, ConcatProperties
    <3>4. ASSUME NEW i \in DOMAIN breakOrder
          PROVE  i + 1 \in DOMAIN breakOrder' /\ breakOrder'[i + 1] = breakOrder[i]
      BY <3>1, <3>2, ConcatProperties
    <3>5. 1 \in DOMAIN breakOrder'
      BY <3>2
    <3>6. \A u \in Made : \E i \in DOMAIN breakOrder : breakOrder[i] = u
      BY DEF SeatInv, TablesInTurn
    <3> QED
      BY <2>1, <3>3, <3>4, <3>5, <3>6
  <2>4. at' = [at EXCEPT ![p] = t]
    BY <1>3 DEF t
  <2> QED
    BY <1>1, <2>1, <2>2, <2>3, <2>4, SeatsFill
<1> QED
  BY <1>2, <1>3 DEF TakeSeat

\* Somebody moves to a table in play that has room, and no table breaks.
LEMMA SeatMove ==
  ASSUME TypeOK, SeatInv, status' # "registering", NEW p \in Person, NEW t \in Table,
         at' = [at EXCEPT ![p] = t], t \in Made \ broken, Count(t) < TableSize,
         UNCHANGED <<opened, broken, breakOrder>>, Emptying'
  PROVE  SeatInv'
<1>1. /\ Made' = Made /\ t \in Made' /\ t \notin broken'
      /\ \A u \in Made' : \E i \in DOMAIN breakOrder' : breakOrder'[i] = u
  BY DEF SeatInv, TablesInTurn, Made
<1> QED
  BY <1>1, SeatsFill

LEMMA SeatRequestMove ==
  ASSUME TypeOK, SeatInv, NEW p \in Person, NEW t \in Table, RequestMove(p, t)
  PROVE  SeatInv'
<1>1. /\ status' # "registering" /\ UNCHANGED <<opened, broken, breakOrder>>
      /\ t \in Made \ broken /\ Count(t) < TableSize
  BY DEF RequestMove, Running, MoveStands
<1>2. doing' # "emptying"
  BY DEF RequestMove, Running, Idle, SettleField, Agenda, agenda
<1>3. CASE UNCHANGED at
  BY <1>1, <1>2, <1>3, SeatsStill
<1>4. CASE at' = [at EXCEPT ![p] = t]
  BY <1>1, <1>2, <1>4, SeatMove DEF Emptying
<1> QED
  BY <1>3, <1>4 DEF RequestMove

LEMMA SeatApplyMove ==
  ASSUME TypeOK, SeatInv, NEW p \in Person, ApplyMove(p)
  PROVE  SeatInv'
<1>1. status' # "registering" /\ doing' # "emptying" /\ UNCHANGED <<opened, broken, breakOrder>>
  BY DEF ApplyMove, Doing, WorkOn, Agenda
<1>2. CASE UNCHANGED at
  BY <1>1, <1>2, SeatsStill
<1>3. CASE MoveStands(p, moves[p]) /\ at' = [at EXCEPT ![p] = moves[p]]
  <2>1. moves[p] \in Made \ broken /\ moves[p] \in Table /\ Count(moves[p]) < TableSize
    BY <1>3, TypeFacts DEF MoveStands
  <2> QED
    BY <1>1, <1>3, <2>1, SeatMove DEF Emptying
<1> QED
  BY <1>2, <1>3 DEF ApplyMove

LEMMA SeatCarryOff ==
  ASSUME TypeOK, SeatInv, NEW p \in Person, CarryOff(p)
  PROVE  SeatInv'
<1>1. /\ status' # "registering" /\ doing = "emptying"
      /\ onTable' = onTable /\ todo' = todo \ {p}
      /\ UNCHANGED <<opened, broken, breakOrder>>
  BY DEF CarryOff, Doing, WorkOn, Agenda
<1>2. PICK t \in Table : IsFewest(t, Rooms(onTable)) /\ at' = [at EXCEPT ![p] = t]
  BY DEF CarryOff
<1>3. t \in Made \ broken /\ Count(t) < TableSize /\ t # onTable
  BY <1>2 DEF IsFewest, Rooms
<1>4. Emptying'
  <2>1. onTable \in Made /\ Seats(onTable) = todo
    BY <1>1 DEF SeatInv, Emptying
  <2>2. Seats(onTable)' = Seats(onTable) \ {p}
    BY <1>1, <1>2, <1>3 DEF Seats, TypeOK
  <2> QED
    BY <1>1, <2>1, <2>2 DEF Emptying, Made
<1> QED
  BY <1>1, <1>2, <1>3, <1>4, SeatMove

LEMMA SeatBalance ==
  ASSUME TypeOK, SeatInv, NEW p \in Person, NEW t \in Table, Balance(p, t)
  PROVE  SeatInv'
<1>1. /\ status' # "registering" /\ doing' # "emptying" /\ at[p] # Nowhere
      /\ UNCHANGED <<opened, broken, breakOrder>>
      /\ at' = [at EXCEPT ![p] = t] /\ CanBalance(at[p], t)
  BY DEF Balance, Doing, agenda
<1>2. t \in Made \ broken /\ Count(at[p]) - Count(t) > 1
  BY <1>1 DEF CanBalance, IsFewest, InPlay, Active
<1>3. Count(at[p]) <= TableSize /\ Count(at[p]) \in Nat /\ Count(t) \in Nat
  BY <1>1, SeatsAreFew DEF SeatInv, SeatsHold, TypeOK
<1>4. Count(t) < TableSize
  BY <1>2, <1>3, SizesAssumption
<1> QED
  BY <1>1, <1>2, <1>4, SeatMove DEF Emptying

LEMMA SeatCollapse ==
  ASSUME TypeOK, SeatInv, NEW t \in Table, Collapse(t)
  PROVE  SeatInv'
<1>1. /\ status' # "registering" /\ doing' # "emptying" /\ t \in Made
      /\ UNCHANGED <<opened, breakOrder>>
  BY DEF Collapse, CanCollapse, Active, Doing, WorkOn, Agenda
<1>2. PICK p \in Stacked(t), u \in Table :
        /\ IsFewest(u, Refuge(t))
        /\ at' = [at EXCEPT ![p] = u]
        /\ broken' = IF Seats(t) = {p} THEN broken \union {t} ELSE broken
  BY DEF Collapse
<1>3. p \in Person /\ u \in Made \ broken /\ Count(u) < TableSize /\ u # t
  BY <1>2 DEF Stacked, Seats, IsFewest, Refuge, Seatable
<1>4. /\ Made' = Made /\ u \notin broken' /\ broken \subseteq broken'
      /\ \A v \in broken' \ broken : v \in Made /\ Seats(v) \subseteq {p}
  BY <1>1, <1>2, <1>3 DEF Made
<1>5. \A v \in Made' : \E i \in DOMAIN breakOrder' : breakOrder'[i] = v
  BY <1>1, <1>4 DEF SeatInv, TablesInTurn
<1> QED
  BY <1>1, <1>2, <1>3, <1>4, <1>5, SeatsFill DEF Emptying

LEMMA SeatLate ==
  ASSUME TypeOK, SeatInv, NEW p \in Person, RegisterLate(p) \/ Reenter(p)
  PROVE  SeatInv'
<1>1. status' # "registering" /\ doing' # "emptying" /\ TakeSeat(p)
  BY DEF RegisterLate, Reenter, Running, Idle, agenda
<1> QED
  BY <1>1, SeatTake DEF Emptying

-----------------------------------------------------------------------------
(* Getting up, and tables broken empty *)

LEMMA SeatRemoveFromPlay ==
  ASSUME TypeOK, SeatInv, NEW p \in Person, RemoveFromPlay(p) \/ ApplyRemoval(p)
  PROVE  SeatInv'
<1>1. status' # "registering" /\ UNCHANGED <<opened, broken, breakOrder>>
  BY DEF RemoveFromPlay, ApplyRemoval, Queued, Doing, Running
<1>2. doing' # "emptying"
  BY DEF RemoveFromPlay, ApplyRemoval, Queued, Doing, Running, Idle, SettleField, Agenda, agenda
<1>3. at' = [at EXCEPT ![p] = Nowhere] \/ at' = at
  BY DEF RemoveFromPlay, ApplyRemoval, TakeOutOfPlay
<1>4. \A q \in Person : at'[q] \in {at[q], Nowhere}
  BY <1>3 DEF TypeOK
<1> QED
  BY <1>1, <1>2, <1>4, SeatsEmpty DEF Emptying

LEMMA SeatEndHand ==
  ASSUME TypeOK, SeatInv, NEW t \in Table, EndHand(t)
  PROVE  SeatInv'
<1>1. status' # "registering" /\ UNCHANGED <<opened, broken, breakOrder>>
  BY DEF EndHand, Running
<1>2. doing' # "emptying"
  BY DEF EndHand, Agenda
<1>3. \A q \in Person : at'[q] \in {at[q], Nowhere}
  BY DEF EndHand
<1> QED
  BY <1>1, <1>2, <1>3, SeatsEmpty DEF Emptying

LEMMA SeatBeginBreak ==
  ASSUME TypeOK, SeatInv, NEW t \in Table, BeginBreak(t)
  PROVE  SeatInv'
<1>1. /\ status' # "registering" /\ UNCHANGED <<at, opened, broken, breakOrder>>
      /\ onTable' = t /\ todo' = Seats(t) /\ CanBreak(t)
  BY DEF BeginBreak, Doing, Agenda
<1>2. t \in Made
  BY <1>1 DEF CanBreak, IsFirstToBreak, SeatInv, SeatsHold
<1>3. Emptying'
  BY <1>1, <1>2 DEF Emptying, Seats, Made
<1> QED
  BY <1>1, <1>3, SeatsEmpty

LEMMA SeatEmptied ==
  ASSUME TypeOK, SeatInv, Emptied
  PROVE  SeatInv'
<1>1. /\ status' = status /\ UNCHANGED <<at, opened, breakOrder>> /\ doing' # "emptying"
      /\ broken' = broken \union {onTable} /\ doing = "emptying" /\ todo = {}
  BY DEF Emptied, Doing, GoTo, Agenda
<1>2. onTable \in Made /\ \A p \in Person : at[p] # onTable
  BY <1>1 DEF SeatInv, Emptying, Seats
<1>3. ASSUME NEW t \in broken' \ broken
      PROVE  t \in Made /\ Seats(t)' = {}
  <2>1. t = onTable
    BY <1>1, <1>3
  <2>2. \A p \in Person : at'[p] # t
    BY <1>1, <1>2, <2>1
  <2> QED
    BY <1>2, <2>1, <2>2 DEF Seats
<1>4. Emptying'
  BY <1>1 DEF Emptying
<1>5. \A p \in Person : at'[p] \in {at[p], Nowhere}
  BY <1>1
<1>6. broken \subseteq broken' /\ (status' = "registering" => status = "registering")
  BY <1>1
<1> QED
  BY <1>1, <1>3, <1>4, <1>5, <1>6, SeatsEmpty

LEMMA SeatSweep ==
  ASSUME TypeOK, SeatInv, Sweep
  PROVE  SeatInv'
<1>1. /\ status' # "registering" /\ UNCHANGED <<at, opened, breakOrder>> /\ doing' # "emptying"
      /\ broken' = broken \union {t \in Made : Seats(t) = {}}
  BY DEF Sweep, Doing, GoTo, EndHandler, Agenda
<1>2. \A t \in broken' \ broken : t \in Made /\ Seats(t)' = {}
  BY <1>1 DEF Seats
<1> QED
  BY <1>1, <1>2, SeatsEmpty DEF Emptying

\* The rest of the actions leave the seats, the tables and their order alone.
SeatsQuiet ==
  \/ \E p \in Person : \/ Register(p) \/ Unregister(p) \/ TakeAddOn(p) \/ Reconnect(p)
                       \/ ApplyAddOn(p) \/ \E n \in 1..stack[p] : Wager(p, n)
  \/ LevelUp \/ Hold \/ \E i \in Row : StepLevel(i)
  \/ QueuedDone \/ Finish \/ PlayOn \/ MovesDone \/ NoBreak \/ Balanced \/ Collapsed
  \/ TickMovesDone \/ DealtAll \/ Tick
  \/ \E t \in Table : Rested(t) \/ Deal(t)

LEMMA SeatQuiet ==
  ASSUME TypeOK, SeatInv, SeatsQuiet
  PROVE  SeatInv'
<1>1. UNCHANGED seats /\ (status' = "registering" => status = "registering")
  BY DEF SeatsQuiet, Register, Unregister, TakeAddOn, Reconnect, ApplyAddOn, Wager, LevelUp,
         Hold, StepLevel, QueuedDone, Finish, PlayOn, MovesDone, NoBreak, Balanced, Collapsed,
         TickMovesDone, DealtAll, Tick, Rested, Deal, Running
<1>2. doing' = "emptying" => UNCHANGED <<doing, onTable, todo>>
  BY DEF SeatsQuiet, Register, Unregister, TakeAddOn, Reconnect, ApplyAddOn, Wager, LevelUp,
         Hold, StepLevel, QueuedDone, Finish, PlayOn, MovesDone, NoBreak, Balanced, Collapsed,
         TickMovesDone, DealtAll, Tick, Rested, Deal, agenda, SettleField, EndHandler, GoTo,
         WorkOn, Agenda, Doing, ReadyOnTick
<1> QED
  BY <1>1, <1>2, SeatsStill

LEMMA SeatStep ==
  ASSUME TypeOK, HandInv, SeatInv, [Next]_vars
  PROVE  SeatInv'
<1>0. CASE UNCHANGED vars
  <2>1. UNCHANGED <<status, at, opened, broken, breakOrder, doing, onTable, todo>>
    BY <1>0 DEF agenda
  <2> QED
    BY <2>1, SeatsStill
<1>1. CASE SeatsQuiet
  BY <1>1, SeatQuiet
<1>2. CASE Start
  BY <1>2, SeatStart
<1>3. ASSUME NEW p \in Person, RegisterLate(p) \/ Reenter(p) PROVE SeatInv'
  BY <1>3, SeatLate
<1>4. ASSUME NEW p \in Person, RemoveFromPlay(p) \/ ApplyRemoval(p) PROVE SeatInv'
  BY <1>4, SeatRemoveFromPlay
<1>5. ASSUME NEW p \in Person, NEW t \in Table, RequestMove(p, t) PROVE SeatInv'
  BY <1>5, SeatRequestMove
<1>6. ASSUME NEW p \in Person, ApplyMove(p) PROVE SeatInv'
  BY <1>6, SeatApplyMove
<1>7. ASSUME NEW p \in Person, CarryOff(p) PROVE SeatInv'
  BY <1>7, SeatCarryOff
<1>8. ASSUME NEW p \in Person, NEW t \in Table, Balance(p, t) PROVE SeatInv'
  BY <1>8, SeatBalance
<1>9. ASSUME NEW t \in Table, Collapse(t) PROVE SeatInv'
  BY <1>9, SeatCollapse
<1>10. ASSUME NEW t \in Table, EndHand(t) PROVE SeatInv'
  BY <1>10, SeatEndHand
<1>11. ASSUME NEW t \in Table, BeginBreak(t) PROVE SeatInv'
  BY <1>11, SeatBeginBreak
<1>12. CASE Emptied \/ Sweep
  BY <1>12, SeatEmptied, SeatSweep
<1>13. CASE Ask
  BY <1>13, <1>1, <1>2, <1>3, <1>4, <1>5 DEF Ask, SeatsQuiet
<1>14. CASE Follow
  BY <1>14, <1>1, <1>4, <1>6, <1>7, <1>8, <1>9, <1>11, <1>12 DEF Follow, SeatsQuiet
<1> QED
  BY <1>0, <1>1, <1>10, <1>13, <1>14 DEF Next, SeatsQuiet

LEMMA SeatInit ==
  ASSUME Init
  PROVE  SeatInv
<1>1. /\ status = "registering" /\ opened = 0 /\ broken = {} /\ doing = "idle"
      /\ \A p \in Person : at[p] = Nowhere
  BY DEF Init
<1>2. Made = {}
  BY <1>1 DEF Made
<1>3. \A t \in Table : Seats(t) = {}
  BY <1>1 DEF Seats
<1>4. \A t \in Table : Count(t) = 0
  BY <1>3, SeatsAreFew
<1>5. TableSize >= 0
  BY SizesAssumption
<1> QED
  BY <1>1, <1>2, <1>3, <1>4, <1>5 DEF SeatInv, SeatsHold, TablesInTurn, Emptying

LEMMA SeatsAre == Spec => [](Inv /\ SeatInv)
<1>1. Init => SeatInv
  BY SeatInit
<1>2. Inv /\ SeatInv /\ [Next]_vars => SeatInv'
  BY SeatStep DEF Inv
<1> QED
  BY <1>1, <1>2, InvHolds, PTL DEF Spec

\* However the seats are filled and emptied, by the draw, late entries, the
\* host's moves, breaks, the balancer and collapses, no table is over its size
\* and nobody sits at a table that has been broken or was never made.
THEOREM SeatsAlwaysHold == Spec => []SeatsHold
<1>1. SeatInv => SeatsHold
  BY DEF SeatInv
<1> QED
  BY <1>1, SeatsAre, PTL

-----------------------------------------------------------------------------
(* Ledgers *)

InOrder(s, n) ==
  /\ \A i \in DOMAIN s : s[i].place = n - i + 1
  /\ \A i, j \in DOMAIN s : i # j => s[i].uid # s[j].uid
Named(s) == {s[i].uid : i \in DOMAIN s}

\* A ledger of different people is put in order by renumbering it.
LEMMA Renumbered ==
  ASSUME NEW s \in Seq(Line), NEW n \in Int,
         \A i, j \in DOMAIN s : i # j => s[i].uid # s[j].uid
  PROVE  InOrder(Renumber(s, n), n) /\ Named(Renumber(s, n)) = Named(s)
<1> DEFINE r == Renumber(s, n)
<1>1. DOMAIN s = 1..Len(s) /\ DOMAIN r = 1..Len(s) /\ Len(s) \in Nat
  BY LenProperties DEF Renumber
<1>2. \A i \in 1..Len(s) : r[i].uid = s[i].uid /\ r[i].place = n - i + 1
  BY DEF Renumber, Out
<1> HIDE DEF r
<1> QED
  BY <1>1, <1>2 DEF InOrder, Named, r

\* A line struck takes one person's name out and nobody else's.
LEMMA StruckOut ==
  ASSUME NEW s \in Seq(Line), NEW k \in 1..Len(s),
         \A i, j \in DOMAIN s : i # j => s[i].uid # s[j].uid
  PROVE  /\ \A i, j \in DOMAIN Struck(s, k) : i # j => Struck(s, k)[i].uid # Struck(s, k)[j].uid
         /\ Named(Struck(s, k)) = Named(s) \ {s[k].uid}
<1> DEFINE r == Struck(s, k)
           old(i) == IF i < k THEN i ELSE i + 1
<1>1. DOMAIN s = 1..Len(s) /\ DOMAIN r = 1..(Len(s) - 1) /\ Len(s) \in Nat
  BY LenProperties DEF Struck
<1>2. \A i \in 1..(Len(s) - 1) : r[i] = s[old(i)] /\ old(i) \in 1..Len(s) /\ old(i) # k
  BY <1>1 DEF Struck
<1>3. \A i, j \in 1..(Len(s) - 1) : i # j => old(i) # old(j)
  BY <1>1
<1>4. ASSUME NEW i \in 1..Len(s), i # k PROVE \E j \in 1..(Len(s) - 1) : old(j) = i
  <2>1. CASE i < k
    BY <1>1, <2>1
  <2>2. CASE i > k
    <3>1. i - 1 \in 1..(Len(s) - 1) /\ old(i - 1) = i
      BY <1>1, <2>2
    <3> QED
      BY <3>1
  <2> QED
    BY <1>4, <2>1, <2>2
<1> HIDE DEF r, old
<1>5. \A i, j \in DOMAIN r : i # j => r[i].uid # r[j].uid
  BY <1>1, <1>2, <1>3
<1>6. Named(r) \subseteq Named(s) \ {s[k].uid}
  BY <1>1, <1>2 DEF Named
<1>7. Named(s) \ {s[k].uid} \subseteq Named(r)
  <2>1. SUFFICES ASSUME NEW i \in 1..Len(s), s[i].uid # s[k].uid PROVE s[i].uid \in Named(r)
    BY <1>1 DEF Named
  <2>2. PICK j \in 1..(Len(s) - 1) : old(j) = i
    BY <1>4, <2>1
  <2> QED
    BY <1>1, <1>2, <2>2 DEF Named
<1> QED
  BY <1>5, <1>6, <1>7 DEF r

\* A line added at the end is in order.
LEMMA Added ==
  ASSUME NEW s \in Seq(Line), NEW n \in Int, InOrder(s, n), NEW p \in Person, p \notin Named(s)
  PROVE  /\ InOrder(Append(s, Out(p, n - Len(s))), n)
         /\ Named(Append(s, Out(p, n - Len(s)))) = Named(s) \union {p}
<1> DEFINE l == Out(p, n - Len(s))
           r == Append(s, l)
<1>1. Len(s) \in Nat /\ DOMAIN s = 1..Len(s)
  BY LenProperties
<1>2. l.uid = p /\ l.place = n - Len(s) /\ l \in Line
  BY <1>1, LineType DEF Out
<1> HIDE DEF l
<1>3. /\ DOMAIN r = 1..(Len(s) + 1)
      /\ \A i \in 1..Len(s) : r[i] = s[i]
      /\ r[Len(s) + 1] = l
  <2>1. r \in Seq(Line) /\ Len(r) = Len(s) + 1
    BY <1>2, AppendProperties
  <2> QED
    BY <1>2, <2>1, AppendProperties, LenProperties
<1> HIDE DEF r
<1>4. \A i \in 1..Len(s) : s[i].uid # p
  BY <1>1 DEF Named
<1>5. \A i \in 1..(Len(s) + 1) : i \in 1..Len(s) \/ i = Len(s) + 1
  BY <1>1
<1>6. \A i \in DOMAIN r : r[i].place = n - i + 1
  <2>1. \A i \in 1..Len(s) : r[i].place = n - i + 1
    BY <1>1, <1>3 DEF InOrder
  <2>2. r[Len(s) + 1].place = n - (Len(s) + 1) + 1
    BY <1>1, <1>2, <1>3
  <2> QED
    BY <1>3, <1>5, <2>1, <2>2
<1>7. \A i, j \in DOMAIN r : i # j => r[i].uid # r[j].uid
  BY <1>1, <1>2, <1>3, <1>4, <1>5 DEF InOrder
<1>8. Named(r) = Named(s) \union {p}
  <2>1. 1..(Len(s) + 1) = 1..Len(s) \union {Len(s) + 1}
    BY <1>1
  <2> QED
    BY <1>1, <1>2, <1>3, <2>1 DEF Named
<1> QED
  BY <1>6, <1>7, <1>8 DEF InOrder, r, l

\* Two sequences joined, index by index.
LEMMA Joined ==
  ASSUME NEW S, NEW a \in Seq(S), NEW b \in Seq(S)
  PROVE  /\ DOMAIN (a \o b) = 1..(Len(a) + Len(b))
         /\ \A i \in 1..Len(a) : (a \o b)[i] = a[i]
         /\ \A i \in 1..Len(b) : (a \o b)[Len(a) + i] = b[i]
<1>1. Len(a) \in Nat /\ Len(b) \in Nat
  BY LenProperties
<1>2. /\ a \o b \in Seq(S) /\ Len(a \o b) = Len(a) + Len(b)
      /\ \A i \in 1..(Len(a) + Len(b)) :
           (a \o b)[i] = IF i <= Len(a) THEN a[i] ELSE b[i - Len(a)]
  BY ConcatProperties
<1>3. \A i \in 1..Len(a) : i \in 1..(Len(a) + Len(b)) /\ i <= Len(a)
  BY <1>1
<1>4. \A i \in 1..Len(b) : /\ Len(a) + i \in 1..(Len(a) + Len(b))
                           /\ ~(Len(a) + i <= Len(a)) /\ Len(a) + i - Len(a) = i
  BY <1>1
<1>5. DOMAIN (a \o b) = 1..Len(a \o b)
  BY <1>2, LenProperties
<1> QED
  BY <1>2, <1>3, <1>4, <1>5

Grouped(s, g, k, n) == s \o [i \in 1..k |-> Out(g[i], n - Len(s) - i + 1)]

\* A group written down at the end, once each, is in order.
LEMMA AddedGroup ==
  ASSUME NEW s \in Seq(Line), NEW n \in Int, InOrder(s, n),
         NEW B \in SUBSET Person, B \intersect Named(s) = {},
         NEW k \in Nat, NEW g \in [1..k -> B],
         \A i, j \in 1..k : i # j => g[i] # g[j],
         \A p \in B : \E i \in 1..k : g[i] = p
  PROVE  InOrder(Grouped(s, g, k, n), n) /\ Named(Grouped(s, g, k, n)) = Named(s) \union B
<1> DEFINE tail == [i \in 1..k |-> Out(g[i], n - Len(s) - i + 1)]
           r == Grouped(s, g, k, n)
           m == Len(s)
<1>1. m \in Nat /\ DOMAIN s = 1..m
  BY LenProperties
<1>2. \A i \in 1..k : /\ tail[i] \in Line
                      /\ tail[i].uid = g[i] /\ tail[i].place = n - m - i + 1
  <2>1. ASSUME NEW i \in 1..k
        PROVE  /\ tail[i] \in Line
               /\ tail[i].uid = g[i] /\ tail[i].place = n - m - i + 1
    <3>1. g[i] \in B
      OBVIOUS
    <3>3. g[i] \in Person
      BY <3>1
    <3>4. n - m - i + 1 \in Int
      BY <1>1
    <3>2. tail[i] = Out(g[i], n - m - i + 1)
      OBVIOUS
    <3> QED
      BY <3>2, <3>3, <3>4, LineType DEF Out
  <2> QED
    BY <2>1
<1>3. tail \in Seq(Line) /\ Len(tail) = k
  <2>1. tail = [i \in 1..k |-> tail[i]] /\ \A i \in 1..k : tail[i] \in Line
    BY <1>2
  <2>2. tail \in Seq(Line)
    BY <2>1, IsASeq
  <2> QED
    BY <2>2, LenProperties
<1> HIDE DEF tail
<1>4. /\ DOMAIN r = 1..(m + k)
      /\ \A i \in 1..m : r[i] = s[i]
      /\ \A i \in 1..k : r[m + i] = tail[i]
  <2>1. tail \in Seq(Line)
    BY <1>3
  <2>2. /\ DOMAIN (s \o tail) = 1..(Len(s) + Len(tail))
        /\ \A i \in 1..Len(s) : (s \o tail)[i] = s[i]
        /\ \A i \in 1..Len(tail) : (s \o tail)[Len(s) + i] = tail[i]
    <3> HIDE DEF m
    <3> QED
      BY <2>1, Joined
  <2>3. r = s \o tail
    BY DEF tail, Grouped
  <2> HIDE DEF r
  <2> QED
    BY <1>3, <2>2, <2>3
<1> HIDE DEF r, m
<1>5. \A i \in 1..(m + k) : i \in 1..m \/ (i - m \in 1..k /\ i = m + (i - m))
  BY <1>1
<1>6. \A i \in 1..m : s[i].uid \notin B
  BY <1>1 DEF Named
<1>7. \A i \in DOMAIN r : r[i].place = n - i + 1
  <2>1. \A i \in 1..m : r[i].place = n - i + 1
    BY <1>1, <1>4 DEF InOrder
  <2>2. ASSUME NEW i \in 1..k PROVE r[m + i].place = n - (m + i) + 1
    <3>1. r[m + i].place = n - m - i + 1
      BY <1>2, <1>4
    <3> QED
      BY <1>1, <3>1
  <2> QED
    BY <1>4, <1>5, <2>1, <2>2
<1>8. \A i, j \in DOMAIN r : i # j => r[i].uid # r[j].uid
  <2>1. \A i \in DOMAIN r : \/ i \in 1..m /\ r[i].uid = s[i].uid
                            \/ i - m \in 1..k /\ r[i].uid = g[i - m] /\ r[i].uid \in B
    BY <1>2, <1>4, <1>5
  <2>2. \A i, j \in DOMAIN r : i # j => i - m # j - m
    BY <1>1, <1>4
  <2> QED
    BY <1>1, <1>6, <2>1, <2>2 DEF InOrder
<1>9. Named(r) \subseteq Named(s) \union B
  <2>1. SUFFICES ASSUME NEW i \in 1..(m + k) PROVE r[i].uid \in Named(s) \union B
    BY <1>4 DEF Named
  <2>2. CASE i \in 1..m
    BY <1>1, <1>4, <2>2 DEF Named
  <2>3. CASE i - m \in 1..k /\ i = m + (i - m)
    <3>1. r[i].uid = g[i - m] /\ g[i - m] \in B
      <4>1. r[m + (i - m)] = tail[i - m]
        BY <1>4, <2>3
      <4>2. r[i] = tail[i - m]
        BY <2>3, <4>1
      <4>3. tail[i - m].uid = g[i - m]
        BY <1>2, <2>3
      <4>4. g[i - m] \in B
        BY <2>3
      <4> QED
        BY <4>2, <4>3, <4>4
    <3> QED
      BY <3>1
  <2> QED
    BY <1>5, <2>2, <2>3
<1>10. Named(s) \union B \subseteq Named(r)
  <2>1. \A i \in 1..m : i \in 1..(m + k)
    BY <1>1
  <2>2. \A i \in 1..k : m + i \in 1..(m + k)
    BY <1>1
  <2>3. Named(s) \subseteq Named(r)
    <3> SUFFICES ASSUME NEW i \in DOMAIN s
                 PROVE  s[i].uid \in Named(r)
      BY DEF Named
    <3>1. i \in 1..m
      BY <1>1
    <3>2. i \in DOMAIN r /\ r[i].uid = s[i].uid
      BY <1>4, <2>1, <3>1
    <3> QED
      BY <3>2 DEF Named
  <2>4. B \subseteq Named(r)
    <3>1. SUFFICES ASSUME NEW p \in B PROVE p \in Named(r)
      OBVIOUS
    <3>2. PICK i \in 1..k : g[i] = p
      OBVIOUS
    <3>3. m + i \in DOMAIN r /\ r[m + i].uid = p
      BY <1>2, <1>4, <2>2, <3>2
    <3> QED
      BY <3>3 DEF Named
  <2> QED
    BY <2>3, <2>4
<1> QED
  BY <1>7, <1>8, <1>9, <1>10 DEF InOrder, r

\* An ordering of a group names every member of it once.
LEMMA OrderingNamesAll ==
  ASSUME NEW S \in SUBSET Person, NEW s \in Orderings(S)
  PROVE  /\ Cardinality(S) \in Nat /\ s \in [1..Cardinality(S) -> S]
         /\ \A i, j \in 1..Cardinality(S) : i # j => s[i] # s[j]
         /\ \A p \in S : \E i \in 1..Cardinality(S) : s[i] = p
<1> DEFINE k == Cardinality(S)
<1>1. k \in Nat /\ IsFiniteSet(S)
  BY FiniteGroup
<1>2. s \in [1..k -> S] /\ \A i, j \in 1..k : i < j => s[i] # s[j]
  BY DEF Orderings
<1> HIDE DEF k
<1>3. \A i, j \in 1..k : i # j => s[i] # s[j]
  <2>1. \A i, j \in 1..k : i # j => i < j \/ j < i
    BY <1>1
  <2> QED
    BY <1>2, <2>1
<1>4. s \in Injection(1..k, S)
  BY <1>2, <1>3 DEF Injection, IsInjective
<1>5. Cardinality(1..k) = k
  BY <1>1, FS_Interval
<1>6. s \in Surjection(1..k, S)
  BY <1>1, <1>4, <1>5, FS_Injection DEF k
<1> QED
  BY <1>1, <1>2, <1>3, <1>6 DEF Surjection, k

-----------------------------------------------------------------------------
(* The ledger and the seats together are the field *)

\* What the ledger looks like while the field runs and its end is not declared.
LedgerNow ==
  /\ InOrder(outs, fieldSize)
  /\ fieldSize = Cardinality(entrants)
  /\ \A p \in Person :
       /\ p \in entrants <=> at[p] # Nowhere \/ p \in Named(outs)
       /\ ~(at[p] # Nowhere /\ p \in Named(outs))
OnGoing == status = "running" /\ ~over

\* The end check is the engine's, and the handler it belongs to finishes.
OverIsBrief == over => doing \in {"queued", "settle"}
LedgerInv == (OnGoing => LedgerNow) /\ OverIsBrief

\* Nobody comes, goes or is written down.
LEMMA LedgerStays ==
  ASSUME LedgerInv, OnGoing' => OnGoing, UNCHANGED <<entrants, outs, fieldSize>>,
         \A p \in Person : at'[p] = Nowhere <=> at[p] = Nowhere
  PROVE  (OnGoing => LedgerNow)'
BY DEF LedgerInv, LedgerNow

\* Somebody seated gets up and is written down at the end.
LEMMA LedgerTakesOut ==
  ASSUME TypeOK, LedgerNow, NEW p \in Person, at[p] # Nowhere, TakeOutOfPlay(p),
         UNCHANGED <<entrants, fieldSize>>
  PROVE  LedgerNow'
<1>1. p \notin Named(outs) /\ outs' = Append(outs, Out(p, fieldSize - Len(outs)))
  BY DEF LedgerNow, TakeOutOfPlay, Record, NextPlace
<1>2. outs \in Seq(Line) /\ fieldSize \in Int /\ InOrder(outs, fieldSize)
  BY TypeFacts DEF LedgerNow
<1>3. InOrder(outs', fieldSize) /\ Named(outs') = Named(outs) \union {p}
  BY <1>1, <1>2, Added
<1>4. at'[p] = Nowhere /\ \A q \in Person : q # p => at'[q] = at[q]
  BY DEF TakeOutOfPlay, TypeOK
<1>5. Named(outs)' = Named(outs')
  BY DEF Named
<1> QED
  BY <1>3, <1>4, <1>5 DEF LedgerNow

LEMMA LedgerRegisterLate ==
  ASSUME TypeOK, HandInv, LedgerNow, NEW p \in Person, RegisterLate(p)
  PROVE  LedgerNow'
<1>1. /\ p \notin entrants /\ TakeSeat(p) /\ entrants' = entrants \union {p}
      /\ fieldSize' = Cardinality(entrants') /\ outs' = Renumber(outs, fieldSize')
  BY DEF RegisterLate
<1>2. fieldSize' \in Int
  BY <1>1, FiniteGroup DEF TypeOK
<1>3. outs \in Seq(Line) /\ \A i, j \in DOMAIN outs : i # j => outs[i].uid # outs[j].uid
  BY TypeFacts DEF LedgerNow, InOrder
<1>4. InOrder(outs', fieldSize') /\ Named(outs') = Named(outs)
  BY <1>1, <1>2, <1>3, Renumbered
<1>5. at'[p] # Nowhere /\ \A q \in Person : q # p => at'[q] = at[q]
  <2>1. at'[p] \in Table /\ at' = [at EXCEPT ![p] = at'[p]]
    BY <1>1, SeatTaken
  <2>2. at'[p] # Nowhere
    BY <2>1
  <2>3. \A q \in Person : q # p => at'[q] = at[q]
    BY <2>1 DEF TypeOK
  <2> QED
    BY <2>2, <2>3
<1>6. p \notin Named(outs)
  BY <1>1 DEF LedgerNow
<1>7. Named(outs)' = Named(outs')
  BY DEF Named
<1> QED
  BY <1>1, <1>4, <1>5, <1>6, <1>7 DEF LedgerNow

LEMMA LedgerReenter ==
  ASSUME TypeOK, LedgerNow, NEW p \in Person, Reenter(p)
  PROVE  LedgerNow'
<1>1. PICK i \in 1..Len(outs) :
        outs[i].uid = p /\ outs' = Renumber(Struck(outs, i), fieldSize)
  BY DEF Reenter
<1>2. TakeSeat(p) /\ at[p] = Nowhere /\ p \in entrants /\ UNCHANGED <<entrants, fieldSize>>
  BY DEF Reenter
<1>3. outs \in Seq(Line) /\ fieldSize \in Int
      /\ \A j, k \in DOMAIN outs : j # k => outs[j].uid # outs[k].uid
  BY TypeFacts DEF LedgerNow, InOrder
<1>4. Struck(outs, i) \in Seq(Line)
  BY <1>3, StruckType
<1>5. /\ \A j, k \in DOMAIN Struck(outs, i) :
           j # k => Struck(outs, i)[j].uid # Struck(outs, i)[k].uid
      /\ Named(Struck(outs, i)) = Named(outs) \ {p}
  BY <1>1, <1>3, StruckOut
<1>6. InOrder(outs', fieldSize) /\ Named(outs') = Named(outs) \ {p}
  BY <1>1, <1>3, <1>4, <1>5, Renumbered
<1>7. at'[p] # Nowhere /\ \A q \in Person : q # p => at'[q] = at[q]
  <2>1. at'[p] \in Table /\ at' = [at EXCEPT ![p] = at'[p]]
    BY <1>2, SeatTaken
  <2>2. at'[p] # Nowhere
    BY <2>1
  <2>3. \A q \in Person : q # p => at'[q] = at[q]
    BY <2>1 DEF TypeOK
  <2> QED
    BY <2>2, <2>3
<1>8. Named(outs)' = Named(outs')
  BY DEF Named
<1> QED
  BY <1>2, <1>6, <1>7, <1>8 DEF LedgerNow

\* Who has chips when a hand is over, seated where they were before its end.
StillAlive == {p \in Person : at[p] # Nowhere /\ stack'[p] > 0}

\* What the end of a hand writes: whoever is left with nothing, and below them
\* the champion when nobody else has chips anywhere.
LEMMA EndHandBusts ==
  ASSUME TypeOK, NEW t \in Table, EndHand(t)
  PROVE  \E B \in SUBSET Seats(t) : \E s \in Orderings(B) :
           /\ B = {p \in Seats(t) : stack'[p] = 0}
           /\ at' = [p \in Person |-> IF p \in B THEN Nowhere ELSE at[p]]
           /\ over' <=> Cardinality(StillAlive) <= 1
           /\ IF over' /\ StillAlive # {}
              THEN \E w \in StillAlive :
                     outs' = Append(Grouped(outs, s, Cardinality(B), fieldSize), Out(w, 1))
              ELSE outs' = Grouped(outs, s, Cardinality(B), fieldSize)
<1>1. PICK win \in Payouts(t) :
      LET after  == [p \in Person |-> IF p \in InHand(t) THEN stack[p] + win[p] ELSE stack[p]]
          bust   == {p \in Seats(t) : after[p] = 0}
          alive  == {p \in Person : at[p] # Nowhere /\ after[p] > 0}
          final  == Cardinality(alive) <= 1
      IN
      /\ \E s \in Orderings(bust), w \in alive \union {Nobody} :
           /\ (w = Nobody) <=> (~final \/ alive = {})
           /\ outs' = outs \o [i \in DOMAIN s |-> Out(s[i], NextPlace - i + 1)]
                         \o (IF w = Nobody THEN <<>> ELSE <<Out(w, 1)>>)
      /\ stack' = after
      /\ at' = [p \in Person |-> IF p \in bust THEN Nowhere ELSE at[p]]
      /\ Agenda("queued", t, {}, final, FALSE)
  BY DEF EndHand
<1> DEFINE after  == [p \in Person |-> IF p \in InHand(t) THEN stack[p] + win[p] ELSE stack[p]]
           bust   == {p \in Seats(t) : after[p] = 0}
           alive  == {p \in Person : at[p] # Nowhere /\ after[p] > 0}
           final  == Cardinality(alive) <= 1
<1>2. PICK s \in Orderings(bust), w \in alive \union {Nobody} :
        /\ (w = Nobody) <=> (~final \/ alive = {})
        /\ outs' = outs \o [i \in DOMAIN s |-> Out(s[i], NextPlace - i + 1)]
                      \o (IF w = Nobody THEN <<>> ELSE <<Out(w, 1)>>)
  BY <1>1
<1>3. /\ over' = final /\ stack' = after
      /\ at' = [p \in Person |-> IF p \in bust THEN Nowhere ELSE at[p]]
  BY <1>1 DEF Agenda
<1>4. /\ bust \in SUBSET Seats(t) /\ bust \in SUBSET Person
      /\ bust = {p \in Seats(t) : stack'[p] = 0}
      /\ alive = StillAlive /\ StillAlive \subseteq Person
      /\ over' <=> Cardinality(StillAlive) <= 1
  <2> HIDE DEF after
  <2>1. /\ bust \in SUBSET Seats(t) /\ bust \in SUBSET Person
        /\ bust = {p \in Seats(t) : stack'[p] = 0}
    BY <1>3 DEF Seats
  <2>2. alive = StillAlive /\ StillAlive \subseteq Person
    BY <1>3 DEF StillAlive
  <2> QED
    BY <1>3, <2>1, <2>2
<1>5. (w = Nobody) <=> ~(over' /\ StillAlive # {})
  <2> HIDE DEF alive
  <2> QED
    BY <1>2, <1>3, <1>4
<1>11. w # Nobody => w \in StillAlive
  <2> HIDE DEF alive
  <2> QED
    BY <1>2, <1>4
<1> HIDE DEF after, bust, alive, final
<1> DEFINE k == Cardinality(bust)
           g == [i \in 1..k |-> Out(s[i], fieldSize - Len(outs) - i + 1)]
<1>6. k \in Nat /\ s \in [1..k -> bust]
  BY <1>4, OrderingNamesAll
<1>7. outs \in Seq(Line) /\ fieldSize \in Int
  BY TypeFacts
<1>8. g \in Seq(Line)
  <2>1. \A i \in 1..k : s[i] \in Person
    BY <1>4, <1>6
  <2>2. \A i \in 1..k : fieldSize - Len(outs) - i + 1 \in Int
    BY <1>6, <1>7, LenProperties
  <2>3. \A i \in 1..k : Out(s[i], fieldSize - Len(outs) - i + 1) \in Line
    BY <2>1, <2>2, LineType
  <2> QED
    BY <1>6, <2>3, IsASeq
<1>9. outs' = (outs \o g) \o (IF w = Nobody THEN <<>> ELSE <<Out(w, 1)>>)
  <2>1. [i \in DOMAIN s |-> Out(s[i], NextPlace - i + 1)] = g
    <3>1. DOMAIN s = 1..k
      BY <1>6
    <3> QED
      BY <3>1 DEF NextPlace
  <2> QED
    BY <1>2, <2>1
<1>10. outs \o g = Grouped(outs, s, k, fieldSize) /\ outs \o g \in Seq(Line)
  <2>1. outs \o g \in Seq(Line)
    <3> HIDE DEF g
    <3> QED
      BY <1>7, <1>8, ConcatProperties
  <2> QED
    BY <2>1 DEF Grouped
<1> HIDE DEF g
<1>12. IF over' /\ StillAlive # {}
       THEN \E v \in StillAlive :
              outs' = Append(Grouped(outs, s, k, fieldSize), Out(v, 1))
       ELSE outs' = Grouped(outs, s, k, fieldSize)
  <2>1. CASE w = Nobody
    <3>1. outs' = (outs \o g) \o <<>>
      BY <1>9, <2>1
    <3>2. outs' = Grouped(outs, s, k, fieldSize)
      BY <1>10, <3>1, ConcatEmptySeq
    <3> QED
      BY <1>5, <2>1, <3>2
  <2>2. CASE w # Nobody
    <3>1. outs' = (outs \o g) \o <<Out(w, 1)>>
      BY <1>9, <2>2
    <3>2. w \in StillAlive /\ Out(w, 1) \in Line
      BY <1>4, <1>11, <2>2, LineType
    <3>3. (outs \o g) \o <<Out(w, 1)>> = Append(outs \o g, Out(w, 1))
      BY <1>10, <3>2, AppendIsConcat
    <3>4. outs' = Append(Grouped(outs, s, k, fieldSize), Out(w, 1))
      BY <1>10, <3>1, <3>3
    <3> QED
      BY <1>5, <2>2, <3>2, <3>4
  <2> QED
    BY <2>1, <2>2
<1> QED
  BY <1>3, <1>4, <1>12

\* A hand that is not the last writes down whoever is left with nothing.
LEMMA EndHandWrites ==
  ASSUME TypeOK, NEW t \in Table, EndHand(t), ~over'
  PROVE  \E B \in SUBSET Seats(t) : \E s \in Orderings(B) :
           /\ at' = [p \in Person |-> IF p \in B THEN Nowhere ELSE at[p]]
           /\ outs' = Grouped(outs, s, Cardinality(B), fieldSize)
BY EndHandBusts

LEMMA LedgerEndHand ==
  ASSUME TypeOK, LedgerNow, NEW t \in Table, EndHand(t), ~over'
  PROVE  LedgerNow'
<1>0. PICK B \in SUBSET Seats(t) : \E s \in Orderings(B) :
        /\ at' = [p \in Person |-> IF p \in B THEN Nowhere ELSE at[p]]
        /\ outs' = Grouped(outs, s, Cardinality(B), fieldSize)
  BY EndHandWrites
<1>1. PICK s \in Orderings(B) :
        /\ at' = [p \in Person |-> IF p \in B THEN Nowhere ELSE at[p]]
        /\ outs' = Grouped(outs, s, Cardinality(B), fieldSize)
  BY <1>0
<1>2. B \in SUBSET Person /\ \A p \in B : at[p] # Nowhere
  <2>1. t # Nowhere
    OBVIOUS
  <2> QED
    BY <2>1 DEF Seats
<1>3. B \intersect Named(outs) = {}
  BY <1>2 DEF LedgerNow
<1>4. outs \in Seq(Line) /\ fieldSize \in Int /\ InOrder(outs, fieldSize)
  BY TypeFacts DEF LedgerNow
<1>5. InOrder(outs', fieldSize) /\ Named(outs') = Named(outs) \union B
  <2>1. /\ Cardinality(B) \in Nat /\ s \in [1..Cardinality(B) -> B]
        /\ \A i, j \in 1..Cardinality(B) : i # j => s[i] # s[j]
        /\ \A p \in B : \E i \in 1..Cardinality(B) : s[i] = p
    BY <1>2, OrderingNamesAll
  <2>2. /\ InOrder(Grouped(outs, s, Cardinality(B), fieldSize), fieldSize)
        /\ Named(Grouped(outs, s, Cardinality(B), fieldSize)) = Named(outs) \union B
    <3>1. B \in SUBSET Person
      BY <1>2
    <3> DEFINE k == Cardinality(B)
    <3>2. /\ k \in Nat /\ s \in [1..k -> B]
          /\ \A i, j \in 1..k : i # j => s[i] # s[j]
          /\ \A p \in B : \E i \in 1..k : s[i] = p
      BY <2>1
    <3> HIDE DEF k
    <3>3. InOrder(Grouped(outs, s, k, fieldSize), fieldSize)
      BY <1>3, <1>4, <3>1, <3>2, AddedGroup
    <3>4. Named(Grouped(outs, s, k, fieldSize)) = Named(outs) \union B
      BY <1>3, <1>4, <3>1, <3>2, AddedGroup, SMTT(30)
    <3> QED
      BY <3>3, <3>4 DEF k
  <2> QED
    BY <1>1, <2>2
<1>6. Named(outs)' = Named(outs') /\ UNCHANGED <<entrants, fieldSize>>
  BY DEF Named, EndHand
<1> QED
  BY <1>1, <1>2, <1>5, <1>6 DEF LedgerNow

LEMMA LedgerStart ==
  ASSUME TypeOK, Start
  PROVE  LedgerNow'
<1>1. outs' = <<>> /\ fieldSize' = Cardinality(entrants) /\ entrants' = entrants
  BY DEF Start
<1>2. PICK d \in Draws(Cardinality(entrants)) :
        at' = [p \in Person |-> IF p \in entrants THEN d[p] ELSE Nowhere]
  BY DEF Start
<1>3. \A p \in entrants : d[p] # Nowhere
  BY <1>2 DEF Draws
<1>4. \A p \in Person : at'[p] # Nowhere <=> p \in entrants
  BY <1>2, <1>3
<1>5. DOMAIN outs' = {}
  BY <1>1
<1>6. Named(outs') = {} /\ InOrder(outs', fieldSize')
  BY <1>5 DEF Named, InOrder
<1>7. Named(outs)' = Named(outs')
  BY DEF Named
<1> QED
  BY <1>1, <1>4, <1>6, <1>7 DEF LedgerNow

\* The rest of the actions take nobody into the field or out of it.
LedgerQuiet ==
  \/ \E p \in Person : \/ TakeAddOn(p) \/ Reconnect(p) \/ ApplyAddOn(p) \/ ApplyMove(p)
                       \/ CarryOff(p) \/ \E n \in 1..stack[p] : Wager(p, n)
                       \/ \E t \in Table : RequestMove(p, t)
                       \/ \E t \in Table : Balance(p, t)
  \/ LevelUp \/ Hold \/ \E i \in Row : StepLevel(i)
  \/ QueuedDone \/ PlayOn \/ MovesDone \/ NoBreak \/ Emptied \/ Balanced \/ Collapsed \/ Sweep
  \/ TickMovesDone \/ DealtAll \/ Tick
  \/ \E t \in Table : Rested(t) \/ Deal(t) \/ BeginBreak(t) \/ Collapse(t)

\* Where a seat changes, somebody who had one gets another.
LEMMA SeatForSeat ==
  ASSUME TypeOK, SeatInv, LedgerQuiet
  PROVE  \A p \in Person : at'[p] = Nowhere <=> at[p] = Nowhere
<1>1. ASSUME NEW p \in Person, NEW t \in Table, at[p] # Nowhere, at' = [at EXCEPT ![p] = t]
      PROVE  \A q \in Person : at'[q] = Nowhere <=> at[q] = Nowhere
  <2>1. t # Nowhere
    OBVIOUS
  <2> QED
    BY <1>1, <2>1 DEF TypeOK
<1>2. ASSUME NEW p \in Person, ApplyMove(p) PROVE UNCHANGED at \/
        (at[p] # Nowhere /\ \E t \in Table : at' = [at EXCEPT ![p] = t])
  <2>1. MoveStands(p, moves[p]) => moves[p] \in Table /\ at[p] # Nowhere
    BY TypeFacts DEF MoveStands
  <2> QED
    BY <1>2, <2>1 DEF ApplyMove
<1>3. ASSUME NEW p \in Person, CarryOff(p) PROVE UNCHANGED at \/
        (at[p] # Nowhere /\ \E t \in Table : at' = [at EXCEPT ![p] = t])
  <2>1. doing = "emptying" /\ p \in todo /\ \E t \in Table : at' = [at EXCEPT ![p] = t]
    BY <1>3 DEF CarryOff, Doing
  <2>2. at[p] = onTable /\ onTable \in Table
    BY <2>1, TypeFacts DEF SeatInv, Emptying, Seats
  <2>3. at[p] # Nowhere
    BY <2>2
  <2> QED
    BY <2>1, <2>3
<1>4. ASSUME NEW p \in Person, NEW t \in Table, RequestMove(p, t) \/ Balance(p, t)
      PROVE  UNCHANGED at \/ (at[p] # Nowhere /\ at' = [at EXCEPT ![p] = t])
  BY <1>4 DEF RequestMove, MoveStands, Balance
<1>5. ASSUME NEW t \in Table, Collapse(t) PROVE \E p \in Person :
        at[p] # Nowhere /\ \E u \in Table : at' = [at EXCEPT ![p] = u]
  <2>1. \A p \in Stacked(t) : p \in Person /\ at[p] # Nowhere
    BY DEF Stacked, Seats
  <2> QED
    BY <1>5, <2>1 DEF Collapse
<1>6. CASE UNCHANGED at
  BY <1>6
<1>7. CASE \E p \in Person : at[p] # Nowhere /\ \E t \in Table : at' = [at EXCEPT ![p] = t]
  BY <1>1, <1>7
<1> QED
  BY <1>2, <1>3, <1>4, <1>5, <1>6, <1>7, ZenonT(60)
  DEF LedgerQuiet, TakeAddOn, Reconnect, ApplyAddOn, Wager, LevelUp, Hold, StepLevel,
      QueuedDone, PlayOn, MovesDone, NoBreak, Emptied, Balanced, Collapsed, Sweep,
      TickMovesDone, DealtAll, Tick, Rested, Deal, BeginBreak

LEMMA LedgerQuietKeeps ==
  ASSUME LedgerInv, LedgerQuiet
  PROVE  /\ UNCHANGED <<entrants, outs, fieldSize, status>> /\ status = "running"
         /\ over' <=> over
         /\ over => doing' \in {"queued", "settle"}
<1>1. UNCHANGED <<entrants, outs, fieldSize>>
  BY DEF LedgerQuiet, TakeAddOn, Reconnect, ApplyAddOn, ApplyMove, CarryOff, Wager, RequestMove,
         Balance, LevelUp, Hold, StepLevel, QueuedDone, PlayOn, MovesDone, NoBreak, Emptied,
         Balanced, Collapsed, Sweep, TickMovesDone, DealtAll, Tick, Rested, Deal, BeginBreak,
         Collapse
<1>2. status = "running" /\ status' = status
  <2>1. ASSUME NEW p \in Person,
               \/ TakeAddOn(p) \/ Reconnect(p) \/ ApplyAddOn(p) \/ ApplyMove(p) \/ CarryOff(p)
        PROVE  status = "running" /\ status' = status
    BY <2>1 DEF TakeAddOn, Reconnect, ApplyAddOn, ApplyMove, CarryOff, Running, Doing, Queued
  <2>2. ASSUME NEW p \in Person, NEW n \in 1..stack[p], Wager(p, n)
        PROVE  status = "running" /\ status' = status
    BY <2>2 DEF Wager, Running, Doing
  <2>3. ASSUME NEW p \in Person, NEW t \in Table, RequestMove(p, t) \/ Balance(p, t)
        PROVE  status = "running" /\ status' = status
    BY <2>3 DEF RequestMove, Balance, Running, Doing
  <2>4. CASE \/ LevelUp \/ Hold \/ \E i \in Row : StepLevel(i)
             \/ QueuedDone \/ PlayOn \/ MovesDone \/ NoBreak \/ Emptied \/ Balanced
             \/ Collapsed \/ Sweep \/ TickMovesDone \/ DealtAll \/ Tick
             \/ \E t \in Table : Rested(t) \/ Deal(t) \/ BeginBreak(t) \/ Collapse(t)
    BY <2>4 DEF LevelUp, Hold, StepLevel, QueuedDone, PlayOn, MovesDone, NoBreak, Emptied,
           Balanced, Collapsed, Sweep, TickMovesDone, DealtAll, Tick, Rested, Deal, BeginBreak,
           Collapse, Running, Doing, Queued
  <2> QED
    BY <2>1, <2>2, <2>3, <2>4 DEF LedgerQuiet
<1>3. over => over' = over /\ doing' \in {"queued", "settle"}
  <2>1. SUFFICES ASSUME over, doing \in {"queued", "settle"}
                 PROVE  over' = over /\ doing' \in {"queued", "settle"}
    BY DEF LedgerInv, OverIsBrief
  <2>2. (\E p \in Person : ApplyAddOn(p)) \/ QueuedDone
    BY <2>1, ZenonT(60) DEF LedgerQuiet, TakeAddOn, Reconnect, ApplyMove, CarryOff, Wager, RequestMove,
           Balance, LevelUp, Hold, StepLevel, PlayOn, MovesDone, NoBreak, Emptied, Balanced,
           Collapsed, Sweep, TickMovesDone, DealtAll, Tick, Rested, Deal, BeginBreak, Collapse,
           Running, Idle, Doing
  <2> QED
    BY <2>1, <2>2 DEF ApplyAddOn, QueuedDone, Queued, Doing, agenda, GoTo, Agenda
<1>4. ~over => ~over'
  BY DEF LedgerQuiet, TakeAddOn, Reconnect, ApplyAddOn, ApplyMove,
         CarryOff, Wager, RequestMove, Balance, LevelUp, Hold, StepLevel, QueuedDone, PlayOn,
         MovesDone, NoBreak, Emptied, Balanced, Collapsed, Sweep, TickMovesDone, DealtAll, Tick,
         Rested, Deal, BeginBreak, Collapse, agenda, GoTo, WorkOn,
         SettleField, EndHandler, Agenda
<1> QED
  BY <1>1, <1>2, <1>3, <1>4

LEMMA LedgerQuietStep ==
  ASSUME TypeOK, SeatInv, LedgerInv, LedgerQuiet
  PROVE  LedgerInv'
<1>1. OverIsBrief'
  BY LedgerQuietKeeps DEF OverIsBrief
<1>2. (OnGoing => LedgerNow)'
  BY LedgerQuietKeeps, SeatForSeat, LedgerStays DEF OnGoing
<1> QED
  BY <1>1, <1>2 DEF LedgerInv

LEMMA LedgerStep ==
  ASSUME Inv, SeatInv, LedgerInv, [Next]_vars
  PROVE  LedgerInv'
<1> USE DEF Inv
<1>0. CASE UNCHANGED vars
  <2>1. UNCHANGED <<status, over, doing, entrants, outs, fieldSize, at>>
    BY <1>0 DEF agenda
  <2> QED
    BY <2>1, LedgerStays DEF LedgerInv, OverIsBrief, OnGoing
<1>1. CASE LedgerQuiet
  BY <1>1, LedgerQuietStep
<1>2. ASSUME NEW p \in Person, Register(p) \/ Unregister(p) PROVE LedgerInv'
  BY <1>2 DEF Register, Unregister, agenda, LedgerInv, OverIsBrief, OnGoing
<1>3. ASSUME NEW p \in Person, RegisterLate(p) PROVE LedgerInv'
  BY <1>3, LedgerRegisterLate DEF RegisterLate, Running, Idle, agenda, LedgerInv, OverIsBrief, OnGoing
<1>4. ASSUME NEW p \in Person, Reenter(p) PROVE LedgerInv'
  BY <1>4, LedgerReenter DEF Reenter, Running, Idle, agenda, LedgerInv, OverIsBrief, OnGoing
<1>5. ASSUME NEW p \in Person, RemoveFromPlay(p) PROVE LedgerInv'
  <2>1. Running /\ at[p] # Nowhere /\ UNCHANGED <<status, entrants, fieldSize>>
    BY <1>5 DEF RemoveFromPlay
  <2>2. ~over /\ LedgerNow
    BY <2>1 DEF LedgerInv, OverIsBrief, OnGoing, Running, Idle
  <2>3. CASE UNCHANGED <<outs, at, agenda>>
    BY <2>1, <2>2, <2>3, LedgerStays DEF agenda, LedgerInv, OverIsBrief, OnGoing
  <2>4. CASE TakeOutOfPlay(p) /\ SettleField
    BY <2>1, <2>2, <2>4, LedgerTakesOut DEF SettleField, Agenda, LedgerInv, OverIsBrief, OnGoing
  <2> QED
    BY <1>5, <2>3, <2>4 DEF RemoveFromPlay
<1>6. ASSUME NEW p \in Person, ApplyRemoval(p) PROVE LedgerInv'
  <2>1. /\ at[p] # Nowhere /\ TakeOutOfPlay(p)
        /\ UNCHANGED <<status, entrants, fieldSize, over, doing>>
    BY <1>6 DEF ApplyRemoval, Leaving, Queued, Doing, agenda, TypeOK
  <2> QED
    BY <2>1, LedgerTakesOut DEF LedgerInv, OverIsBrief, OnGoing
<1>7. CASE Start
  BY <1>7, LedgerStart DEF Start, agenda, LedgerInv, OverIsBrief, OnGoing
<1>8. CASE Finish
  BY <1>8 DEF Finish, EndHandler, Agenda, LedgerInv, OverIsBrief, OnGoing
<1>9. ASSUME NEW t \in Table, EndHand(t) PROVE LedgerInv'
  <2>1. doing' = "queued" /\ Running
    BY <1>9 DEF EndHand, Agenda
  <2>2. LedgerNow
    BY <2>1 DEF LedgerInv, OverIsBrief, OnGoing, Running, Idle
  <2> QED
    BY <1>9, <2>1, <2>2, LedgerEndHand DEF LedgerInv, OverIsBrief, OnGoing
<1>10. CASE Ask
  <2>1. ASSUME NEW p \in Person, NEW t \in Table, RequestMove(p, t) PROVE LedgerInv'
    <3>1. \E u \in Table : RequestMove(p, u)
      BY <2>1
    <3>2. LedgerQuiet
      BY <3>1 DEF LedgerQuiet
    <3> QED
      BY <1>1, <3>2
  <2>2. ASSUME NEW p \in Person, NEW n \in 1..stack[p], Wager(p, n) PROVE LedgerInv'
    BY <1>1, <2>2 DEF LedgerQuiet
  <2>3. ASSUME NEW p \in Person, TakeAddOn(p) \/ Reconnect(p) PROVE LedgerInv'
    BY <1>1, <2>3 DEF LedgerQuiet
  <2>4. CASE LevelUp \/ Hold \/ \E i \in Row : StepLevel(i)
    BY <1>1, <2>4 DEF LedgerQuiet
  <2> QED
    BY <1>10, <1>2, <1>3, <1>4, <1>5, <1>7, <2>1, <2>2, <2>3, <2>4 DEF Ask
<1>11. CASE Follow
  <2>1. ASSUME NEW p \in Person, NEW t \in Table, Balance(p, t) PROVE LedgerInv'
    <3>1. \E u \in Table : Balance(p, u)
      BY <2>1
    <3>2. LedgerQuiet
      BY <3>1 DEF LedgerQuiet
    <3> QED
      BY <1>1, <3>2
  <2>2. ASSUME NEW p \in Person, ApplyAddOn(p) \/ ApplyMove(p) \/ CarryOff(p) PROVE LedgerInv'
    BY <1>1, <2>2 DEF LedgerQuiet
  <2>3. ASSUME NEW t \in Table, BeginBreak(t) \/ Collapse(t) \/ Deal(t) PROVE LedgerInv'
    BY <1>1, <2>3 DEF LedgerQuiet
  <2>4. CASE \/ QueuedDone \/ PlayOn \/ MovesDone \/ NoBreak \/ Emptied \/ Balanced
             \/ Collapsed \/ Sweep \/ TickMovesDone \/ DealtAll
    BY <1>1, <2>4 DEF LedgerQuiet
  <2> QED
    BY <1>11, <1>6, <1>8, <2>1, <2>2, <2>3, <2>4 DEF Follow
<1> QED
  BY <1>0, <1>1, <1>9, <1>10, <1>11 DEF Next, LedgerQuiet

LEMMA LedgerIs == Spec => [](Inv /\ LedgerInv)
<1>1. Init => LedgerInv
  BY DEF Init, LedgerInv, OnGoing, OverIsBrief
<1>2. Inv /\ SeatInv /\ LedgerInv /\ [Next]_vars => LedgerInv'
  BY LedgerStep
<1> QED
  BY <1>1, <1>2, SeatsAre, PTL DEF Spec

\* Through late entries, re-entries, removals, forfeits and bust-outs the
\* places given out run down from the size of the field without a gap or a
\* repeat, and nobody holds two.
THEOREM LedgerIsInOrder == Spec => []LedgerInOrder
<1>1. LedgerInv => LedgerInOrder
  BY DEF LedgerInv, OnGoing, LedgerNow, InOrder, LedgerInOrder
<1> QED
  BY <1>1, LedgerIs, PTL

\* Everybody who entered is on the felt or has a place, never both and never
\* neither.
THEOREM EverybodySeatedOrPlaced == Spec => []SeatedOrPlaced
<1>1. LedgerInv => SeatedOrPlaced
  BY DEF LedgerInv, OnGoing, LedgerNow, Named, SeatedOrPlaced, InLedger
<1> QED
  BY <1>1, LedgerIs, PTL

-----------------------------------------------------------------------------
(* Counting tables *)

Sitting(T) == {p \in Person : at[p] \in T}

LEMMA FewTables ==
  ASSUME NEW T \in SUBSET Table
  PROVE  IsFiniteSet(T) /\ Cardinality(T) \in Nat
<1>1. IsFiniteSet(Table)
  BY SizesAssumption, FS_Interval
<1> QED
  BY <1>1, FS_Subset, FS_CardinalityType

LEMMA Apart ==
  ASSUME NEW S, NEW T, IsFiniteSet(S), IsFiniteSet(T), S \intersect T = {}
  PROVE  Cardinality(S \union T) = Cardinality(S) + Cardinality(T)
<1>1. Cardinality(S \intersect T) = 0
  BY FS_EmptySet
<1>2. Cardinality(S) \in Nat /\ Cardinality(T) \in Nat
  BY FS_CardinalityType
<1>3. Cardinality(S \union T) = Cardinality(S) + Cardinality(T) - Cardinality(S \intersect T)
  BY FS_Union
<1> QED
  BY <1>1, <1>2, <1>3

LEMMA OneTableMore ==
  ASSUME NEW c \in Nat
  PROVE  (c + 1) * TableSize = c * TableSize + TableSize /\ c * TableSize \in Nat
<1>1. TableSize \in Nat
  BY SizesAssumption
<1>2. \A n \in Nat : (c + 1) * n = c * n + n /\ c * n \in Nat
  OBVIOUS
<1> QED
  BY <1>1, <1>2

\* Tables of so many seats hold so many people, and just so many when full.
LEMMA Crowd ==
  ASSUME NEW T \in SUBSET Table, \A t \in T : Count(t) <= TableSize
  PROVE  /\ Cardinality(Sitting(T)) <= Cardinality(T) * TableSize
         /\ (\A t \in T : Count(t) = TableSize) =>
              Cardinality(Sitting(T)) = Cardinality(T) * TableSize
<1> DEFINE P(n) == T \intersect 1..n
           C(n) == Cardinality(P(n))
           D(n) == Cardinality(Sitting(P(n)))
           S == {n \in Nat : /\ D(n) <= C(n) * TableSize
                             /\ (\A t \in T : Count(t) = TableSize) => D(n) = C(n) * TableSize}
<1>1. \A n \in Nat : /\ IsFiniteSet(P(n)) /\ C(n) \in Nat
                     /\ IsFiniteSet(Sitting(P(n))) /\ D(n) \in Nat
  <2> TAKE n \in Nat
  <2>1. P(n) \in SUBSET Table /\ Sitting(P(n)) \in SUBSET Person
    BY DEF Sitting
  <2> QED
    BY <2>1, FewTables, FiniteGroup
<1>2. 0 \in S
  <2>1. P(0) = {} /\ Sitting(P(0)) = {}
    BY DEF Sitting
  <2>2. C(0) = 0 /\ D(0) = 0
    BY <2>1, FS_EmptySet
  <2>3. 0 * TableSize = 0
    BY SizesAssumption
  <2> QED
    BY <2>2, <2>3
<1>3. ASSUME NEW n \in Nat, n \in S PROVE n + 1 \in S
  <2>1. CASE n + 1 \notin T
    <3>1. P(n + 1) = P(n)
      BY <2>1
    <3>2. C(n + 1) = C(n) /\ D(n + 1) = D(n)
      BY <3>1
    <3> HIDE DEF C, D
    <3> QED
      BY <1>3, <3>2
  <2>2. CASE n + 1 \in T
    <3>1. P(n + 1) = P(n) \union {n + 1} /\ n + 1 \notin P(n)
      BY <2>2
    <3>2. C(n + 1) = C(n) + 1
      BY <1>1, <3>1, FS_AddElement
    <3>3. Sitting(P(n + 1)) = Sitting(P(n)) \union Seats(n + 1)
          /\ Sitting(P(n)) \intersect Seats(n + 1) = {}
      BY <3>1 DEF Sitting, Seats
    <3>4. D(n + 1) = D(n) + Count(n + 1)
      BY <1>1, <3>3, SeatsAreFew, Apart DEF Count
    <3>5. Count(n + 1) <= TableSize /\ Count(n + 1) \in Nat
      BY <2>2, SeatsAreFew
    <3> HIDE DEF C, D
    <3>6. (C(n) + 1) * TableSize = C(n) * TableSize + TableSize /\ C(n) * TableSize \in Nat
      BY <1>1, OneTableMore
    <3>7. D(n + 1) <= C(n + 1) * TableSize
      <4> DEFINE X == C(n) * TableSize
      <4>1. C(n + 1) * TableSize = X + TableSize /\ X \in Nat /\ D(n) <= X
        BY <1>3, <3>2, <3>6
      <4>2. D(n) \in Nat /\ TableSize \in Nat
        BY <1>1, SizesAssumption
      <4> HIDE DEF X
      <4>3. D(n) + Count(n + 1) <= X + TableSize
        BY <3>5, <4>1, <4>2
      <4> QED
        BY <3>4, <4>1, <4>3
    <3>8. ASSUME \A t \in T : Count(t) = TableSize PROVE D(n + 1) = C(n + 1) * TableSize
      BY <1>1, <1>3, <2>2, <3>2, <3>4, <3>6, <3>8
    <3> QED
      BY <3>7, <3>8
  <2> QED
    BY <2>1, <2>2
<1> HIDE DEF S
<1>4. MaxTables \in S
  BY <1>2, <1>3, SetInduction, SizesAssumption
<1>5. P(MaxTables) = T
  OBVIOUS
<1> QED
  BY <1>4, <1>5 DEF S

LEMMA Least ==
  ASSUME NEW T \in SUBSET Nat, T # {}
  PROVE  \E x \in T : \A y \in T : x <= y
<1>1. PICK x \in T : \A y \in T : <<y, x>> \notin OpToRel(<, Nat)
  BY NatLessThanWellFounded, WFMin
<1>2. \A y \in T : ~(y < x)
  BY <1>1 DEF OpToRel
<1> QED
  BY <1>2

\* Of tables in play there is a first by number of seats, and a last.
LEMMA FewestAndMost ==
  ASSUME NEW T \in SUBSET Table, T # {}, \A t \in T : Count(t) <= TableSize
  PROVE  (\E t \in T : IsFewest(t, T)) /\ (\E t \in T : IsMost(t, T))
<1>1. \A t \in T : Count(t) \in Nat /\ t \in Nat /\ TableSize - Count(t) \in Nat /\ MaxTables - t \in Nat
  BY SeatsAreFew, SizesAssumption
<1>2. \E t \in T : IsFewest(t, T)
  <2> DEFINE K == {Count(t) : t \in T}
  <2>1. PICK c \in K : \A y \in K : c <= y
    <3>1. K \in SUBSET Nat /\ K # {}
      BY <1>1
    <3> QED
      BY <3>1, Least
  <2> DEFINE S == {t \in T : Count(t) = c}
  <2>2. PICK m \in S : \A y \in S : m <= y
    <3>1. S \in SUBSET Nat /\ S # {}
      BY <1>1, <2>1
    <3> QED
      BY <3>1, Least
  <2>3. ASSUME NEW u \in T
        PROVE  Count(m) < Count(u) \/ (Count(m) = Count(u) /\ m <= u)
    <3>1. Count(m) = c /\ c <= Count(u)
      BY <2>1
    <3>2. Count(u) = c => m <= u
      BY <2>2
    <3> QED
      BY <1>1, <3>1, <3>2
  <2> QED
    BY <2>3 DEF IsFewest
<1>3. \E t \in T : IsMost(t, T)
  <2> DEFINE K == {TableSize - Count(t) : t \in T}
  <2>1. PICK c \in K : \A y \in K : c <= y
    <3>1. K \in SUBSET Nat /\ K # {}
      BY <1>1
    <3> QED
      BY <3>1, Least
  <2> DEFINE S == {t \in T : TableSize - Count(t) = c}
             J == {MaxTables - t : t \in S}
  <2>2. PICK j \in J : \A y \in J : j <= y
    <3>1. J \in SUBSET Nat /\ J # {}
      BY <1>1, <2>1
    <3> QED
      BY <3>1, Least
  <2>3. PICK m \in S : j = MaxTables - m
    BY <2>2
  <2>4. ASSUME NEW u \in T
        PROVE  Count(u) < Count(m) \/ (Count(u) = Count(m) /\ u <= m)
    <3>1. c <= TableSize - Count(u) /\ c = TableSize - Count(m)
      BY <2>1, <2>3
    <3>2. Count(u) <= Count(m)
      BY <1>1, <2>3, <3>1, SizesAssumption
    <3>3. Count(u) = Count(m) => u <= m
      <4>1. Count(u) = Count(m) => MaxTables - m <= MaxTables - u
        BY <2>2, <2>3, <3>1
      <4> QED
        BY <1>1, <2>3, <4>1, SizesAssumption
    <3> QED
      BY <1>1, <2>3, <3>2, <3>3
  <2> QED
    BY <2>3, <2>4 DEF IsMost
<1> QED
  BY <1>2, <1>3

-----------------------------------------------------------------------------
(* The field left level *)

\* With no hand in progress everybody on the felt has chips and every table
\* with anybody at it is in play.
LEMMA Calm ==
  ASSUME Inv, SeatInv, dealing = {}
  PROVE  /\ Alive = Sitting(Active) /\ InPlay = Active /\ Active \in SUBSET Table
         /\ \A t \in Table : Stacked(t) = Seats(t)
<1>1. \A p \in Person : at[p] # Nowhere => stack[p] > 0
  <2>1. \A p \in Person : stack[p] \in Nat
    BY DEF Inv, TypeOK
  <2>2. \A p \in Person : at[p] # Nowhere => stack[p] # 0
    BY DEF Inv, HandInv, HandIsWhole, BrokeInHand, InHandSeated
  <2> QED
    BY <2>1, <2>2
<1>2. \A t \in Made : t \in Table
  BY TypeFacts DEF Inv
<1>3. \A t \in Active : t \in Made /\ t \notin broken
  BY <1>2 DEF Active, SeatInv, SeatsHold
<1>4. \A p \in Person : at[p] # Nowhere => at[p] \in Active
  <2>1. ASSUME NEW p \in Person, at[p] # Nowhere PROVE at[p] \in Active
    <3>1. at[p] \in Table /\ p \in Seats(at[p])
      BY <2>1 DEF Inv, TypeOK, Seats
    <3> QED
      BY <3>1 DEF Active, SeatInv, SeatsHold
  <2> QED
    BY <2>1
<1>5. Nowhere \notin Active
  BY <1>2, <1>3
<1>6. Alive = Sitting(Active)
  BY <1>1, <1>4, <1>5 DEF Alive, Sitting
<1>7. \A t \in Table : Stacked(t) = Seats(t)
  <2>1. \A t \in Table : t # Nowhere
    OBVIOUS
  <2> QED
    BY <1>1, <2>1 DEF Stacked, Seats
<1> QED
  BY <1>2, <1>3, <1>6, <1>7 DEF InPlay

\* While anybody sits some table is the first to break.
LEMMA FirstExists ==
  ASSUME TypeOK, SeatInv, Active # {}
  PROVE  \E t \in Made : IsFirstToBreak(t)
<1> DEFINE I == {i \in DOMAIN breakOrder : Seats(breakOrder[i]) # {}}
<1>1. DOMAIN breakOrder = 1..Len(breakOrder) /\ Len(breakOrder) \in Nat
      /\ \A i \in DOMAIN breakOrder : breakOrder[i] \in Table
  BY LenProperties, ElementOfSeq DEF TypeOK
<1>2. I \in SUBSET Nat /\ I # {}
  <2>1. PICK t \in Active : TRUE
    OBVIOUS
  <2>2. t \in Made /\ Seats(t) # {}
    BY DEF Active
  <2>3. PICK i \in DOMAIN breakOrder : breakOrder[i] = t
    BY <2>2 DEF SeatInv, TablesInTurn
  <2> QED
    BY <1>1, <2>2, <2>3, SMTT(30)
<1>3. PICK i \in I : \A j \in I : i <= j
  BY <1>2, Least
<1>4. \A j \in 1..(i - 1) : Seats(breakOrder[j]) = {}
  <2>1. \A j \in 1..(i - 1) : j \in DOMAIN breakOrder /\ ~(i <= j)
    BY <1>1, <1>3
  <2> QED
    BY <1>3, <2>1
<1>5. IsFirstToBreak(breakOrder[i])
  BY <1>3, <1>4 DEF IsFirstToBreak
<1>6. breakOrder[i] \in Made
  BY <1>1, <1>3 DEF SeatInv, SeatsHold
<1> QED
  BY <1>5, <1>6

\* A table due to break, with no hand in progress, can be broken: the others
\* have room for everybody at it.
LEMMA DueCanBreak ==
  ASSUME Inv, SeatInv, dealing = {}, NEW t \in Made, DueToBreak(t)
  PROVE  CanBreak(t)
<1> DEFINE G == Active \intersect Rooms(t)
           F == Active \ ({t} \union Rooms(t))
<1>1. /\ Alive = Sitting(Active) /\ InPlay = Active /\ Active \in SUBSET Table
      /\ Made \subseteq Table
  BY Calm, TypeFacts DEF Inv
<1>2. /\ Cardinality(Active) >= 2 /\ Cardinality(Alive) <= (Cardinality(Active) - 1) * TableSize
      /\ IsFirstToBreak(t) /\ t \in Active
  BY <1>1 DEF DueToBreak, IsFirstToBreak, Active
<1>3. Rooms(t) \in SUBSET Table /\ F \in SUBSET Table /\ G \in SUBSET Table /\ t \in Table
  BY <1>1 DEF Rooms
<1>4. \A u \in Table : Count(u) \in Nat /\ Count(u) <= TableSize
  BY SeatsAreFew DEF SeatInv, SeatsHold
<1>5. \A u \in F : Count(u) = TableSize
  <2>1. \A u \in F : u \in Made \ broken /\ u # t /\ u \notin dealing /\ u \in Table
    BY <1>1 DEF InPlay, Active
  <2>2. \A u \in F : ~(Count(u) < TableSize)
    BY <2>1 DEF Rooms
  <2> QED
    BY <1>4, <2>1, <2>2, SizesAssumption
<1>6. \A u \in Rooms(t) : u # t /\ (u \in Active \/ Seats(u) = {})
  BY DEF Rooms, Active
<1>7. Active = {t} \union F \union G /\ t \notin F \union G /\ F \intersect G = {}
  BY <1>2, <1>6
<1>8. /\ Sitting(Active) = Seats(t) \union Sitting(F) \union Sitting(G)
      /\ Seats(t) \intersect Sitting(F) = {}
      /\ (Seats(t) \union Sitting(F)) \intersect Sitting(G) = {}
  BY <1>7 DEF Sitting, Seats
<1>9. Sitting(Rooms(t)) = Sitting(G)
  BY <1>6 DEF Sitting, Seats
<1> HIDE DEF F, G
<1>10. IsFiniteSet(F) /\ IsFiniteSet(G) /\ Cardinality(F) \in Nat /\ Cardinality(G) \in Nat
  BY <1>3, FewTables
<1>11. Cardinality(Active) = 1 + Cardinality(F) + Cardinality(G)
  <2>1. Cardinality(F \union G) = Cardinality(F) + Cardinality(G) /\ IsFiniteSet(F \union G)
    BY <1>7, <1>10, Apart, FS_Union
  <2>2. Active = (F \union G) \union {t}
    BY <1>7
  <2>3. Cardinality(Active) = Cardinality(F \union G) + 1
    BY <1>7, <2>1, <2>2, FS_AddElement
  <2> QED
    BY <1>10, <2>1, <2>3
<1>12. /\ IsFiniteSet(Sitting(F)) /\ IsFiniteSet(Sitting(G)) /\ IsFiniteSet(Seats(t))
       /\ Cardinality(Sitting(F)) \in Nat /\ Cardinality(Sitting(G)) \in Nat /\ Count(t) \in Nat
  <2>1. Sitting(F) \in SUBSET Person /\ Sitting(G) \in SUBSET Person
    BY DEF Sitting
  <2> QED
    BY <2>1, FiniteGroup, SeatsAreFew
<1>13. Cardinality(Alive) = Count(t) + Cardinality(Sitting(F)) + Cardinality(Sitting(G))
  <2>1. Cardinality(Seats(t) \union Sitting(F)) = Count(t) + Cardinality(Sitting(F))
        /\ IsFiniteSet(Seats(t) \union Sitting(F))
    BY <1>8, <1>12, Apart, FS_Union DEF Count
  <2>2. Cardinality(Sitting(Active)) =
          Cardinality(Seats(t) \union Sitting(F)) + Cardinality(Sitting(G))
    BY <1>8, <1>12, <2>1, Apart
  <2> QED
    BY <1>1, <2>1, <2>2
<1>14. Cardinality(Sitting(F)) = Cardinality(F) * TableSize
  BY <1>3, <1>4, <1>5, Crowd
<1>15. Cardinality(G) <= Cardinality(Rooms(t)) /\ Cardinality(Rooms(t)) \in Nat
  <2>1. IsFiniteSet(Rooms(t)) /\ G \in SUBSET Rooms(t) /\ Cardinality(Rooms(t)) \in Nat
    BY <1>3, FewTables DEF G
  <2> QED
    BY <2>1, FS_Subset
<1>16. Count(t) + Cardinality(Sitting(G)) <= Cardinality(G) * TableSize
  <2> DEFINE f == Cardinality(F)
             g == Cardinality(G)
  <2>1. f \in Nat /\ g \in Nat /\ TableSize \in Nat
    BY <1>10, SizesAssumption
  <2>2. Cardinality(Active) - 1 = f + g
    BY <1>11, <2>1
  <2>3. \A m \in Nat : (f + g) * m = f * m + g * m /\ f * m \in Nat /\ g * m \in Nat
    <3> HIDE DEF f, g
    <3> QED
      BY <2>1
  <2>4. Count(t) + f * TableSize + Cardinality(Sitting(G)) <= f * TableSize + g * TableSize
    BY <1>2, <1>13, <1>14, <2>1, <2>2, <2>3
  <2> HIDE DEF f, g
  <2>5. f * TableSize \in Nat /\ g * TableSize \in Nat
    BY <2>1, <2>3
  <2>6. Count(t) + Cardinality(Sitting(G)) <= g * TableSize
    BY <1>12, <2>4, <2>5
  <2> QED
    BY <2>6 DEF g
<1>17. Cardinality(G) * TableSize <= Cardinality(Rooms(t)) * TableSize
  <2>1. \A a, b, m \in Nat : a <= b => a * m <= b * m /\ a * m \in Nat /\ b * m \in Nat
    OBVIOUS
  <2> QED
    BY <1>10, <1>15, <2>1, SizesAssumption
<1>18. RoomFrom(t) >= Count(t)
  <2>1. RoomFrom(t) = Cardinality(Rooms(t)) * TableSize - Cardinality(Sitting(G))
    BY <1>9 DEF RoomFrom, Sitting
  <2>2. /\ Cardinality(G) * TableSize \in Int
        /\ Cardinality(Rooms(t)) * TableSize \in Int
    BY <1>10, <1>15, SizesAssumption
  <2> QED
    BY <1>12, <1>16, <1>17, <2>1, <2>2
<1>19. Cardinality(Active) \in Nat /\ t \notin dealing
  BY <1>1, FewTables
<1>20. Cardinality(Active) > 1
  BY <1>2, <1>19
<1> QED
  BY <1>2, <1>18, <1>19, <1>20 DEF CanBreak

\* Nor is there then a table that cannot deal and has to give its last stack
\* away: with a seat free elsewhere some table would be due to break.
LEMMA NobodyStranded ==
  ASSUME Inv, SeatInv, dealing = {}, \A u \in Made : ~DueToBreak(u), NEW t \in Table
  PROVE  ~CanCollapse(t)
<1>1. SUFFICES ASSUME CanCollapse(t) PROVE FALSE
  OBVIOUS
<1>2. /\ Alive = Sitting(Active) /\ InPlay = Active /\ Active \in SUBSET Table
      /\ Stacked(t) = Seats(t)
  BY Calm
<1>3. t \in Active /\ Count(t) = 1 /\ Cardinality(Active) > 1
  BY <1>1, <1>2 DEF CanCollapse, Count
<1>4. PICK u \in Refuge(t) : TRUE
  BY <1>1 DEF CanCollapse
<1>5. u \in Active /\ u # t /\ Count(u) < TableSize
  BY DEF Refuge, Seatable, Active
<1> DEFINE R == Active \ {t, u}
<1>6. R \in SUBSET Table /\ Active = R \union {t} \union {u} /\ t \notin R /\ u \notin R \union {t}
  BY <1>2, <1>3, <1>5
<1>7. Sitting(Active) = Sitting(R) \union Seats(t) \union Seats(u)
      /\ Sitting(R) \intersect Seats(t) = {} /\ (Sitting(R) \union Seats(t)) \intersect Seats(u) = {}
  BY <1>5, <1>6 DEF Sitting, Seats
<1> HIDE DEF R
<1>8. IsFiniteSet(R) /\ Cardinality(R) \in Nat
  BY <1>6, FewTables
<1>9. Cardinality(Active) = Cardinality(R) + 2
  <2>1. Cardinality(R \union {t}) = Cardinality(R) + 1 /\ IsFiniteSet(R \union {t})
    BY <1>6, <1>8, FS_AddElement
  <2>2. Cardinality(Active) = Cardinality(R \union {t}) + 1
    BY <1>6, <2>1, FS_AddElement
  <2> QED
    BY <1>8, <2>1, <2>2
<1>10. /\ IsFiniteSet(Sitting(R)) /\ IsFiniteSet(Seats(t)) /\ IsFiniteSet(Seats(u))
       /\ Cardinality(Sitting(R)) \in Nat /\ Count(u) \in Nat
  <2>1. Sitting(R) \in SUBSET Person
    BY DEF Sitting
  <2> QED
    BY <2>1, FiniteGroup, SeatsAreFew
<1>11. Cardinality(Alive) = Cardinality(Sitting(R)) + 1 + Count(u)
  <2>1. Cardinality(Sitting(R) \union Seats(t)) = Cardinality(Sitting(R)) + 1
        /\ IsFiniteSet(Sitting(R) \union Seats(t))
    BY <1>3, <1>7, <1>10, Apart, FS_Union DEF Count
  <2>2. Cardinality(Sitting(Active)) = Cardinality(Sitting(R) \union Seats(t)) + Count(u)
    BY <1>7, <1>10, <2>1, Apart DEF Count
  <2> QED
    BY <1>2, <2>1, <2>2
<1>12. Cardinality(Sitting(R)) <= Cardinality(R) * TableSize
  <2>1. \A v \in R : Count(v) <= TableSize
    BY <1>6 DEF SeatInv, SeatsHold
  <2> QED
    BY <1>6, <2>1, Crowd
<1>13. Cardinality(Alive) <= (Cardinality(Active) - 1) * TableSize
  <2>1. /\ Cardinality(Active) - 1 = Cardinality(R) + 1
        /\ (Cardinality(R) + 1) * TableSize = Cardinality(R) * TableSize + TableSize
        /\ Cardinality(R) * TableSize \in Nat /\ TableSize \in Nat
    BY <1>8, <1>9, OneTableMore, SizesAssumption
  <2>2. Cardinality(Alive) <= Cardinality(R) * TableSize + TableSize
    BY <1>5, <1>10, <1>11, <1>12, <2>1
  <2> QED
    BY <2>1, <2>2
<1>14. PICK v \in Made : IsFirstToBreak(v)
  BY <1>3, FirstExists DEF Inv
<1>15. DueToBreak(v)
  BY <1>2, <1>8, <1>9, <1>13, <1>14 DEF DueToBreak
<1> QED
  BY <1>15

Even == \A t, u \in InPlay : Count(t) - Count(u) <= 1

\* When the balancer has nothing to do and no hand is in its way, the tables
\* are level.
LEMMA BalancedEven ==
  ASSUME Inv, SeatInv, dealing = {}, \A from, to \in Made : ~CanBalance(from, to)
  PROVE  Even
<1>1. InPlay = Active /\ Active \in SUBSET Table /\ \A t \in Active : t \in Made
  BY Calm DEF Active
<1>2. \A t \in Active : Count(t) \in Nat /\ Count(t) <= TableSize
  BY <1>1, SeatsAreFew DEF SeatInv, SeatsHold
<1>3. SUFFICES ASSUME NEW t \in Active, NEW u \in Active, Count(t) - Count(u) > 1 PROVE FALSE
  <2>1. \A t, u \in Active : Count(t) - Count(u) > 1 \/ Count(t) - Count(u) <= 1
    BY <1>2
  <2> QED
    BY <1>1, <2>1 DEF Even
<1>4. PICK f \in Active : IsFewest(f, Active)
  BY <1>1, <1>2, <1>3, FewestAndMost
<1>5. PICK m \in Active : IsMost(m, Active)
  BY <1>1, <1>2, <1>3, FewestAndMost
<1>6. Count(f) <= Count(u) /\ Count(t) <= Count(m)
  BY <1>2, <1>4, <1>5 DEF IsFewest, IsMost
<1>7. Count(m) - Count(f) > 1
  BY <1>2, <1>3, <1>6
<1>8. Cardinality(Active) >= 2
  <2>1. t # u /\ IsFiniteSet(Active) /\ {t, u} \in SUBSET Active
    BY <1>1, <1>2, <1>3, FewTables
  <2>2. Cardinality({t, u}) = 2
    <3>1. Cardinality({t}) = 1 /\ IsFiniteSet({t})
      BY FS_Singleton
    <3>2. {t, u} = {t} \union {u} /\ u \notin {t}
      BY <2>1
    <3>3. Cardinality({t} \union {u}) = Cardinality({t}) + 1
      BY <3>1, <3>2, FS_AddElement
    <3> QED
      BY <3>1, <3>2, <3>3
  <2>3. Cardinality({t, u}) <= Cardinality(Active)
    BY <2>1, FS_Subset
  <2> QED
    BY <2>2, <2>3
<1>9. CanBalance(m, f)
  BY <1>1, <1>4, <1>5, <1>7, <1>8 DEF CanBalance
<1> QED
  BY <1>1, <1>9

\* The balancer empties no table and brings none into play.
LEMMA BalanceKeepsTables ==
  ASSUME Inv, SeatInv, dealing = {}, NEW p \in Person, NEW t \in Table, Balance(p, t)
  PROVE  \A u \in Table : Seats(u)' = {} <=> Seats(u) = {}
<1>1. /\ at' = [at EXCEPT ![p] = t] /\ at[p] # Nowhere
      /\ t \in InPlay /\ Count(at[p]) - Count(t) > 1
  BY DEF Balance, CanBalance, IsFewest
<1>2. t # at[p] /\ at \in [Person -> Table \union {Nowhere}] /\ Seats(t) # {}
  BY <1>1, SeatsAreFew DEF InPlay, Active, Inv, TypeOK
<1>3. \A u \in Table : u # t /\ u # at[p] => Seats(u)' = Seats(u)
  BY <1>1, <1>2 DEF Seats
<1>4. Seats(t)' # {}
  BY <1>1, <1>2 DEF Seats
<1>5. PICK q \in Seats(at[p]) : q # p
  <2>1. SUFFICES ASSUME Seats(at[p]) \subseteq {p} PROVE FALSE
    OBVIOUS
  <2>2. Cardinality({p}) = 1 /\ IsFiniteSet({p})
    BY FS_Singleton
  <2>3. Count(at[p]) <= 1 /\ Count(at[p]) \in Nat /\ Count(t) \in Nat
    BY <2>1, <2>2, FS_Subset, SeatsAreFew DEF Count
  <2> QED
    BY <1>1, <2>3
<1>6. Seats(at[p]) # {} /\ q \in Person /\ at'[q] = at[p]
  BY <1>1, <1>2, <1>5 DEF Seats
<1>7. \A u \in Table : u = at[p] => Seats(u)' # {} /\ Seats(u) # {}
  BY <1>6 DEF Seats
<1> QED
  BY <1>2, <1>3, <1>4, <1>7

\* What each stage of the rebalancing has achieved when no hand is in its way.
NoneDue == \A t \in Made : ~DueToBreak(t)
SettleInv ==
  status = "running" /\ dealing = {} =>
    /\ doing \in {"balance", "collapse", "sweep"} => NoneDue
    /\ doing \in {"collapse", "sweep"} => Even

\* Where the seats, the stacks and the order of the tables stay, so does both.
LEMMA LevelStays ==
  ASSUME UNCHANGED <<at, stack, opened, broken, breakOrder>>
  PROVE  (NoneDue => NoneDue') /\ (Even => Even')
<1>1. Made' = Made /\ Alive' = Alive /\ \A t : Seats(t)' = Seats(t) /\ Count(t)' = Count(t)
  BY DEF Made, Alive, Seats, Count
<1>2. Active' = Active /\ InPlay' = InPlay
  BY <1>1 DEF Active, InPlay
<1>3. \A t : IsFirstToBreak(t)' => IsFirstToBreak(t)
  BY DEF IsFirstToBreak, Seats
<1>4. \A t : DueToBreak(t)' => DueToBreak(t)
  BY <1>1, <1>2, <1>3 DEF DueToBreak
<1> QED
  BY <1>1, <1>2, <1>4 DEF NoneDue, Even

LEMMA BalanceKeepsNoneDue ==
  ASSUME Inv, SeatInv, dealing = {}, NoneDue, NEW p \in Person, NEW t \in Table, Balance(p, t)
  PROVE  NoneDue'
<1>1. \A u \in Table : Seats(u)' = {} <=> Seats(u) = {}
  BY BalanceKeepsTables
<1>2. /\ Made' = Made /\ broken' = broken /\ breakOrder' = breakOrder /\ stack' = stack
      /\ at' = [at EXCEPT ![p] = t] /\ at[p] # Nowhere /\ Made \subseteq Table
  BY TypeFacts DEF Balance, Made, Inv
<1>3. Active' = Active /\ InPlay' = InPlay
  BY <1>1, <1>2 DEF Active, InPlay
<1>4. Alive' = Alive
  <2>1. t # Nowhere /\ at \in [Person -> Table \union {Nowhere}]
    BY DEF Inv, TypeOK
  <2> QED
    BY <1>2, <2>1 DEF Alive
<1>5. \A u \in Made : IsFirstToBreak(u)' => IsFirstToBreak(u)
  <2>1. /\ DOMAIN breakOrder = 1..Len(breakOrder) /\ Len(breakOrder) \in Nat
        /\ \A i \in DOMAIN breakOrder : breakOrder[i] \in Table
    <3>1. breakOrder \in Seq(Table)
      BY DEF Inv, TypeOK
    <3> HIDE DEF Table
    <3> QED
      BY <3>1, LenProperties, ElementOfSeq
  <2>2. SUFFICES ASSUME NEW u \in Made, IsFirstToBreak(u)' PROVE IsFirstToBreak(u)
    OBVIOUS
  <2>3. PICK i \in DOMAIN breakOrder :
          /\ breakOrder[i] = u /\ Seats(u)' # {}
          /\ \A j \in 1..(i - 1) : Seats(breakOrder[j])' = {}
    BY <1>2, <2>2 DEF IsFirstToBreak
  <2>4. \A j \in 1..(i - 1) : j \in DOMAIN breakOrder
    BY <2>1
  <2>5. \A j \in 1..(i - 1) : Seats(breakOrder[j]) = {}
    <3>1. ASSUME NEW v \in Table, \A q \in Person : at'[q] # v PROVE Seats(v) = {}
      BY <1>1, <3>1 DEF Seats
    <3>2. \A j \in 1..(i - 1) : \A q \in Person : at'[q] # breakOrder[j]
      BY <1>2, <2>3 DEF Seats
    <3> QED
      BY <2>1, <2>4, <3>1, <3>2
  <2>6. Seats(u) # {}
    BY <1>1, <1>2, <2>3
  <2> QED
    BY <2>3, <2>5, <2>6 DEF IsFirstToBreak
<1>6. \A u \in Made : DueToBreak(u)' => DueToBreak(u)
  BY <1>3, <1>4, <1>5 DEF DueToBreak
<1> QED
  BY <1>2, <1>6 DEF NoneDue

LEMMA SettleStep ==
  ASSUME Inv, SeatInv, SettleInv, [Next]_vars
  PROVE  SettleInv'
<1> USE DEF SettleInv
<1> DEFINE Late == {"balance", "collapse", "sweep"}
           Held == UNCHANGED <<at, stack, opened, broken, breakOrder>>
<1>0. CASE UNCHANGED vars
  <2>1. UNCHANGED <<status, dealing, doing>> /\ Held
    BY <1>0 DEF agenda
  <2> QED
    BY <2>1, LevelStays
<1>1. CASE NoBreak
  <2>1. /\ Held /\ UNCHANGED <<status, dealing>> /\ doing' = "balance"
        /\ \A t \in Made : ~CanBreak(t)
    BY <1>1 DEF NoBreak, GoTo, Agenda
  <2>2. dealing = {} => NoneDue
    BY <2>1, DueCanBreak DEF NoneDue
  <2> QED
    BY <2>1, <2>2, LevelStays
<1>2. ASSUME NEW p \in Person, NEW t \in Table, Balance(p, t) PROVE SettleInv'
  <2>1. UNCHANGED <<status, dealing, doing>> /\ doing = "balance"
    BY <1>2 DEF Balance, Doing, agenda
  <2> QED
    BY <1>2, <2>1, BalanceKeepsNoneDue
<1>3. CASE Balanced
  <2>1. /\ Held /\ UNCHANGED <<status, dealing>> /\ doing = "balance" /\ doing' = "collapse"
        /\ \A from, to \in Made : ~CanBalance(from, to)
    BY <1>3 DEF Balanced, Doing, GoTo, Agenda
  <2>2. dealing = {} => Even
    BY <2>1, BalancedEven
  <2> QED
    BY <2>1, <2>2, LevelStays
<1>4. ASSUME NEW t \in Table, Collapse(t) PROVE SettleInv'
  <2>1. /\ status = "running" /\ UNCHANGED dealing /\ doing = "collapse" /\ CanCollapse(t)
    BY <1>4 DEF Collapse, Doing
  <2>2. dealing # {}
    BY <2>1, NobodyStranded DEF NoneDue
  <2> QED
    BY <2>1, <2>2
<1>5. CASE Collapsed
  <2>1. Held /\ UNCHANGED <<status, dealing>> /\ doing = "collapse" /\ doing' = "sweep"
    BY <1>5 DEF Collapsed, Doing, GoTo, Agenda
  <2> QED
    BY <2>1, LevelStays
<1>6. ASSUME NEW p \in Person, NEW t \in Table, RequestMove(p, t) PROVE SettleInv'
  BY <1>6 DEF RequestMove, Running, Idle, SettleField, Agenda, agenda
<1>7. ASSUME NEW p \in Person, NEW n \in 1..stack[p], Wager(p, n) PROVE SettleInv'
  BY <1>7 DEF Wager, Running, Idle, agenda
<1>8. ASSUME NEW p \in Person,
             \/ Register(p) \/ Unregister(p) \/ RegisterLate(p) \/ Reenter(p)
             \/ TakeAddOn(p) \/ RemoveFromPlay(p) \/ Reconnect(p)
      PROVE  SettleInv'
  BY <1>8 DEF Register, Unregister, RegisterLate, Reenter, TakeAddOn, RemoveFromPlay, Reconnect,
              Running, Idle, SettleField, Agenda, agenda
<1>9. CASE Start \/ LevelUp \/ Hold \/ \E i \in Row : StepLevel(i)
  BY <1>9 DEF Start, LevelUp, Hold, StepLevel, Running, Idle, agenda, Inv, HandInv, NotStarted
<1>10. CASE \/ QueuedDone \/ Finish \/ PlayOn \/ MovesDone \/ Emptied \/ Sweep
            \/ TickMovesDone \/ DealtAll \/ Tick
  BY <1>10 DEF QueuedDone, Finish, PlayOn, MovesDone, Emptied, Sweep, TickMovesDone, DealtAll,
               Tick, ReadyOnTick, GoTo, EndHandler, Agenda
<1>11. ASSUME NEW p \in Person, ApplyRemoval(p) \/ ApplyAddOn(p) \/ ApplyMove(p) \/ CarryOff(p)
       PROVE  SettleInv'
  BY <1>11 DEF ApplyRemoval, ApplyAddOn, ApplyMove, CarryOff, Queued, Doing, WorkOn, Agenda, agenda
<1>12. ASSUME NEW t \in Table, BeginBreak(t) \/ Deal(t) \/ EndHand(t) \/ Rested(t)
       PROVE  SettleInv'
  BY <1>12 DEF BeginBreak, Deal, EndHand, Rested, Running, Idle, Doing, WorkOn, Agenda, agenda
<1>13. CASE Ask
  BY <1>13, <1>6, <1>7, <1>8, <1>9 DEF Ask
<1>14. CASE Follow
  BY <1>14, <1>1, <1>2, <1>3, <1>4, <1>5, <1>10, <1>11, <1>12 DEF Follow
<1> QED
  BY <1>0, <1>10, <1>12, <1>13, <1>14 DEF Next

\* When a handler has put the field right with no hand in progress, no two
\* tables differ by more than a player and no table is waiting to break.
THEOREM FieldIsLevel == Spec => []SettledEven
<1>1. Init => SettleInv
  BY DEF Init, SettleInv
<1>2. Inv /\ SeatInv /\ SettleInv /\ [Next]_vars => SettleInv'
  BY SettleStep
<1>3. SettleInv => SettledEven
  BY DEF SettleInv, SettledEven, NoneDue, Even, Doing
<1> QED
  BY <1>1, <1>2, <1>3, SeatsAre, PTL DEF Spec

-----------------------------------------------------------------------------
(* The standings *)

Seated == {p \in Person : at[p] # Nowhere}
Uids(s) == [i \in 1..Len(s) |-> s[i].uid]

\* What the ledger says next to the seats: the line s of those who went out,
\* and under it the champion's own once nobody else is on the felt.
Standing(s) ==
  /\ InOrder(s, Cardinality(Seated) + Len(s))
  /\ \A i \in 1..Len(s) : s[i].uid \notin Seated
  /\ outs = s \/ \E w \in Person : Seated = {w} /\ outs = Append(s, Out(w, 1))

Reads(s) ==
  /\ StillIn = Seated /\ BustOuts = Uids(s)
  /\ PlacesShown = Promise!Places(Seated, Uids(s))

\* Where the lines of a ledger are when one more has been written.
LEMMA OneLineMore ==
  ASSUME NEW s \in Seq(Line), NEW l \in Line
  PROVE  /\ Len(s) \in Nat /\ DOMAIN s = 1..Len(s) /\ Len(Append(s, l)) = Len(s) + 1
         /\ DOMAIN Append(s, l) = 1..(Len(s) + 1)
         /\ \A i \in 1..Len(s) : Append(s, l)[i] = s[i]
         /\ Append(s, l)[Len(s) + 1] = l
<1> DEFINE r == Append(s, l)
<1>1. Len(s) \in Nat /\ DOMAIN s = 1..Len(s)
  BY LenProperties
<1>2. r \in Seq(Line) /\ Len(r) = Len(s) + 1
  BY AppendProperties
<1>3. DOMAIN r = 1..(Len(s) + 1)
  BY <1>2, LenProperties
<1>4. (\A i \in 1..Len(s) : r[i] = s[i]) /\ r[Len(s) + 1] = l
  BY AppendProperties
<1> QED
  BY <1>1, <1>2, <1>3, <1>4

\* Standings counts people as the field does.
LEMMA SameCount == \A S : Promise!Cardinality(S) = Cardinality(S)
BY DEF Promise!Cardinality, Cardinality, Promise!IsFiniteSet, IsFiniteSet

\* The lines of a ledger with different people in it give everybody one place.
LEMMA OnePlace ==
  ASSUME NEW s \in Seq(Line), NEW S \in SUBSET Person, InOrder(s, Cardinality(S) + Len(s)),
         NEW k \in 1..Len(s)
  PROVE  /\ Promise!Places(S, Uids(s))[s[k].uid] = s[k].place
         /\ s[k].uid \in Person
<1>1. Len(s) \in Nat /\ DOMAIN s = 1..Len(s) /\ Cardinality(S) \in Nat
  BY LenProperties, FiniteGroup
<1>2. s[k].uid \in Person
  <2>1. s[k] \in Line
    BY <1>1, ElementOfSeq
  <2> QED
    BY <2>1 DEF Line
<1>3. s[k].place = Cardinality(S) + Len(s) - k + 1
  BY <1>1 DEF InOrder
<1> DEFINE u == Uids(s)
<1>4. DOMAIN u = 1..Len(s) /\ Len(u) = Len(s) /\ \A i \in 1..Len(s) : u[i] = s[i].uid
  BY <1>1 DEF Uids
<1>5. \A i \in 1..Len(s) : u[i] = u[k] => i = k
  BY <1>1, <1>4 DEF InOrder
<1> HIDE DEF u
<1>6. (CHOOSE i \in DOMAIN u : u[i] = u[k]) = k
  BY <1>4, <1>5
<1>7. u[k] = s[k].uid /\ k \in DOMAIN u
  BY <1>4
<1>8. Promise!Places(S, u)[u[k]] = Cardinality(S) + Len(u) + 1 - k
  BY <1>2, <1>6, <1>7, SameCount DEF Promise!Places
<1> QED
  BY <1>1, <1>2, <1>3, <1>4, <1>7, <1>8 DEF u

LEMMA NoPlace ==
  ASSUME NEW s \in Seq(Line), NEW S \in SUBSET Person, NEW p \in Person,
         \A i \in 1..Len(s) : s[i].uid # p
  PROVE  Promise!Places(S, Uids(s))[p] = 0
<1>1. Len(s) \in Nat
  BY LenProperties
<1>2. ~ \E i \in DOMAIN Uids(s) : Uids(s)[i] = p
  BY <1>1 DEF Uids
<1> QED
  BY <1>2 DEF Promise!Places

StandingIsRead == \A s \in Seq(Line) : status = "running" /\ Standing(s) => Reads(s)

\* Where the ledger stands as it should, what is shown is what it says.
LEMMA StandingReads == StandingIsRead
<1> SUFFICES ASSUME NEW s \in Seq(Line), status = "running", Standing(s) PROVE Reads(s)
  BY DEF StandingIsRead
<1>1. Len(s) \in Nat /\ DOMAIN s = 1..Len(s)
  BY LenProperties
<1>2. /\ \A i \in 1..Len(s) : i \in DOMAIN outs /\ outs[i] = s[i]
      /\ \A i \in DOMAIN outs : i \in 1..Len(s) \/ outs[i].uid \in Seated
      /\ Len(s) = IF ChampionWritten THEN Len(outs) - 1 ELSE Len(outs)
  <2>1. CASE outs = s
    <3>1. outs # <<>> => Len(s) \in 1..Len(s)
      BY <1>1, <2>1, EmptySeq
    <3>2. outs # <<>> => outs[Len(outs)].uid \in Person \ Seated
      <4>1. outs # <<>> => s[Len(s)] \in Line
        BY <3>1, ElementOfSeq
      <4>2. outs # <<>> => s[Len(s)].uid \in Person
        BY <4>1 DEF Line
      <4> QED
        BY <2>1, <3>1, <4>2 DEF Standing
    <3>3. ~ChampionWritten
      BY <3>2 DEF ChampionWritten, Seated
    <3> QED
      BY <1>1, <2>1, <3>3
  <2>2. CASE outs # s
    <3>1. PICK w \in Person : Seated = {w} /\ outs = Append(s, Out(w, 1))
      BY <2>2 DEF Standing
    <3>2. Out(w, 1) \in Line /\ Out(w, 1).uid = w
      BY LineType DEF Out
    <3>3. /\ Len(outs) = Len(s) + 1 /\ DOMAIN outs = 1..(Len(s) + 1)
          /\ \A i \in 1..Len(s) : outs[i] = s[i]
          /\ outs[Len(s) + 1].uid = w
      BY <3>1, <3>2, OneLineMore
    <3>4. outs # <<>>
      BY <1>1, <3>3
    <3>5. ChampionWritten
      BY <3>1, <3>3, <3>4 DEF ChampionWritten, Seated
    <3> QED
      BY <1>1, <3>1, <3>3, <3>5
  <2> QED
    BY <2>1, <2>2
<1>3. BustOuts = Uids(s)
  BY <1>1, <1>2 DEF BustOuts, Uids
<1>4. StillIn = Seated
  BY DEF StillIn, Seated
<1>5. ASSUME NEW p \in Person
      PROVE  PlaceShown(p) = Promise!Places(Seated, Uids(s))[p]
  <2> DEFINE lines == {i \in DOMAIN outs : outs[i].uid = p}
  <2>0. Seated \in SUBSET Person /\ InOrder(s, Cardinality(Seated) + Len(s))
    BY DEF Seated, Standing
  <2>1. CASE \E k \in 1..Len(s) : s[k].uid = p
    <3>1. PICK k \in 1..Len(s) : s[k].uid = p
      BY <2>1
    <3>2. p \notin Seated /\ at[p] = Nowhere
      BY <3>1 DEF Standing, Seated
    <3>3. lines = {k}
      BY <1>1, <1>2, <3>1, <3>2, SMTT(30) DEF Standing, InOrder
    <3>4. (CHOOSE i \in lines : \A j \in lines : j <= i) = k
      BY <3>3
    <3>5. PlaceShown(p) = outs[k].place
      <4> HIDE DEF lines
      <4>1. lines # {}
        BY <3>3
      <4> QED
        BY <3>2, <3>4, <4>1 DEF PlaceShown, lines
    <3>6. Promise!Places(Seated, Uids(s))[p] = s[k].place
      BY <2>0, <3>1, OnePlace
    <3> QED
      BY <1>2, <3>5, <3>6
  <2>2. CASE \A k \in 1..Len(s) : s[k].uid # p
    <3>1. PlaceShown(p) = 0
      <4>1. lines = {} \/ at[p] # Nowhere
        BY <1>2, <2>2 DEF Seated
      <4> QED
        BY <4>1 DEF PlaceShown
    <3>2. Promise!Places(Seated, Uids(s))[p] = 0
      BY <2>0, <2>2, NoPlace
    <3> QED
      BY <3>1, <3>2
  <2> QED
    BY <2>1, <2>2
<1>6. PlacesShown = Promise!Places(Seated, Uids(s))
  BY <1>5 DEF PlacesShown, Promise!Places
<1> QED
  BY <1>3, <1>4, <1>6 DEF Reads

LEMMA StandingReadsNext == StandingIsRead'
BY StandingReads, PTL

-----------------------------------------------------------------------------
(* One table, nobody taken out *)

OneTable == MaxTables = 1 /\ MaxRemovals = 0

\* The end the engine declares is one person on the felt and their line under
\* everybody else's; until then two are left, and chips.
Decided ==
  \E s \in Seq(Line) : \E w \in Person :
    Standing(s) /\ Seated = {w} /\ outs = Append(s, Out(w, 1))

OneInv ==
  /\ removals = {}
  /\ status = "registering" => outs = <<>> /\ winner = Nobody /\ ~over
  /\ status = "running" =>
       /\ winner = Nobody /\ expected > 0
       /\ doing \in {"queued", "settle"} => dealing = {}
       /\ IF over THEN Decided ELSE Cardinality(Seated) >= 2

\* A ledger of different people has as many lines as people.
LEMMA LinesArePeople ==
  ASSUME NEW s \in Seq(Line), NEW n, InOrder(s, n)
  PROVE  /\ Named(s) \in SUBSET Person /\ Len(s) \in Nat /\ IsFiniteSet(Named(s))
         /\ Cardinality(Named(s)) = Len(s)
<1>1. Len(s) \in Nat /\ DOMAIN s = 1..Len(s)
  BY LenProperties
<1>2. \A i \in 1..Len(s) : s[i].uid \in Person
  <2>1. \A i \in 1..Len(s) : s[i] \in Line
    BY ElementOfSeq
  <2> QED
    BY <2>1 DEF Line
<1>3. Named(s) \in SUBSET Person
  BY <1>1, <1>2 DEF Named
<1> DEFINE u == Uids(s)
<1>4. u \in [1..Len(s) -> Named(s)] /\ \A i \in 1..Len(s) : u[i] = s[i].uid
  BY <1>1 DEF Uids, Named
<1>5. \A i, j \in 1..Len(s) : i # j => u[i] # u[j]
  BY <1>1, <1>4 DEF InOrder
<1>6. \A x \in Named(s) : \E i \in 1..Len(s) : u[i] = x
  BY <1>1, <1>4 DEF Named
<1> HIDE DEF u
<1>7. u \in Bijection(1..Len(s), Named(s))
  BY <1>4, <1>5, <1>6 DEF Bijection, Injection, Surjection, IsInjective
<1>8. IsFiniteSet(1..Len(s)) /\ Cardinality(1..Len(s)) = Len(s)
  BY <1>1, FS_Interval
<1>9. IsFiniteSet(Named(s)) /\ Cardinality(Named(s)) = Len(s)
  <2>1. ExistsBijection(1..Len(s), Named(s))
    BY <1>7 DEF ExistsBijection
  <2> QED
    BY <1>8, <2>1, FS_Bijection
<1> QED
  BY <1>1, <1>3, <1>9

\* While the end is not declared, the whole ledger is that line.
NowStands == TypeOK /\ LedgerNow =>
  Standing(outs) /\ fieldSize = Cardinality(Seated) + Len(outs) /\ outs \in Seq(Line)

LEMMA NowStanding == NowStands
<1> SUFFICES ASSUME TypeOK, LedgerNow
             PROVE  /\ Standing(outs) /\ fieldSize = Cardinality(Seated) + Len(outs)
                    /\ outs \in Seq(Line)
  BY DEF NowStands
<1>1. outs \in Seq(Line) /\ InOrder(outs, fieldSize) /\ fieldSize = Cardinality(entrants)
  BY TypeFacts DEF LedgerNow
<1>2. /\ Named(outs) \in SUBSET Person /\ Len(outs) \in Nat /\ IsFiniteSet(Named(outs))
      /\ Cardinality(Named(outs)) = Len(outs)
  BY <1>1, LinesArePeople
<1>3. Seated \in SUBSET Person /\ IsFiniteSet(Seated) /\ Cardinality(Seated) \in Nat
  BY FiniteGroup DEF Seated
<1>4. entrants = Seated \union Named(outs) /\ Seated \intersect Named(outs) = {}
  BY <1>2 DEF LedgerNow, Seated, TypeOK
<1>5. Cardinality(entrants) = Cardinality(Seated) + Cardinality(Named(outs))
  <2>1. Cardinality(Seated \union Named(outs))
          = Cardinality(Seated) + Cardinality(Named(outs)) - Cardinality(Seated \intersect Named(outs))
    BY <1>2, <1>3, FS_Union
  <2>2. Cardinality(Seated \intersect Named(outs)) = 0
    BY <1>4, FS_EmptySet
  <2> QED
    BY <1>2, <1>3, <1>4, <2>1, <2>2
<1>6. \A i \in 1..Len(outs) : outs[i].uid \in Named(outs)
  BY <1>1, LenProperties DEF Named
<1> QED
  BY <1>1, <1>2, <1>4, <1>5, <1>6 DEF Standing

LEMMA NowStandingNext == NowStands'
BY NowStanding, PTL

-----------------------------------------------------------------------------
(* What is shown stays as it is *)

Unseen == UNCHANGED <<Phase, StillIn, BustOuts, PlacesShown, winner>>

LEMMA UnseenRunning ==
  ASSUME status = "running", status' = "running", winner' = winner,
         NEW s \in Seq(Line), Standing(s), Standing(s)', Seated' = Seated
  PROVE  Unseen
<1>1. Reads(s)
  BY StandingReads DEF StandingIsRead
<1>2. Reads(s)'
  BY StandingReadsNext DEF StandingIsRead
<1>3. Phase' = Phase
  BY DEF Phase
<1> QED
  BY <1>1, <1>2, <1>3 DEF Reads, Unseen

-----------------------------------------------------------------------------
(* The steps that take nobody in or out *)

\* With one table there is nowhere to move to.
LEMMA NoMoves ==
  ASSUME OneTable, TypeOK, NEW p \in Person, NEW t \in Table
  PROVE  ~RequestMove(p, t)
<1>1. at[p] \in 0..1 /\ t = 1
  BY SizesAssumption DEF TypeOK, OneTable
<1> QED
  BY <1>1 DEF RequestMove, MoveStands

LEMMA NobodyIsTaken ==
  ASSUME OneTable, TypeOK, NEW p \in Person
  PROVE  ~RemoveFromPlay(p)
<1>1. barred \union {p} \in SUBSET Person
  BY DEF TypeOK
<1>2. IsFiniteSet(barred \union {p}) /\ Cardinality(barred \union {p}) \in Nat
  BY <1>1, FiniteGroup
<1>3. Cardinality(barred \union {p}) # 0
  BY <1>2, FS_EmptySet
<1> QED
  BY <1>2, <1>3 DEF RemoveFromPlay, OneTable

\* A handler settles the field only when its one table is not dealing.
LEMMA SettledIdle ==
  ASSUME OneTable, Inv, OneInv, LedgerQuiet, status = "running",
         doing' \in {"queued", "settle"}
  PROVE  dealing' = {}
<1>1. doing \in {"queued", "settle"} => dealing = {}
  BY DEF OneInv
<1>2. dealing \subseteq {1} /\ \A p \in Person : at[p] \in 0..1
  BY SizesAssumption DEF Inv, TypeOK, OneTable
<1>3. ASSUME NEW p \in Person, TakeAddOn(p) PROVE dealing' = {}
  BY <1>1, <1>2, <1>3 DEF TakeAddOn, Running, Idle, agenda
<1>4. ASSUME NEW p \in Person, Reconnect(p) \/ ApplyAddOn(p) \/ ApplyMove(p) \/ CarryOff(p)
      PROVE  dealing' = {}
  BY <1>1, <1>4 DEF Reconnect, ApplyAddOn, ApplyMove, CarryOff, WorkOn, Agenda, Doing, agenda
<1>5. ASSUME NEW p \in Person, NEW n \in 1..stack[p], Wager(p, n) PROVE dealing' = {}
  BY <1>1, <1>5 DEF Wager, agenda
<1>6. ASSUME NEW p \in Person, NEW t \in Table, RequestMove(p, t) \/ Balance(p, t)
      PROVE  dealing' = {}
  BY <1>1, <1>6, NoMoves DEF Balance, agenda, Inv
<1>7. CASE \/ LevelUp \/ Hold \/ \E i \in Row : StepLevel(i)
           \/ QueuedDone \/ PlayOn \/ MovesDone \/ NoBreak \/ Emptied \/ Balanced \/ Collapsed
           \/ Sweep \/ DealtAll
  BY <1>1, <1>7 DEF LevelUp, Hold, StepLevel, QueuedDone, PlayOn, MovesDone, NoBreak, Emptied,
     Balanced, Collapsed, Sweep, DealtAll, agenda, hand, GoTo, EndHandler, Agenda, Queued, Doing
<1>8. CASE TickMovesDone \/ Tick
  BY <1>1, <1>8 DEF TickMovesDone, Tick, ReadyOnTick, GoTo, Agenda
<1>9. ASSUME NEW t \in Table, Rested(t) \/ Deal(t) \/ BeginBreak(t) \/ Collapse(t)
      PROVE  dealing' = {}
  BY <1>1, <1>9 DEF Rested, Deal, BeginBreak, Collapse, WorkOn, Agenda, Doing, agenda
<1> QED
  BY <1>3, <1>4, <1>5, <1>6, <1>7, <1>8, <1>9 DEF LedgerQuiet

LEMMA OneQuiet ==
  ASSUME OneTable, Inv, Inv', SeatInv, LedgerInv, LedgerInv', OneInv, LedgerQuiet
  PROVE  OneInv' /\ Unseen
<1>1. /\ UNCHANGED <<entrants, outs, fieldSize, status>> /\ status = "running"
      /\ over' <=> over
  BY LedgerQuietKeeps
<1>2. Seated' = Seated
  BY SeatForSeat DEF Inv, Seated
<1>3. winner' = winner
  BY DEF LedgerQuiet, TakeAddOn, Reconnect, ApplyAddOn, ApplyMove, CarryOff, Wager, RequestMove,
         Balance, LevelUp, Hold, StepLevel, QueuedDone, PlayOn, MovesDone, NoBreak, Emptied,
         Balanced, Collapsed, Sweep, TickMovesDone, DealtAll, Tick, Rested, Deal, BeginBreak,
         Collapse
<1>4. removals' = {}
  <2>1. removals = {}
    BY DEF OneInv
  <2> QED
    BY <2>1 DEF LedgerQuiet, TakeAddOn, Reconnect, ApplyAddOn, ApplyMove, CarryOff, Wager,
         RequestMove, Balance, LevelUp, Hold, StepLevel, QueuedDone, PlayOn, MovesDone, NoBreak,
         Emptied, Balanced, Collapsed, Sweep, TickMovesDone, DealtAll, Tick, Rested, Deal,
         BeginBreak, Collapse
<1>5. expected' > 0
  <2>1. expected > 0 /\ expected \in Int /\ StartChips \in Nat
    BY <1>1, SizesAssumption DEF OneInv, Inv, TypeOK
  <2>2. ASSUME NEW p \in Person, TakeAddOn(p) \/ ApplyAddOn(p)
        PROVE  expected' = expected \/ expected' = expected + StartChips
    BY <2>2 DEF TakeAddOn, ApplyAddOn
  <2>3. expected' = expected \/ expected' = expected + StartChips
    BY <2>2, ZenonT(60) DEF LedgerQuiet, Reconnect, ApplyMove, CarryOff, Wager, RequestMove,
         Balance, LevelUp, Hold, StepLevel, QueuedDone, PlayOn, MovesDone, NoBreak, Emptied,
         Balanced, Collapsed, Sweep, TickMovesDone, DealtAll, Tick, Rested, Deal, BeginBreak,
         Collapse
  <2> QED
    BY <2>1, <2>3
<1>6. \A s : Standing(s)' <=> Standing(s)
  BY <1>1, <1>2 DEF Standing
<1>7. Decided' <=> Decided
  BY <1>1, <1>2, <1>6 DEF Decided
<1>8. OneInv'
  BY <1>1, <1>2, <1>3, <1>4, <1>5, <1>7, SettledIdle DEF OneInv
<1>9. \E s \in Seq(Line) : Standing(s)
  <2>1. CASE over
    BY <1>1, <2>1 DEF OneInv, Decided
  <2>2. CASE ~over
    BY <1>1, <2>2, NowStanding DEF NowStands, LedgerInv, OnGoing, Inv
  <2> QED
    BY <2>1, <2>2
<1> QED
  BY <1>1, <1>2, <1>3, <1>6, <1>8, <1>9, UnseenRunning

-----------------------------------------------------------------------------
(* Before the start *)

\* Nobody has gone out, so no places are shown, whoever is in.
LEMMA NothingPlaced ==
  ASSUME NEW S \in SUBSET Person
  PROVE  Promise!Places(S, <<>>) = [p \in Person |-> 0]
BY DEF Promise!Places

NothingIsShown ==
  outs = <<>> => BustOuts = <<>> /\ PlacesShown = [p \in Person |-> 0]

LEMMA NothingShown == NothingIsShown
BY DEF NothingIsShown, BustOuts, ChampionWritten, PlacesShown, PlaceShown

LEMMA NothingShownNext == NothingIsShown'
BY NothingShown, PTL

LEMMA OneRegister ==
  ASSUME Inv, Inv', OneInv, NEW p \in Person, Register(p) \/ Unregister(p)
  PROVE  OneInv' /\ (Promise!Come(p) \/ Promise!Withdraw(p))
<1>1. /\ status = "registering" /\ status' = status /\ outs = <<>> /\ outs' = outs
      /\ UNCHANGED <<winner, removals, over>>
  BY DEF Register, Unregister, OneInv, ledger, queue, agenda
<1>2. OneInv'
  BY <1>1 DEF OneInv
<1>3. /\ BustOuts = <<>> /\ PlacesShown = [q \in Person |-> 0]
      /\ BustOuts' = <<>> /\ PlacesShown' = [q \in Person |-> 0]
  BY <1>1, NothingShown, NothingShownNext DEF NothingIsShown
<1>4. StillIn = entrants /\ StillIn' = entrants' /\ Phase = "entering" /\ Phase' = Phase
  BY <1>1 DEF StillIn, Phase
<1>5. entrants' \in SUBSET Person
  BY DEF Inv, TypeOK
<1>6. CASE Register(p)
  <2>1. PlacesShown' = Promise!Places(entrants', <<>>)
    BY <1>3, <1>5, NothingPlaced
  <2>2. p \notin entrants /\ entrants' = entrants \union {p}
    BY <1>6 DEF Register
  <2>3. Promise!Gone = {}
    BY <1>3 DEF Promise!Gone
  <2> QED
    BY <1>1, <1>2, <1>3, <1>4, <2>1, <2>2, <2>3 DEF Promise!Come
<1>7. CASE Unregister(p)
  <2>1. p \in entrants /\ entrants' = entrants \ {p}
    BY <1>7 DEF Unregister
  <2> QED
    BY <1>1, <1>2, <1>3, <1>4, <2>1 DEF Promise!Withdraw
<1> QED
  BY <1>6, <1>7

\* The draw seats every entrant, and they are two at the least.
LEMMA OneStart ==
  ASSUME Inv, Inv', OneInv, LedgerInv', Start
  PROVE  OneInv' /\ Promise!Begin
<1>1. /\ status = "registering" /\ status' = "running" /\ outs = <<>> /\ outs' = <<>>
      /\ UNCHANGED <<winner, removals, over, entrants>> /\ winner = Nobody /\ ~over
      /\ Cardinality(entrants) >= 2 /\ expected' = StartChips * Cardinality(entrants)
      /\ UNCHANGED <<dealing, doing>> /\ removals = {}
  BY DEF Start, OneInv, people, hand, queue, agenda
<1>2. PICK d \in Draws(Cardinality(entrants)) :
        at' = [p \in Person |-> IF p \in entrants THEN d[p] ELSE Nowhere]
  BY DEF Start
<1>3. \A p \in entrants : d[p] # Nowhere
  BY <1>2 DEF Draws
<1>4. Seated' = entrants
  BY <1>2, <1>3 DEF Seated, Inv, TypeOK
<1>5. expected' > 0
  <2>1. StartChips \in Nat \ {0} /\ Cardinality(entrants) \in Nat
    BY SizesAssumption, FiniteGroup DEF Inv, TypeOK
  <2>2. \A a \in Nat \ {0}, b \in Nat : b >= 2 => a * b > 0
    OBVIOUS
  <2> QED
    BY <1>1, <2>1, <2>2
<1>6. doing = "idle"
  BY <1>1 DEF Inv, HandInv, NotStarted
<1>7. OneInv'
  BY <1>1, <1>4, <1>5, <1>6 DEF OneInv
<1>8. /\ BustOuts = <<>> /\ PlacesShown = [q \in Person |-> 0]
      /\ BustOuts' = <<>> /\ PlacesShown' = [q \in Person |-> 0]
  BY <1>1, NothingShown, NothingShownNext DEF NothingIsShown
<1>9. StillIn = entrants /\ StillIn' = entrants /\ Phase = "entering" /\ Phase' = "playing"
  BY <1>1, <1>4 DEF StillIn, Phase, Seated
<1> QED
  BY <1>1, <1>7, <1>8, <1>9, SameCount DEF Promise!Begin

-----------------------------------------------------------------------------
(* Coming in late, and coming back *)

LEMMA NewSeat ==
  ASSUME TypeOK, NEW p \in Person, TakeSeat(p)
  PROVE  /\ Seated' = Seated \union {p}
         /\ Cardinality(Seated) >= 2 => Cardinality(Seated') >= 2
         /\ expected > 0 => expected' > 0
<1>1. at'[p] \in Table /\ at' = [at EXCEPT ![p] = at'[p]]
  BY SeatTaken
<1>2. at'[p] # Nowhere
  BY <1>1
<1>3. Seated' = Seated \union {p}
  BY <1>1, <1>2 DEF Seated, TypeOK
<1>4. Seated \union {p} \in SUBSET Person /\ Seated \in SUBSET Person
  BY DEF Seated
<1>5. IsFiniteSet(Seated \union {p}) /\ Cardinality(Seated) \in Nat
  BY <1>4, FiniteGroup
<1>6. Cardinality(Seated) <= Cardinality(Seated \union {p}) /\ Cardinality(Seated \union {p}) \in Nat
  BY <1>4, <1>5, FS_Subset, FiniteGroup
<1>7. expected > 0 => expected' > 0
  BY SizesAssumption DEF TakeSeat, TypeOK
<1> QED
  BY <1>3, <1>5, <1>6, <1>7

LEMMA OneRegisterLate ==
  ASSUME Inv, Inv', LedgerInv, LedgerInv', OneInv, NEW p \in Person, RegisterLate(p)
  PROVE  OneInv' /\ Promise!Come(p)
<1>1. /\ status = "running" /\ status' = "running" /\ doing = "idle" /\ p \notin entrants
      /\ TakeSeat(p) /\ outs' = Renumber(outs, fieldSize')
      /\ UNCHANGED <<winner, removals, over, doing>>
  BY DEF RegisterLate, Running, Idle, queue, agenda
<1>2. ~over /\ LedgerNow /\ LedgerNow'
  BY <1>1 DEF LedgerInv, OverIsBrief, OnGoing
<1>3. /\ Standing(outs) /\ Standing(outs)' /\ outs \in Seq(Line) /\ outs' \in Seq(Line)
  BY <1>2, NowStanding, NowStandingNext DEF NowStands, Inv
<1>4. /\ Seated' = Seated \union {p}
      /\ Cardinality(Seated) >= 2 => Cardinality(Seated') >= 2
      /\ expected > 0 => expected' > 0
  BY <1>1, NewSeat DEF Inv
<1>5. OneInv'
  BY <1>1, <1>2, <1>4 DEF OneInv
<1>6. Reads(outs) /\ Reads(outs)'
  BY <1>1, <1>3, StandingReads, StandingReadsNext DEF StandingIsRead
<1>7. Uids(outs)' = Uids(outs)
  <2>1. Len(outs) \in Nat /\ Len(outs') = Len(outs)
    BY <1>1, <1>3, LenProperties DEF Renumber
  <2>2. \A i \in 1..Len(outs) : outs'[i].uid = outs[i].uid
    BY <1>1 DEF Renumber, Out
  <2> QED
    BY <2>1, <2>2 DEF Uids
<1>8. /\ StillIn = Seated /\ StillIn' = Seated' /\ BustOuts = Uids(outs) /\ BustOuts' = Uids(outs)
      /\ PlacesShown' = Promise!Places(Seated', Uids(outs))
  BY <1>6, <1>7 DEF Reads
<1>9. p \notin StillIn \union Promise!Gone
  <2>1. p \notin Seated /\ p \notin Named(outs)
    BY <1>1, <1>2 DEF LedgerNow, Seated
  <2>2. Promise!Gone = Named(outs)
    BY <1>3, <1>8, LenProperties DEF Promise!Gone, Uids, Named
  <2> QED
    BY <1>8, <2>1, <2>2
<1>10. Phase = "playing" /\ Phase' = Phase
  BY <1>1 DEF Phase
<1> QED
  BY <1>1, <1>4, <1>5, <1>8, <1>9, <1>10 DEF Promise!Come

LEMMA OneReenter ==
  ASSUME Inv, Inv', LedgerInv, LedgerInv', OneInv, NEW p \in Person, Reenter(p)
  PROVE  OneInv' /\ Promise!ComeBack(p)
<1>1. /\ status = "running" /\ status' = "running" /\ doing = "idle"
      /\ TakeSeat(p) /\ UNCHANGED <<winner, removals, over, doing>>
  BY DEF Reenter, Running, Idle, queue, agenda
<1>2. ~over /\ LedgerNow /\ LedgerNow'
  BY <1>1 DEF LedgerInv, OverIsBrief, OnGoing
<1>3. /\ Standing(outs) /\ Standing(outs)' /\ outs \in Seq(Line) /\ outs' \in Seq(Line)
  BY <1>2, NowStanding, NowStandingNext DEF NowStands, Inv
<1>4. /\ Seated' = Seated \union {p}
      /\ Cardinality(Seated) >= 2 => Cardinality(Seated') >= 2
      /\ expected > 0 => expected' > 0
  BY <1>1, NewSeat DEF Inv
<1>5. OneInv'
  BY <1>1, <1>2, <1>4 DEF OneInv
<1>6. Reads(outs) /\ Reads(outs)'
  BY <1>1, <1>3, StandingReads, StandingReadsNext DEF StandingIsRead
<1>7. PICK k \in 1..Len(outs) :
        outs[k].uid = p /\ outs' = Renumber(Struck(outs, k), fieldSize)
  BY DEF Reenter
<1> DEFINE o == Uids(outs)
<1>8. k \in DOMAIN o /\ o[k] = p /\ Len(o) = Len(outs) /\ Len(outs) \in Nat
  BY <1>3, <1>7, LenProperties DEF Uids
<1>9. Uids(outs') = [j \in 1..(Len(o) - 1) |-> IF j < k THEN o[j] ELSE o[j + 1]]
  <2>1. Len(Struck(outs, k)) = Len(outs) - 1
    BY <1>7, <1>8 DEF Struck
  <2>2. Len(outs') = Len(outs) - 1
    BY <1>7, <1>8, <2>1 DEF Renumber
  <2>3. \A j \in 1..(Len(outs) - 1) :
          outs'[j].uid = (IF j < k THEN outs[j] ELSE outs[j + 1]).uid
    BY <1>7, <1>8, <2>1 DEF Renumber, Struck, Out
  <2>4. \A j \in 1..(Len(outs) - 1) : outs'[j].uid = IF j < k THEN o[j] ELSE o[j + 1]
    BY <1>8, <2>3 DEF Uids
  <2> QED
    BY <1>8, <2>2, <2>4 DEF Uids
<1>10. /\ StillIn = Seated /\ StillIn' = Seated' /\ BustOuts = o /\ BustOuts' = Uids(outs')
       /\ PlacesShown' = Promise!Places(Seated', Uids(outs'))
  <2>1. Uids(outs)' = Uids(outs')
    BY DEF Uids
  <2> QED
    BY <1>6, <2>1 DEF Reads
<1>11. Phase = "playing" /\ Phase' = Phase
  BY <1>1 DEF Phase
<1> HIDE DEF o
<1> QED
  BY <1>1, <1>4, <1>5, <1>8, <1>9, <1>10, <1>11 DEF Promise!ComeBack

-----------------------------------------------------------------------------
(* Going out *)

\* Everybody on the felt never goes out at once: there are chips, and nobody
\* else has any.
LEMMA SomebodyStays ==
  ASSUME TypeOK', HandInv', ChipConservation', status' # "registering", expected' > 0
  PROVE  Seated' # {}
<1>1. SUFFICES ASSUME Seated' = {} PROVE FALSE
  OBVIOUS
<1>2. \A p \in Person : at'[p] = Nowhere
  BY <1>1 DEF Seated
<1>3. \A p \in Person : stack'[p] = 0
  BY <1>2 DEF HandInv, OutsideEmpty
<1>4. \A p \in Person : bet'[p] = 0
  <2>1. Nowhere \notin dealing'
    BY DEF TypeOK
  <2>2. \A p \in Person : p \notin dealtIn'
    BY <1>2, <2>1 DEF HandInv, HandIsWhole, InHandSeated
  <2>3. \A p \in Person : ~(bet'[p] > 0) /\ bet'[p] \in Nat
    BY <2>2 DEF HandInv, HandIsWhole, MoneyInHand, TypeOK
  <2> QED
    BY <2>3
<1>5. N \in Nat /\ N \in 0..N
  BY SizesAssumption
<1>6. Total(stack', N) = 0 /\ Total(bet', N) = 0
  BY <1>3, <1>4, <1>5, TotalZero
<1> QED
  BY <1>6 DEF ChipConservation

\* Going out one after another: the line of those gone grows by an ordering of
\* the group.
LEMMA GroupGone ==
  ASSUME NEW s \in Seq(Line), NEW B \in SUBSET Person, NEW g \in Orderings(B), NEW n \in Int
  PROVE  /\ Grouped(s, g, Cardinality(B), n) \in Seq(Line)
         /\ Len(Grouped(s, g, Cardinality(B), n)) = Len(s) + Cardinality(B)
         /\ Uids(Grouped(s, g, Cardinality(B), n)) = Uids(s) \o g
         /\ g \in Promise!Lines(B)
         /\ B = {} => Uids(s) \o g = Uids(s)
<1> DEFINE k == Cardinality(B)
           tail == [i \in 1..k |-> Out(g[i], n - Len(s) - i + 1)]
           r == Grouped(s, g, k, n)
<1>1. /\ k \in Nat /\ g \in [1..k -> B] /\ Len(s) \in Nat /\ DOMAIN s = 1..Len(s)
      /\ \A i, j \in 1..k : i # j => g[i] # g[j]
  BY OrderingNamesAll, LenProperties
<1> HIDE DEF k
<1>2. \A i \in 1..k : tail[i] \in Line /\ tail[i].uid = g[i]
  <2>1. ASSUME NEW i \in 1..k PROVE tail[i] \in Line /\ tail[i].uid = g[i]
    <3>0. g[i] \in B
      BY <1>1
    <3>3. k \in Nat /\ Len(s) \in Nat
      BY <1>1
    <3>4. n - Len(s) - i + 1 \in Int
      BY <3>3
    <3>1. g[i] \in Person /\ n - Len(s) - i + 1 \in Int
      BY <3>0, <3>4
    <3>2. tail[i] = Out(g[i], n - Len(s) - i + 1)
      OBVIOUS
    <3> QED
      BY <3>1, <3>2, LineType DEF Out
  <2> QED
    BY <2>1
<1>3. tail \in Seq(Line) /\ Len(tail) = k
  <2>1. tail = [i \in 1..k |-> tail[i]] /\ \A i \in 1..k : tail[i] \in Line
    BY <1>2
  <2>2. tail \in Seq(Line)
    BY <1>1, <2>1, IsASeq
  <2> QED
    BY <1>1, <2>2, LenProperties
<1>4. r = s \o tail
  BY DEF Grouped
<1>5. g \in Seq(Person) /\ Len(g) = k
  <2>1. g = [i \in 1..k |-> g[i]]
    BY <1>1
  <2>2. \A i \in 1..k : g[i] \in Person
    BY <1>1
  <2>3. [i \in 1..k |-> g[i]] \in Seq(Person)
    BY <1>1, <2>2, IsASeq
  <2>4. g \in Seq(Person)
    BY <2>1, <2>3
  <2> QED
    BY <1>1, <2>4, LenProperties
<1>6. Uids(s) \in Seq(Person) /\ Len(Uids(s)) = Len(s) /\ DOMAIN Uids(s) = 1..Len(s)
  <2>1. \A i \in 1..Len(s) : s[i] \in Line
    BY ElementOfSeq
  <2>2. \A i \in 1..Len(s) : s[i].uid \in Person
    BY <2>1 DEF Line
  <2>3. Uids(s) \in Seq(Person)
    BY <1>1, <2>2, IsASeq DEF Uids
  <2> QED
    BY <1>1, <2>3, LenProperties DEF Uids
<1> HIDE DEF tail, r
<1>7. r \in Seq(Line) /\ Len(r) = Len(s) + k
  BY <1>3, <1>4, ConcatProperties
<1>8. /\ \A i \in 1..Len(s) : r[i] = s[i]
      /\ \A i \in 1..k : r[Len(s) + i] = tail[i]
  BY <1>3, <1>4, Joined
<1>9. /\ DOMAIN (Uids(s) \o g) = 1..(Len(s) + k)
      /\ \A i \in 1..Len(s) : (Uids(s) \o g)[i] = Uids(s)[i]
      /\ \A i \in 1..k : (Uids(s) \o g)[Len(s) + i] = g[i]
  <2> DEFINE u == Uids(s)
  <2>1. u \in Seq(Person) /\ Len(u) = Len(s)
    BY <1>6
  <2> HIDE DEF u
  <2>2. /\ DOMAIN (u \o g) = 1..(Len(u) + Len(g))
        /\ \A i \in 1..Len(u) : (u \o g)[i] = u[i]
        /\ \A i \in 1..Len(g) : (u \o g)[Len(u) + i] = g[i]
    <3> DEFINE P == Person
    <3>1. g \in Seq(P) /\ u \in Seq(P)
      BY <1>5, <2>1
    <3> HIDE DEF P
    <3> QED
      BY <3>1, Joined
  <2>3. /\ DOMAIN (u \o g) = 1..(Len(s) + k)
        /\ \A i \in 1..Len(s) : (u \o g)[i] = u[i]
        /\ \A i \in 1..k : (u \o g)[Len(s) + i] = g[i]
    BY <1>5, <2>1, <2>2
  <2> QED
    BY <2>3 DEF u
<1>10. Uids(r) = Uids(s) \o g
  <2>1. \A i \in 1..(Len(s) + k) : i \in 1..Len(s) \/ (i - Len(s) \in 1..k /\ i = Len(s) + (i - Len(s)))
    BY <1>1
  <2>2. ASSUME NEW i \in 1..(Len(s) + k) PROVE r[i].uid = (Uids(s) \o g)[i]
    <3>1. CASE i \in 1..Len(s)
      BY <1>8, <1>9, <3>1 DEF Uids
    <3>2. CASE i - Len(s) \in 1..k /\ i = Len(s) + (i - Len(s))
      <4>1. r[Len(s) + (i - Len(s))] = tail[i - Len(s)]
        BY <1>8, <3>2
      <4>2. (Uids(s) \o g)[Len(s) + (i - Len(s))] = g[i - Len(s)]
        BY <1>9, <3>2
      <4>3. tail[i - Len(s)].uid = g[i - Len(s)]
        BY <1>2, <3>2
      <4>4. r[i] = tail[i - Len(s)] /\ (Uids(s) \o g)[i] = g[i - Len(s)]
        BY <3>2, <4>1, <4>2
      <4> QED
        BY <4>3, <4>4
    <3> QED
      BY <2>1, <2>2, <3>1, <3>2
  <2>3. Uids(s) \o g = [i \in 1..(Len(s) + k) |-> (Uids(s) \o g)[i]]
    <3> DEFINE v == Uids(s) \o g
    <3>1. v \in Seq(Person)
      BY <1>5, <1>6, ConcatProperties
    <3>2. DOMAIN v = 1..(Len(s) + k)
      BY <1>9
    <3> HIDE DEF v
    <3>3. v = [i \in DOMAIN v |-> v[i]]
      BY <3>1, LenProperties
    <3>4. v = [i \in 1..(Len(s) + k) |-> v[i]]
      BY <3>2, <3>3
    <3> QED
      BY <3>4 DEF v
  <2>4. Uids(r) = [i \in 1..(Len(s) + k) |-> r[i].uid]
    BY <1>7 DEF Uids
  <2> QED
    BY <2>2, <2>3, <2>4
<1>11. g \in Promise!Lines(B)
  <2>1. g \in [1..Promise!Cardinality(B) -> B]
    BY <1>1, SameCount DEF k
  <2>2. \A i, j \in DOMAIN g : g[i] = g[j] => i = j
    BY <1>1
  <2> QED
    BY <2>1, <2>2 DEF Promise!Lines
<1>12. B = {} => Uids(s) \o g = Uids(s)
  <2>1. B = {} => k = 0
    BY FS_EmptySet DEF k
  <2>2. B = {} => g = <<>>
    BY <1>5, <2>1, EmptySeq
  <2> QED
    BY <1>6, <2>2, ConcatEmptySeq
<1> QED
  BY <1>7, <1>10, <1>11, <1>12 DEF k, r

LEMMA OneEndHand ==
  ASSUME OneTable, Inv, Inv', LedgerInv, ChipConservation', OneInv, NEW t \in Table, EndHand(t)
  PROVE  OneInv' /\ (Unseen \/ \E S \in SUBSET Person : Promise!GoOut(S))
<1>1. /\ status = "running" /\ status' = "running" /\ doing = "idle" /\ doing' = "queued"
      /\ UNCHANGED <<winner, removals, expected, fieldSize>> /\ dealing' = dealing \ {t}
  BY DEF EndHand, Running, Idle, queue, Agenda
<1>2. ~over /\ LedgerNow
  BY <1>1 DEF LedgerInv, OverIsBrief, OnGoing
<1>3. /\ Standing(outs) /\ fieldSize = Cardinality(Seated) + Len(outs) /\ outs \in Seq(Line)
  BY <1>2, NowStanding DEF NowStands, Inv
<1>4. winner' = Nobody /\ removals' = {} /\ expected' > 0 /\ Cardinality(Seated) >= 2
  BY <1>1, <1>2 DEF OneInv
<1>5. t = 1 /\ dealing \subseteq {1} /\ Seats(t) = Seated /\ Seated \in SUBSET Person
  BY SizesAssumption, SMTT(30) DEF OneTable, Inv, TypeOK, Seats, Seated
<1>6. dealing' = {}
  BY <1>1, <1>5
<1>7. PICK B \in SUBSET Seats(t) : \E g \in Orderings(B) :
           /\ B = {p \in Seats(t) : stack'[p] = 0}
           /\ at' = [p \in Person |-> IF p \in B THEN Nowhere ELSE at[p]]
           /\ over' <=> Cardinality(StillAlive) <= 1
           /\ IF over' /\ StillAlive # {}
              THEN \E w \in StillAlive :
                     outs' = Append(Grouped(outs, g, Cardinality(B), fieldSize), Out(w, 1))
              ELSE outs' = Grouped(outs, g, Cardinality(B), fieldSize)
  BY EndHandBusts DEF Inv
<1>8. PICK g \in Orderings(B) :
           /\ B = {p \in Seats(t) : stack'[p] = 0}
           /\ at' = [p \in Person |-> IF p \in B THEN Nowhere ELSE at[p]]
           /\ over' <=> Cardinality(StillAlive) <= 1
           /\ IF over' /\ StillAlive # {}
              THEN \E w \in StillAlive :
                     outs' = Append(Grouped(outs, g, Cardinality(B), fieldSize), Out(w, 1))
              ELSE outs' = Grouped(outs, g, Cardinality(B), fieldSize)
  BY <1>7
<1>24. PICK r : r = Grouped(outs, g, Cardinality(B), fieldSize)
  OBVIOUS
<1>9. /\ B \in SUBSET Person /\ B \subseteq Seated
      /\ Seated' = Seated \ B /\ StillAlive = Seated'
  <2>1. \A p \in Person : stack'[p] \in Nat
    BY DEF Inv, TypeOK
  <2>2. Seated' = Seated \ B
    BY <1>8 DEF Seated
  <2>3. StillAlive = Seated \ B
    BY <1>5, <1>8, <2>1 DEF StillAlive, Seated
  <2> QED
    BY <1>5, <2>2, <2>3
<1>10. Seated' # {}
  BY <1>1, <1>4, SomebodyStays DEF Inv
<1>11. /\ Cardinality(Seated') \in Nat /\ IsFiniteSet(Seated') /\ Cardinality(B) \in Nat
       /\ Cardinality(Seated') = Cardinality(Seated) - Cardinality(B)
  <2>1. IsFiniteSet(Seated) /\ IsFiniteSet(B) /\ Cardinality(B) \in Nat
    BY <1>5, <1>9, FiniteGroup
  <2>2. Seated \ B \in SUBSET Person
    BY <1>5
  <2>3. IsFiniteSet(Seated \ B) /\ Cardinality(Seated \ B) \in Nat
    BY <2>2, FiniteGroup
  <2>4. Cardinality(Seated \ B) = Cardinality(Seated) - Cardinality(Seated \intersect B)
    BY <2>1, FS_Difference
  <2>5. Seated \intersect B = B
    BY <1>9
  <2> QED
    BY <1>9, <2>1, <2>3, <2>4, <2>5
<1>12. /\ r \in Seq(Line) /\ Len(r) = Len(outs) + Cardinality(B)
       /\ Uids(r) = Uids(outs) \o g /\ g \in Promise!Lines(B)
       /\ B = {} => Uids(outs) \o g = Uids(outs)
  <2>1. fieldSize \in Int
    BY TypeFacts DEF Inv
  <2> QED
    BY <1>3, <1>9, <1>24, <2>1, GroupGone
<1>13. InOrder(r, fieldSize) /\ Named(r) = Named(outs) \union B
  <2>1. /\ Cardinality(B) \in Nat /\ g \in [1..Cardinality(B) -> B]
        /\ \A i, j \in 1..Cardinality(B) : i # j => g[i] # g[j]
        /\ \A p \in B : \E i \in 1..Cardinality(B) : g[i] = p
    BY <1>9, OrderingNamesAll
  <2>2. B \in SUBSET Person /\ B \intersect Named(outs) = {}
    BY <1>2, <1>9 DEF LedgerNow, Seated
  <2>3. outs \in Seq(Line) /\ fieldSize \in Int /\ InOrder(outs, fieldSize)
    BY <1>2, <1>3, TypeFacts DEF LedgerNow, Inv
  <2> DEFINE k == Cardinality(B)
  <2>4. /\ k \in Nat /\ g \in [1..k -> B]
        /\ \A i, j \in 1..k : i # j => g[i] # g[j]
        /\ \A p \in B : \E i \in 1..k : g[i] = p
    BY <2>1
  <2> HIDE DEF k
  <2>5. InOrder(Grouped(outs, g, k, fieldSize), fieldSize)
    BY <2>2, <2>3, <2>4, AddedGroup
  <2>6. Named(Grouped(outs, g, k, fieldSize)) = Named(outs) \union B
    BY <2>2, <2>3, <2>4, AddedGroup
  <2> QED
    BY <1>24, <2>5, <2>6 DEF k
<1>14. outs' = r \/ \E w \in Person : Seated' = {w} /\ outs' = Append(r, Out(w, 1))
  <2>1. CASE ~over'
    BY <1>8, <1>24, <2>1
  <2>2. CASE over'
    <3>1. PICK w \in Seated' : outs' = Append(r, Out(w, 1))
      BY <1>8, <1>9, <1>10, <1>24, <2>2
    <3>2. Cardinality(Seated') <= 1
      BY <1>8, <1>9, <2>2
    <3>3. Cardinality(Seated') = 1
      BY <1>10, <1>11, <3>2, FS_EmptySet
    <3>4. Seated' = {w}
      BY <1>11, <3>1, <3>3, FS_Singleton
    <3>5. w \in Person
      BY <1>5, <1>9, <3>1
    <3> QED
      BY <3>1, <3>4, <3>5
  <2> QED
    BY <2>1, <2>2
<1>15. Standing(r)'
  <2>1. fieldSize = Cardinality(Seated') + Len(r)
    <3>1. Len(outs) \in Nat /\ Cardinality(Seated) \in Nat
      BY <1>3, <1>5, LenProperties, FiniteGroup
    <3> QED
      BY <1>3, <1>11, <1>12, <3>1
  <2>2. \A i \in 1..Len(r) : r[i].uid \in Named(r)
    BY <1>12, LenProperties DEF Named
  <2>3. Named(r) \intersect Seated' = {}
    BY <1>2, <1>9, <1>13 DEF LedgerNow, Seated
  <2>4. InOrder(r, Cardinality(Seated') + Len(r))
    BY <1>13, <2>1
  <2>5. \A i \in 1..Len(r) : r[i].uid \notin Seated'
    BY <2>2, <2>3
  <2> QED
    BY <1>14, <2>4, <2>5 DEF Standing
<1>16. over' => Decided'
  <2>1. SUFFICES ASSUME over' PROVE Decided'
    OBVIOUS
  <2>2. PICK w \in Seated' : outs' = Append(r, Out(w, 1))
    BY <1>8, <1>9, <1>10, <1>24, <2>1
  <2>5. Cardinality(Seated') <= 1
    BY <1>8, <1>9, <2>1
  <2>3. Cardinality(Seated') = 1
    BY <1>10, <1>11, <2>5, FS_EmptySet
  <2>6. Seated' = {w}
    BY <1>11, <2>2, <2>3, FS_Singleton
  <2>4. Seated' = {w} /\ w \in Person
    BY <1>5, <1>9, <2>2, <2>6
  <2> QED
    BY <1>12, <1>15, <2>2, <2>4 DEF Decided
<1>17. ~over' => Cardinality(Seated') >= 2
  BY <1>8, <1>9, <1>11
<1>18. OneInv'
  BY <1>1, <1>4, <1>6, <1>16, <1>17 DEF OneInv
<1>19. Reads(outs)
  BY <1>1, <1>3, StandingReads DEF StandingIsRead
<1>20. Reads(r)'
  BY <1>1, <1>12, <1>15, StandingReadsNext DEF StandingIsRead
<1>21. /\ StillIn = Seated /\ StillIn' = Seated' /\ BustOuts = Uids(outs)
       /\ BustOuts' = Uids(outs) \o g
       /\ PlacesShown = Promise!Places(Seated, Uids(outs))
       /\ PlacesShown' = Promise!Places(Seated', Uids(outs) \o g)
       /\ Phase = "playing" /\ Phase' = "playing"
  BY <1>1, <1>12, <1>19, <1>20 DEF Reads, Phase
<1>22. CASE B = {}
  <2>1. Seated' = Seated
    BY <1>9, <1>22
  <2> QED
    BY <1>1, <1>12, <1>18, <1>21, <1>22, <2>1 DEF Unseen
<1>23. CASE B # {}
  <2>1. B # Seated
    BY <1>9, <1>10
  <2>2. Promise!GoOut(B)
    BY <1>1, <1>9, <1>12, <1>21, <1>23, <2>1 DEF Promise!GoOut
  <2> QED
    BY <1>9, <1>18, <2>2
<1> QED
  BY <1>22, <1>23

\* Only the end the engine has declared finishes the field, and it crowns the
\* one who is left.
LEMMA OneFinish ==
  ASSUME OneTable, Inv, Inv', LedgerInv, OneInv, Finish
  PROVE  OneInv' /\ \E w \in Person : Promise!Crown(w)
<1>1. /\ status = "running" /\ status' = "finished" /\ doing = "settle"
      /\ UNCHANGED <<at, removals>> /\ (over \/ Cardinality(Alive) <= 1)
  BY DEF Finish, Doing, seats, queue
<1>2. dealing = {}
  BY <1>1 DEF OneInv
<1>3. Alive = Seated
  <2>1. \A p \in Person : stack[p] \in Nat /\ p \notin dealtIn
    BY <1>2 DEF Inv, TypeOK, HandInv, HandIsWhole, InHandSeated
  <2>2. \A p \in Person : at[p] # Nowhere => stack[p] > 0
    BY <2>1 DEF Inv, HandInv, HandIsWhole, BrokeInHand
  <2> QED
    BY <2>2 DEF Alive, Seated
<1>4. Cardinality(Seated) \in Nat
  BY FiniteGroup DEF Seated
<1>5. over
  BY <1>1, <1>3, <1>4 DEF OneInv
<1>6. Decided /\ winner = Nobody
  BY <1>1, <1>5 DEF OneInv
<1>7. PICK s \in Seq(Line) : \E w \in Person :
        Standing(s) /\ Seated = {w} /\ outs = Append(s, Out(w, 1))
  BY <1>6 DEF Decided
<1>8. PICK w \in Person : Standing(s) /\ Seated = {w} /\ outs = Append(s, Out(w, 1))
  BY <1>7
<1>9. winner' = w /\ outs' = outs
  BY <1>3, <1>5, <1>8 DEF Finish, Champion
<1>10. OneInv'
  <2>1. removals = {}
    BY DEF OneInv
  <2> QED
    BY <1>1, <2>1 DEF OneInv
<1>11. Reads(s)
  BY <1>1, <1>8, StandingReads DEF StandingIsRead
<1>12. /\ BustOuts' = BustOuts /\ StillIn' = StillIn /\ StillIn = {w}
       /\ Phase = "playing" /\ Phase' = "over"
  <2>1. BustOuts' = BustOuts
    BY <1>1, <1>9 DEF BustOuts, ChampionWritten
  <2>2. StillIn' = StillIn
    BY <1>1 DEF StillIn
  <2>3. StillIn = {w}
    BY <1>8, <1>11 DEF Reads
  <2>4. Phase = "playing" /\ Phase' = "over"
    BY <1>1 DEF Phase
  <2> QED
    BY <2>1, <2>2, <2>3, <2>4
<1>13. /\ Len(s) \in Nat /\ DOMAIN outs = 1..(Len(s) + 1)
       /\ \A i \in 1..Len(s) : outs[i] = s[i]
       /\ outs[Len(s) + 1] = Out(w, 1)
  <2>1. Out(w, 1) \in Line
    BY LineType
  <2> QED
    BY <1>8, <2>1, OneLineMore
<1>14. PlaceShown(w)' = 1
  <2> DEFINE lines == {i \in DOMAIN outs : outs[i].uid = w}
  <2>1. lines = {Len(s) + 1}
    BY <1>8, <1>13 DEF Standing, Out
  <2>2. lines # {} /\ (CHOOSE i \in lines : \A j \in lines : j <= i) = Len(s) + 1
    <3>1. lines = {Len(s) + 1}
      BY <2>1
    <3> HIDE DEF lines
    <3> QED
      BY <1>13, <3>1
  <2>3. PlaceShown(w)' = outs[CHOOSE i \in lines : \A j \in lines : j <= i].place
    BY <1>1, <1>9, <2>2 DEF PlaceShown
  <2>4. PlaceShown(w)' = outs[Len(s) + 1].place
    BY <2>2, <2>3
  <2> QED
    BY <1>13, <2>4 DEF Out
<1>15. \A p \in Person : p # w => PlaceShown(p)' = PlaceShown(p)
  <2>1. \A p \in Person : p # w => at[p] = Nowhere
    BY <1>8 DEF Seated
  <2> QED
    BY <1>1, <1>9, <2>1 DEF PlaceShown
<1>16. PlacesShown' = [PlacesShown EXCEPT ![w] = 1]
  BY <1>14, <1>15 DEF PlacesShown
<1> QED
  BY <1>9, <1>10, <1>12, <1>16 DEF Promise!Crown

LEMMA OneStep ==
  ASSUME OneTable, Inv, Inv', SeatInv, LedgerInv, LedgerInv', ChipConservation', OneInv,
         [Next]_vars
  PROVE  OneInv' /\ [Promise!Next]_(Promise!vars)
<1>0. ASSUME Unseen PROVE [Promise!Next]_(Promise!vars)
  BY <1>0 DEF Unseen, Promise!vars
<1>1. CASE UNCHANGED vars
  <2>1. UNCHANGED <<status, entrants, at, outs, winner, removals, expected, doing, dealing, over>>
    BY <1>1 DEF agenda
  <2>2. Unseen
    BY <2>1 DEF Unseen, Phase, StillIn, BustOuts, ChampionWritten, PlacesShown, PlaceShown
  <2>3. Seated' = Seated /\ (Decided' <=> Decided)
    BY <2>1 DEF Seated, Decided, Standing
  <2>4. OneInv'
    BY <2>1, <2>3 DEF OneInv
  <2> QED
    BY <1>0, <2>2, <2>4
<1>2. CASE LedgerQuiet
  BY <1>0, <1>2, OneQuiet
<1>3. ASSUME NEW p \in Person, Register(p) \/ Unregister(p) \/ RegisterLate(p) \/ Reenter(p)
      PROVE  OneInv' /\ Promise!Next
  BY <1>3, OneRegister, OneRegisterLate, OneReenter DEF Promise!Next
<1>4. ASSUME NEW p \in Person, RemoveFromPlay(p) \/ ApplyRemoval(p) PROVE FALSE
  BY <1>4, NobodyIsTaken DEF Inv, ApplyRemoval, Leaving, OneInv
<1>5. CASE Start
  BY <1>5, OneStart DEF Promise!Next
<1>6. CASE Finish
  BY <1>6, OneFinish DEF Promise!Next
<1>7. ASSUME NEW t \in Table, EndHand(t) PROVE OneInv' /\ [Promise!Next]_(Promise!vars)
  BY <1>0, <1>7, OneEndHand DEF Promise!Next
<1>8. CASE Ask
  <2>1. LedgerQuiet \/ Start \/ \E p \in Person :
          Register(p) \/ Unregister(p) \/ RegisterLate(p) \/ Reenter(p) \/ RemoveFromPlay(p)
    BY <1>8, ZenonT(60) DEF Ask, LedgerQuiet
  <2> QED
    BY <1>2, <1>3, <1>4, <1>5, <2>1
<1>9. CASE Follow
  <2>1. LedgerQuiet \/ Finish \/ \E p \in Person : ApplyRemoval(p)
    BY <1>9, ZenonT(60) DEF Follow, LedgerQuiet
  <2> QED
    BY <1>2, <1>4, <1>6, <2>1
<1>10. Next => LedgerQuiet \/ Ask \/ Follow \/ \E t \in Table : EndHand(t)
  BY ZenonT(60) DEF Next, LedgerQuiet
<1> QED
  BY <1>1, <1>2, <1>7, <1>8, <1>9, <1>10

LEMMA OneInit ==
  ASSUME Init
  PROVE  OneInv /\ Promise!Init
<1>1. /\ status = "registering" /\ entrants = {} /\ outs = <<>> /\ winner = Nobody
      /\ removals = {} /\ over = FALSE
  BY DEF Init
<1>2. OneInv
  BY <1>1 DEF OneInv
<1>3. BustOuts = <<>> /\ PlacesShown = [p \in Person |-> 0]
  BY <1>1, NothingShown DEF NothingIsShown
<1>4. PlacesShown = Promise!Places({}, <<>>)
  BY <1>3, NothingPlaced
<1> QED
  BY <1>1, <1>2, <1>3, <1>4 DEF Promise!Init, Phase, StillIn

\* With one table and nobody taken out, director.js and the ledger of
\* tournament.js keep the standings: whatever the late entries, re-entries and
\* several bust-outs in a hand, the places shown are those of the people still
\* in and the people gone, and only the last player in is crowned.
THEOREM OneTableKeepsStandings ==
  ASSUME OneTable
  PROVE  Spec => KeepsStandings
<1>1. Init => OneInv /\ Promise!Init
  BY OneInit
<1>2. /\ Inv /\ Inv' /\ SeatInv /\ LedgerInv /\ LedgerInv' /\ ChipConservation' /\ OneInv
      /\ [Next]_vars
      => OneInv' /\ [Promise!Next]_(Promise!vars)
  BY OneStep
<1> QED
  BY <1>1, <1>2, SeatsAre, LedgerIs, ChipsAreConserved, PTL DEF Spec, KeepsStandings, Promise!Spec

-----------------------------------------------------------------------------
(* A field that is held *)

\* Only the host's start plays a field that has not started.
LEMMA OnlyTheStart ==
  ASSUME status = "registering", Written \/ Unwritten
  PROVE  status' = "registering" /\ ticking' = ticking
<1>1. ~Running /\ \A s \in Steps : ~Doing(s)
  BY DEF Running, Doing
<1>2. ASSUME NEW p \in Person, Register(p) \/ Unregister(p)
      PROVE  status' = status /\ ticking' = ticking
  BY <1>2 DEF Register, Unregister, agenda
<1>3. ASSUME NEW p \in Person, RegisterLate(p) \/ Reenter(p) \/ TakeAddOn(p) \/ RemoveFromPlay(p)
                               \/ Reconnect(p)
      PROVE  FALSE
  BY <1>1, <1>3 DEF RegisterLate, Reenter, TakeAddOn, RemoveFromPlay, Reconnect
<1>4. ASSUME NEW p \in Person, NEW t \in Table, RequestMove(p, t)
      PROVE  FALSE
  BY <1>1, <1>4 DEF RequestMove
<1>5. ASSUME NEW p \in Person, NEW n, Wager(p, n)
      PROVE  FALSE
  BY <1>1, <1>5 DEF Wager
<1>6. ASSUME NEW i, StepLevel(i)
      PROVE  FALSE
  BY <1>1, <1>6 DEF StepLevel
<1>7. ASSUME NEW t \in Table, EndHand(t) \/ Rested(t)
      PROVE  FALSE
  BY <1>1, <1>7 DEF EndHand, Rested
<1>8. ~Hold /\ ~LevelUp /\ ~Tick
  BY <1>1 DEF Hold, LevelUp, Tick
<1>9. ~Follow
  <2>1. ~QueuedDone /\ ~Finish /\ ~PlayOn /\ ~MovesDone /\ ~NoBreak /\ ~Emptied /\ ~Balanced
    BY DEF QueuedDone, Queued, Finish, PlayOn, MovesDone, NoBreak, Emptied, Balanced, Doing
  <2>2. ~Collapsed /\ ~Sweep /\ ~TickMovesDone /\ ~DealtAll
    BY DEF Collapsed, Sweep, TickMovesDone, DealtAll, Doing
  <2>3. \A p \in Person : ~ApplyRemoval(p) /\ ~ApplyAddOn(p) /\ ~ApplyMove(p) /\ ~CarryOff(p)
    BY DEF ApplyRemoval, ApplyAddOn, Queued, ApplyMove, CarryOff, Doing
  <2>4. \A p \in Person, t \in Table : ~Balance(p, t)
    BY DEF Balance, Doing
  <2>5. \A t \in Table : ~BeginBreak(t) /\ ~Collapse(t) /\ ~Deal(t)
    BY DEF BeginBreak, Collapse, Deal, Doing
  <2> QED
    BY <2>1, <2>2, <2>3, <2>4, <2>5 DEF Follow
<1>10. CASE Written
  BY <1>10, <1>2, <1>3, <1>6, <1>8 DEF Written
<1>11. CASE Unwritten
  BY <1>11, <1>3, <1>4, <1>5, <1>7, <1>8, <1>9 DEF Unwritten
<1> QED
  BY <1>10, <1>11

\* A held field has gone back to its registrations, and what the store has of
\* its tables is what is kept of them.
HeldInv == held => status = "registering" /\ (file # Nothing => file.tables = kept)

LEMMA HeldStep ==
  ASSUME HeldInv, [RNext]_rvars
  PROVE  HeldInv' /\ (held /\ held' => kept' = kept)
<1>1. CASE UNCHANGED rvars
  BY <1>1 DEF rvars, memory, HeldInv
<1>2. CASE Flush
  <2>1. held' = held /\ status' = status
    BY <1>2 DEF Flush
  <2>2. ASSUME held PROVE kept' = kept /\ file'.tables = kept'
    <3>1. status = "registering" /\ kept' = kept
      BY <1>2, <2>2 DEF Flush, HeldInv
    <3> QED
      BY <1>2, <3>1 DEF Flush, Document
  <2> QED
    BY <2>1, <2>2 DEF HeldInv
<1>3. CASE Written \/ Unwritten
  <2>1. UNCHANGED <<kept, held, file>>
    BY <1>3 DEF Written, Unwritten, memory
  <2>2. held => status' = "registering"
    BY <1>3, OnlyTheStart DEF HeldInv
  <2> QED
    BY <2>1, <2>2 DEF HeldInv
<1>4. CASE StartOver
  BY <1>4 DEF StartOver, HeldInv
<1>5. CASE Expire
  <2>1. UNCHANGED <<status, kept, held, file>>
    BY <1>5 DEF Expire
  <2> QED
    BY <2>1 DEF HeldInv
<1>6. CASE Settled
  BY <1>6 DEF Settled, Sweep, Doing, HeldInv
<1>7. CASE Reboot
  <2>1. held' = Holds(file) /\ file' = file /\ file # Nothing
    BY <1>7 DEF Reboot
  <2>2. Holds(file) => FallBack(file)
    BY <1>7 DEF Reboot, Reseats
  <2>3. Holds(file) => status' = "registering" /\ kept' = file.tables
    BY <2>2 DEF FallBack
  <2> QED
    BY <2>1, <2>3 DEF HeldInv
<1> QED
  BY <1>1, <1>2, <1>3, <1>4, <1>5, <1>6, <1>7 DEF RNext

\* A field that has come back too often keeps its chips and seats through
\* every write, crash and restart until the host starts it over.
THEOREM HeldFieldIsKept == RSpec => HeldFieldKept
<1>1. RInit => HeldInv
  BY DEF RInit, HeldInv
<1>2. HeldInv /\ [RNext]_rvars => HeldInv' /\ [held /\ held' => kept' = kept]_rvars
  BY HeldStep
<1> QED
  BY <1>1, <1>2, PTL DEF RSpec, HeldFieldKept

-----------------------------------------------------------------------------
(* What is on record *)

\* The tournaments of which the rest is proved: late entry and re-entry are
\* closed from the first level.  While they are open a newcomer sits down at a
\* table that is dealing, whose last record does not know of the seat.
ShutFromTheStart == Schedule[1] = "play" /\ LateRegLevels = 0 /\ ReentryLevels = 0

\* What is kept of a table is its seats, each with what it brought to the
\* hand, if one is being played.
Recorded(t) ==
  /\ kept[t].made /\ (kept[t].broken <=> t \in broken)
  /\ kept[t].roster = [p \in Seats(t) |-> stack[p] + bet[p]]

\* No handler is changing the field.
Between == doing \in {"idle", "tickMoves", "deal"}

KeptTypes(k) ==
  \A t \in Table :
    /\ k[t].made \in BOOLEAN /\ k[t].broken \in BOOLEAN
    /\ DOMAIN k[t].roster \subseteq Person
    /\ \A p \in DOMAIN k[t].roster : k[t].roster[p] \in Nat \ {0}

\* A table that is dealing is on record as it was when the hand began, and
\* between two handlers every table is on record.
Records ==
  /\ KeptTypes(kept)
  /\ status = "registering" => ~ticking /\ (~held => kept = NoTables)
  /\ status = "running" =>
       /\ opened > 0
       /\ \A t \in Table \ Made : kept[t] = NoEntry
       /\ \A t \in dealing : t \in Made /\ Recorded(t)
       /\ Between /\ Begun => \A t \in Made : Recorded(t)
       /\ ~Begun => dealing = {} /\ ~ticking /\ doing \notin {"queued", "tickMoves", "deal"}

\* Once a handler has been through the moves the host asked for, those that
\* are left wait for a hand, so the tick changes nobody's seat.
MovesWait ==
  /\ status = "registering" => \A p \in Person : moves[p] = Nowhere
  /\ status = "running" /\ doing \notin {"queued", "settle"} =>
       \A p \in Movers : \/ {at[p], moves[p]} \intersect dealing # {}
                         \/ doing = "moves" /\ p \in todo

DocumentTypes(d) ==
  /\ d.status \in {"registering", "running"}
  /\ d.entrants \subseteq Person /\ d.barred \subseteq Person /\ d.extra \in Nat
  /\ d.addOns \subseteq Person /\ d.outs \in Seq(Line) /\ d.fieldSize \in Nat
  /\ d.row \in Row /\ d.stopped \in BOOLEAN /\ d.breakOrder \in Seq(Table)
  /\ KeptTypes(d.tables)

\* A field in the store could be on the felt: tables numbered in turn, none
\* too full, nobody at two, and everybody who entered at one or in the ledger.
TablesFit(d) ==
  /\ \E k \in 0..MaxTables : \A t \in Table : d.tables[t].made <=> t <= k
  /\ \A t \in Table :
       /\ ~d.tables[t].made => d.tables[t] = NoEntry
       /\ d.tables[t].broken => DOMAIN d.tables[t].roster = {}
       /\ Cardinality(DOMAIN d.tables[t].roster) <= TableSize
       /\ d.tables[t].made =>
            /\ \E i \in DOMAIN d.breakOrder : d.breakOrder[i] = t
            /\ d.tables[t].roster = [p \in DOMAIN d.tables[t].roster |-> d.tables[t].roster[p]]

PeopleFit(d) ==
  /\ \A t, u \in Table : \A p \in Person :
       p \in DOMAIN d.tables[t].roster /\ p \in DOMAIN d.tables[u].roster => t = u
  /\ InOrder(d.outs, d.fieldSize) /\ d.fieldSize = Cardinality(d.entrants)
  /\ \A p \in Person :
       /\ p \in d.entrants <=> SeatedAt(d, p) # {} \/ p \in Named(d.outs)
       /\ ~(SeatedAt(d, p) # {} /\ p \in Named(d.outs))

OnFile ==
  file # Nothing =>
    DocumentTypes(file) /\ (file.status = "running" => TablesFit(file) /\ PeopleFit(file))

FieldInv == Inv /\ SeatInv /\ LedgerInv /\ ChipConservation
RInv     == FieldInv /\ Records /\ MovesWait /\ OnFile

-----------------------------------------------------------------------------
(* The field's own steps *)

\* The clock is never before its first level.
LEMMA DoorsAreShut ==
  ASSUME ShutFromTheStart, TypeOK
  PROVE  \A p \in Person : ~RegisterLate(p) /\ ~Reenter(p)
<1> DEFINE Played == {i \in 1..row : Schedule[i] = "play"}
<1>1. row \in Nat /\ 1 \in 1..row
  BY DEF TypeOK, Row
<1>2. Played \subseteq 1..row /\ 1 \in Played /\ IsFiniteSet(1..row)
  BY <1>1, FS_Interval DEF ShutFromTheStart
<1>3. IsFiniteSet(Played)
  BY <1>2, FS_Subset
<1>4. Cardinality(Played) \in Nat /\ Cardinality(Played) # 0
  BY <1>2, <1>3, FS_CardinalityType, FS_EmptySet
<1>5. LevelNumber \in Nat /\ LevelNumber # 0
  BY <1>4 DEF LevelNumber
<1> QED
  BY <1>5 DEF RegisterLate, Reenter, LateRegOpen, ReentryOpen, ShutFromTheStart

\* What a step that leaves a table out of account leaves of it.
Untouched(t) ==
  /\ Seats(t)' = Seats(t) /\ (t \in broken' <=> t \in broken)
  /\ \A p \in Seats(t) : stack'[p] + bet'[p] = stack[p] + bet[p]

\* Nobody takes a seat in a running field from outside it.
LEMMA NobodyComes ==
  ASSUME ShutFromTheStart, Inv, SeatInv, status = "running", Next
  PROVE  /\ \A p \in Person : at[p] = Nowhere => at'[p] = Nowhere
         /\ UNCHANGED opened /\ status' # "registering"
<1> USE DEF Inv
<1>1. status' # "registering" /\ opened' = opened
  BY DoorsAreShut DEF Next, Ask, Follow, Register, Unregister, Start,
         TakeAddOn, RemoveFromPlay, Reconnect, RequestMove, Wager, LevelUp, Hold, StepLevel,
         QueuedDone, Finish, PlayOn, MovesDone, NoBreak, Emptied, Balanced, Collapsed, Sweep,
         TickMovesDone, DealtAll, ApplyRemoval, ApplyAddOn, ApplyMove, CarryOff, Balance,
         BeginBreak, Collapse, Deal, Tick, EndHand, Rested
<1>2. CASE LedgerQuiet
  BY <1>1, <1>2, SeatForSeat
<1>3. CASE Finish
  BY <1>1, <1>3 DEF Finish
<1>4. ASSUME NEW p \in Person, RemoveFromPlay(p) \/ ApplyRemoval(p)
      PROVE  \A q \in Person : at[q] = Nowhere => at'[q] = Nowhere
  BY <1>4 DEF RemoveFromPlay, ApplyRemoval, TakeOutOfPlay, TypeOK
<1>5. ASSUME NEW t \in Table, EndHand(t)
      PROVE  \A q \in Person : at[q] = Nowhere => at'[q] = Nowhere
  BY <1>5 DEF EndHand
<1>6. \A p \in Person : ~Register(p) /\ ~Unregister(p) /\ ~RegisterLate(p) /\ ~Reenter(p)
  BY DoorsAreShut DEF Register, Unregister
<1>7. ~Start
  BY DEF Start
<1> QED
  BY <1>1, <1>2, <1>3, <1>4, <1>5, <1>6, <1>7, SMTT(30) DEF Next, Ask, Follow, LedgerQuiet

\* Chips come to the field and leave it only at tables that are not dealing.
LEMMA ChipsWait ==
  ASSUME ShutFromTheStart, Inv, status = "running", Next,
         NEW t \in dealing \intersect dealing', NEW p \in Seats(t)
  PROVE  stack'[p] + bet'[p] = stack[p] + bet[p]
<1> USE DEF Inv
<1>1. p \in Person /\ at[p] = t /\ t \in Table
  BY DEF Seats, TypeOK
<1>2. /\ stack \in [Person -> Nat] /\ bet \in [Person -> Nat]
      /\ doing \in {"queued", "emptying"} => onTable \notin dealing
  BY DEF TypeOK, HandInv, HandlerFree
<1>3. ASSUME NEW q \in Person, TakeAddOn(q) PROVE stack'[p] + bet'[p] = stack[p] + bet[p]
  BY <1>1, <1>2, <1>3 DEF TakeAddOn
<1>4. ASSUME NEW q \in Person, RemoveFromPlay(q) PROVE stack'[p] + bet'[p] = stack[p] + bet[p]
  BY <1>1, <1>2, <1>4 DEF RemoveFromPlay, TakeOutOfPlay
<1>5. ASSUME NEW q \in Person, ApplyRemoval(q) PROVE stack'[p] + bet'[p] = stack[p] + bet[p]
  BY <1>1, <1>2, <1>5 DEF ApplyRemoval, TakeOutOfPlay, Queued, Doing, Leaving
<1>6. ASSUME NEW q \in Person, ApplyAddOn(q) PROVE stack'[p] + bet'[p] = stack[p] + bet[p]
  BY <1>1, <1>2, <1>6 DEF ApplyAddOn, Queued, Doing, Paying
<1>7. ASSUME NEW q \in Person, NEW n \in 1..stack[q], Wager(q, n)
      PROVE  stack'[p] + bet'[p] = stack[p] + bet[p]
  <2>1. n \in Int /\ stack[p] \in Int /\ bet[p] \in Int
    BY <1>1, <1>2
  <2>2. stack' = [stack EXCEPT ![q] = stack[q] - n] /\ bet' = [bet EXCEPT ![q] = bet[q] + n]
    BY <1>7 DEF Wager
  <2>3. CASE p = q
    BY <1>1, <1>2, <2>1, <2>2, <2>3
  <2>4. CASE p # q
    BY <1>1, <1>2, <2>2, <2>4
  <2> QED
    BY <2>3, <2>4
<1>8. ASSUME NEW u \in Table, Deal(u) PROVE stack'[p] + bet'[p] = stack[p] + bet[p]
  <2>1. u \notin dealing
    BY <1>8 DEF Deal, CanStartHand
  <2>2. p \notin Stacked(u)
    BY <1>1, <2>1 DEF Stacked, Seats
  <2>3. stack'[p] = stack[p] /\ bet'[p] = bet[p]
    BY <1>1, <1>8, <2>2 DEF Deal
  <2> QED
    BY <2>3
<1>9. ASSUME NEW u \in Table, EndHand(u) PROVE stack'[p] + bet'[p] = stack[p] + bet[p]
  <2>1. u # t
    BY <1>9 DEF EndHand
  <2>2. p \notin InHand(u)
    BY <1>1, <2>1 DEF InHand
  <2>3. stack'[p] = stack[p] /\ bet'[p] = bet[p]
    BY <1>1, <1>9, <2>2 DEF EndHand
  <2> QED
    BY <2>3
<1>10. CASE UNCHANGED <<stack, bet>>
  BY <1>10, SMTT(30)
<1> QED
  BY <1>3, <1>4, <1>5, <1>6, <1>7, <1>8, <1>9, <1>10, DoorsAreShut
  DEF Next, Ask, Follow, Register, Unregister, Start,
      Reconnect, RequestMove, LevelUp, Hold, StepLevel, QueuedDone, Finish, PlayOn,
      MovesDone, NoBreak, Emptied, Balanced, Collapsed, Sweep, TickMovesDone, DealtAll,
      ApplyMove, CarryOff, Balance, BeginBreak, Collapse, Tick, Rested

\* A table is broken when it is empty, and a table that deals is not.
LEMMA DealingIsWhole ==
  ASSUME Inv, SeatInv, status = "running", Next, NEW t \in dealing
  PROVE  t \in Made /\ t \notin broken /\ t \notin broken'
<1> USE DEF Inv
<1>1. Cardinality(InHand(t)) >= 2
  BY DEF HandInv, HandIsWhole, HandsPeopled
<1>2. InHand(t) # {}
  BY <1>1, FS_EmptySet
<1>3. t \in Table /\ Seats(t) # {}
  BY <1>2 DEF TypeOK, InHand, Seats
<1>4. t \in Made /\ t \notin broken
  BY <1>3 DEF SeatInv, SeatsHold
<1>5. ASSUME Emptied PROVE t \notin broken'
  BY <1>4, <1>5 DEF Emptied, Doing, HandInv, HandlerFree
<1>6. ASSUME NEW u \in Table, Collapse(u) PROVE t \notin broken'
  BY <1>4, <1>6 DEF Collapse, CanCollapse
<1>7. ASSUME Sweep PROVE t \notin broken'
  BY <1>3, <1>4, <1>7 DEF Sweep
<1>8. CASE UNCHANGED broken
  BY <1>4, <1>8
<1> QED
  BY <1>4, <1>5, <1>6, <1>7, <1>8
  DEF Next, Ask, Follow, Register, Unregister, Start, RegisterLate, Reenter, TakeSeat,
      TakeAddOn, RemoveFromPlay, Reconnect, RequestMove, Wager, LevelUp, Hold, StepLevel,
      QueuedDone, Finish, PlayOn, MovesDone, NoBreak, Balanced, Collapsed, TickMovesDone,
      DealtAll, ApplyRemoval, ApplyAddOn, ApplyMove, CarryOff, Balance, BeginBreak, Deal,
      Tick, EndHand, Rested

LEMMA HandsUntouched ==
  ASSUME ShutFromTheStart, Inv, SeatInv, status = "running", Next,
         NEW t \in dealing \intersect dealing'
  PROVE  t \in Made /\ Untouched(t)
<1>1. t \in Made /\ (t \in broken' <=> t \in broken)
  BY DealingIsWhole
<1>2. Seats(t) \subseteq Seats(t)' /\ \A p \in Seats(t)' \ Seats(t) : at[p] = Nowhere
  BY StandStep DEF SeatsStand
<1>3. \A p \in Seats(t)' : p \in Person /\ at'[p] = t /\ t # Nowhere
  BY DEF Seats, Inv, TypeOK
<1>4. Seats(t)' = Seats(t)
  BY <1>2, <1>3, NobodyComes
<1> QED
  BY <1>1, <1>4, ChipsWait DEF Untouched

\* Between two handlers nothing touches a table but the chips that go into its
\* hand: what a handler does to the field sends it through settle.
LEMMA TablesUntouched ==
  ASSUME ShutFromTheStart, Inv, SeatInv, MovesWait, status = "running", Next, Between, Between'
  PROVE  \A t \in Made : Untouched(t)
<1> USE DEF Inv
<1>1. /\ stack \in [Person -> Nat] /\ bet \in [Person -> Nat]
      /\ at \in [Person -> Table \union {Nowhere}] /\ moves \in [Person -> Table \union {Nowhere}]
  BY DEF TypeOK
<1>2. ASSUME NEW p \in Person, ApplyMove(p) PROVE UNCHANGED <<at, broken, stack, bet>>
  <2>1. doing = "tickMoves"
    BY <1>2 DEF ApplyMove, Doing, Between
  <2>2. moves[p] # Nowhere => {at[p], moves[p]} \intersect dealing # {}
    BY <2>1 DEF MovesWait, Movers
  <2>3. MoveStands(p, moves[p]) => moves[p] # Nowhere
    BY DEF MoveStands, Made
  <2> QED
    BY <1>2, <2>2, <2>3 DEF ApplyMove
<1>3. ASSUME NEW p \in Person, TakeAddOn(p) \/ RemoveFromPlay(p)
      PROVE  UNCHANGED <<at, broken, stack, bet>>
  BY <1>3 DEF TakeAddOn, RemoveFromPlay, SettleField, Agenda, Between
<1>4. ASSUME NEW p \in Person, NEW t \in Table, RequestMove(p, t)
      PROVE  UNCHANGED <<at, broken, stack, bet>>
  BY <1>4 DEF RequestMove, SettleField, Agenda, Between
<1>5. ASSUME NEW q \in Person, NEW n \in 1..stack[q], Wager(q, n)
      PROVE  UNCHANGED <<at, broken>> /\ \A p \in Person : stack'[p] + bet'[p] = stack[p] + bet[p]
  <2>1. n \in Int
    BY <1>1
  <2>2. stack' = [stack EXCEPT ![q] = stack[q] - n] /\ bet' = [bet EXCEPT ![q] = bet[q] + n]
    BY <1>5 DEF Wager
  <2>3. ASSUME NEW p \in Person PROVE stack'[p] + bet'[p] = stack[p] + bet[p]
    <3>1. stack[p] \in Int /\ bet[p] \in Int
      BY <1>1
    <3>2. CASE p = q
      BY <1>1, <2>1, <2>2, <3>1, <3>2
    <3>3. CASE p # q
      BY <1>1, <2>2, <3>3
    <3> QED
      BY <3>2, <3>3
  <2> QED
    BY <1>5, <2>3 DEF Wager
<1>6. ASSUME NEW u \in Table, Deal(u)
      PROVE  UNCHANGED <<at, broken>> /\ \A p \in Person : stack'[p] + bet'[p] = stack[p] + bet[p]
  <2>1. u \notin dealing
    BY <1>6 DEF Deal, CanStartHand
  <2>2. ASSUME NEW p \in Stacked(u) PROVE p \in Person /\ bet[p] = 0
    <3>1. p \in Person /\ at[p] = u
      BY <2>2 DEF Stacked, Seats
    <3>2. p \notin dealtIn
      BY <2>1, <3>1 DEF HandInv, HandIsWhole, InHandSeated
    <3> QED
      BY <1>1, <3>1, <3>2 DEF HandInv, HandIsWhole, MoneyInHand
  <2>3. PICK post \in [Stacked(u) -> 0..Forced] :
          /\ stack' = [p \in Person |-> IF p \in Stacked(u) THEN stack[p] - post[p] ELSE stack[p]]
          /\ bet' = [p \in Person |-> IF p \in Stacked(u) THEN post[p] ELSE bet[p]]
    BY <1>6 DEF Deal
  <2>4. ASSUME NEW p \in Person PROVE stack'[p] + bet'[p] = stack[p] + bet[p]
    <3>1. CASE p \in Stacked(u)
      <4>1. post[p] \in Int /\ stack[p] \in Int
        BY <1>1, <3>1, SizesAssumption
      <4> QED
        BY <2>2, <2>3, <3>1, <4>1
    <3>2. CASE p \notin Stacked(u)
      BY <2>3, <3>2
    <3> QED
      BY <3>1, <3>2
  <2> QED
    BY <1>6, <2>4 DEF Deal
<1>7. UNCHANGED <<at, broken>> /\ \A p \in Person : stack'[p] + bet'[p] = stack[p] + bet[p]
  <2>1. CASE UNCHANGED <<at, broken, stack, bet>>
    BY <2>1
  <2> QED
    BY <1>2, <1>3, <1>4, <1>5, <1>6, <2>1, DoorsAreShut
    DEF Next, Ask, Follow, Register, Unregister, Start, Reconnect, LevelUp, Hold, StepLevel,
        QueuedDone, Finish, PlayOn, MovesDone, NoBreak, Emptied, Balanced, Collapsed, Sweep,
        TickMovesDone, DealtAll, ApplyRemoval, ApplyAddOn, Queued, CarryOff, Balance, BeginBreak,
        Collapse, EndHand, Tick, Rested, Doing, Agenda, Between
<1> QED
  BY <1>7 DEF Untouched, Seats

LEMMA MovesStill ==
  ASSUME MovesWait, UNCHANGED <<status, at, moves>>, dealing \subseteq dealing',
         doing \notin {"queued", "settle"},
         doing = "moves" => todo = {} \/ (doing' = doing /\ todo' = todo)
  PROVE  MovesWait'
BY DEF MovesWait, Movers

\* Somebody changes seats between two tables that are not dealing.
LEMMA MovesCarried ==
  ASSUME MovesWait, UNCHANGED <<status, moves, dealing>>, status = "running", TypeOK,
         doing \notin {"queued", "settle", "moves"},
         NEW p \in Person, NEW u, at' = [at EXCEPT ![p] = u], at[p] \notin dealing
  PROVE  MovesWait'
<1>1. \A q \in Person : q # p => at'[q] = at[q]
  BY DEF TypeOK
<1>2. \A q \in Movers : {at[q], moves[q]} \intersect dealing # {}
  BY DEF MovesWait
<1>3. \A q \in Movers : q \in Person /\ {at'[q], moves[q]} \intersect dealing # {}
  BY <1>1, <1>2 DEF Movers
<1>4. Movers' = Movers /\ dealing' = dealing /\ status' = "running" /\ moves' = moves
  BY DEF Movers
<1>5. \A q \in Movers' : {at'[q], moves'[q]} \intersect dealing' # {}
  BY <1>3, <1>4
<1> QED
  BY <1>4, <1>5 DEF MovesWait

LEMMA MovesApplied ==
  ASSUME TypeOK, MovesWait, NEW p \in Person, ApplyMove(p)
  PROVE  MovesWait'
<1>1. /\ status = "running" /\ status' = status /\ doing \in {"moves", "tickMoves"}
      /\ dealing' = dealing /\ todo' = todo \ {p} /\ doing' = doing
  BY DEF ApplyMove, Doing, WorkOn, Agenda
<1>2. \A q \in Person : q # p => at'[q] = at[q] /\ moves'[q] = moves[q]
  BY DEF ApplyMove, TypeOK
<1>3. moves'[p] # Nowhere => {at'[p], moves'[p]} \intersect dealing' # {}
  BY DEF ApplyMove, TypeOK
<1>4. ASSUME NEW q \in Person, moves'[q] # Nowhere
      PROVE  {at'[q], moves'[q]} \intersect dealing' # {} \/ (doing' = "moves" /\ q \in todo')
  <2>1. CASE q = p
    BY <1>3, <1>4, <2>1
  <2>2. CASE q # p
    BY <1>1, <1>2, <1>4, <2>2 DEF MovesWait, Movers
  <2> QED
    BY <2>1, <2>2
<1> QED
  BY <1>1, <1>4 DEF MovesWait, Movers

LEMMA MovesStep ==
  ASSUME Inv, SeatInv, MovesWait, [Next]_vars
  PROVE  MovesWait'
<1> USE DEF Inv
<1>0. CASE UNCHANGED vars
  <2>1. UNCHANGED <<status, at, moves, dealing, doing, todo>>
    BY <1>0 DEF agenda
  <2> QED
    BY <2>1 DEF MovesWait, Movers
<1>1. CASE status' # "registering" /\ (doing' \in {"queued", "settle"} \/ status' = "finished")
  BY <1>1 DEF MovesWait
<1>2. CASE /\ UNCHANGED <<status, at, moves>> /\ dealing \subseteq dealing'
           /\ doing \notin {"queued", "settle"}
           /\ doing = "moves" => todo = {} \/ (doing' = doing /\ todo' = todo)
  BY <1>2, MovesStill
<1>3. ASSUME NEW p \in Person, TakeAddOn(p) \/ RemoveFromPlay(p)
                               \/ ApplyRemoval(p) \/ ApplyAddOn(p)
      PROVE  MovesWait'
  <2>1. status = "running" /\ status' = status /\ UNCHANGED moves
    BY <1>3 DEF TakeAddOn, RemoveFromPlay, ApplyRemoval, ApplyAddOn, Running, Queued, Doing
  <2>2. CASE doing' \in {"queued", "settle"}
    BY <1>1, <2>1, <2>2
  <2>3. CASE doing' \notin {"queued", "settle"}
    BY <1>2, <1>3, <2>3 DEF TakeAddOn, RemoveFromPlay, ApplyRemoval, ApplyAddOn, SettleField,
          Agenda, agenda, Running, Queued, Doing, Idle
  <2> QED
    BY <2>2, <2>3
<1>4. ASSUME NEW p \in Person, NEW t \in Table, RequestMove(p, t)
      PROVE  MovesWait'
  <2>1. status = "running" /\ status' = status /\ doing = "idle" /\ dealing' = dealing
    BY <1>4 DEF RequestMove, Running, Idle
  <2>2. CASE doing' = "settle"
    BY <1>1, <2>1, <2>2
  <2>3. CASE doing' # "settle"
    <3>1. /\ {at[p], t} \intersect dealing # {} /\ moves' = [moves EXCEPT ![p] = t]
          /\ at' = at
      BY <1>4, <2>3 DEF RequestMove, SettleField, Agenda
    <3>2. \A q \in Person : moves'[q] = IF q = p THEN t ELSE moves[q]
      BY <3>1 DEF TypeOK
    <3>3. ASSUME NEW q \in Person, moves'[q] # Nowhere
          PROVE  {at'[q], moves'[q]} \intersect dealing' # {}
      BY <2>1, <3>1, <3>2, <3>3 DEF MovesWait, Movers
    <3> QED
      BY <2>1, <3>3 DEF MovesWait, Movers
  <2> QED
    BY <2>2, <2>3
<1>5. CASE PlayOn
  BY <1>5 DEF PlayOn, Doing, Agenda, MovesWait, Movers
<1>6. ASSUME NEW p \in Person, ApplyMove(p) PROVE MovesWait'
  BY <1>6, MovesApplied
<1>7. ASSUME NEW p \in Person, CarryOff(p) PROVE MovesWait'
  <2>1. at[p] = onTable /\ onTable \notin dealing
    BY <1>7 DEF CarryOff, Doing, HandInv, HandlerFree
  <2>2. PICK u \in Table : at' = [at EXCEPT ![p] = u]
    BY <1>7 DEF CarryOff
  <2> QED
    BY <1>7, <2>1, <2>2, MovesCarried DEF CarryOff, Doing
<1>8. ASSUME NEW p \in Person, NEW t \in Table, Balance(p, t) PROVE MovesWait'
  BY <1>8, MovesCarried DEF Balance, CanBalance, Doing
<1>9. ASSUME NEW t \in Table, Collapse(t) PROVE MovesWait'
  <2>1. PICK p \in Stacked(t), u \in Table : at' = [at EXCEPT ![p] = u]
    BY <1>9 DEF Collapse
  <2>2. p \in Person /\ at[p] \notin dealing
    BY <1>9 DEF Stacked, Seats, Collapse, CanCollapse
  <2> QED
    BY <1>9, <2>1, <2>2, MovesCarried DEF Collapse, Doing
<1>10. ASSUME NEW t \in Table, EndHand(t) PROVE MovesWait'
  BY <1>1, <1>10 DEF EndHand, Agenda, Running
<1>11. ASSUME NEW p \in Person, RegisterLate(p) \/ Reenter(p) PROVE MovesWait'
  <2>1. /\ at[p] = Nowhere /\ status = "running" /\ doing = "idle"
        /\ UNCHANGED <<status, moves, dealing>>
    BY <1>11 DEF RegisterLate, Reenter, HandInv, EnteredOnly, Running, Idle
  <2>2. Nowhere \notin dealing
    BY DEF TypeOK
  <2>3. \E u : at' = [at EXCEPT ![p] = u]
    BY <1>11, SeatTaken DEF RegisterLate, Reenter
  <2> QED
    BY <2>1, <2>2, <2>3, MovesCarried
<1>12. CASE Start
  BY <1>12 DEF Start, MovesWait, Movers
<1>13. CASE Finish
  BY <1>1, <1>13 DEF Finish
<1>14. CASE QueuedDone
  BY <1>1, <1>14 DEF QueuedDone, Queued, Doing, GoTo, Agenda
<1>15. CASE Tick
  BY <1>2, <1>15 DEF Tick, Running, Idle
<1>16. CASE MovesDone \/ NoBreak \/ Emptied \/ Balanced \/ Collapsed \/ Sweep \/ TickMovesDone
            \/ DealtAll \/ \E t \in Table : BeginBreak(t) \/ Deal(t)
  BY <1>2, <1>16 DEF MovesDone, NoBreak, Emptied, Balanced, Collapsed, Sweep, TickMovesDone,
       DealtAll, BeginBreak, Deal, Doing
<1>17. CASE \/ \E p \in Person : \/ Register(p) \/ Unregister(p) \/ Reconnect(p)
                                 \/ \E n \in 1..stack[p] : Wager(p, n)
            \/ LevelUp \/ Hold \/ \E i \in Row : StepLevel(i)
            \/ \E t \in Table : Rested(t)
  <2>1. UNCHANGED <<status, at, moves, dealing, agenda>>
    BY <1>17 DEF Register, Unregister, Reconnect, Wager, LevelUp, Hold, StepLevel, Rested
  <2> QED
    BY <2>1 DEF MovesWait, Movers, agenda
<1> QED
  BY <1>0, <1>3, <1>4, <1>5, <1>6, <1>7, <1>8, <1>9, <1>10, <1>11, <1>12, <1>13, <1>14, <1>15,
     <1>16, <1>17 DEF Next, Ask, Follow

\* While no table is on record the field has only just begun.
LEMMA NotYet ==
  ASSUME TypeOK, status = "running", dealing = {}, ~ticking,
         doing \notin {"queued", "tickMoves", "deal"}, ~Begun, Written \/ Unwritten,
         ShutFromTheStart
  PROVE  dealing' = {} /\ ~ticking' /\ doing' \notin {"queued", "tickMoves", "deal"}
<1>1. \A t \in Table : ~Deal(t) /\ ~EndHand(t)
  BY DEF Deal, Doing, EndHand
<1>2. ~QueuedDone /\ ~TickMovesDone /\ ~DealtAll
  BY DEF QueuedDone, Queued, TickMovesDone, DealtAll, Doing
<1>3. CASE Written
  <2>1. ASSUME NEW p \in Person, Register(p) \/ Unregister(p) \/ TakeAddOn(p) \/ RemoveFromPlay(p)
        PROVE  dealing' = {} /\ ~ticking' /\ doing' \notin {"queued", "tickMoves", "deal"}
    BY <2>1 DEF Register, Unregister, TakeAddOn, RemoveFromPlay, agenda, SettleField, Agenda
  <2>2. ASSUME Hold \/ \E i \in Row : StepLevel(i)
        PROVE  dealing' = {} /\ ~ticking' /\ doing' \notin {"queued", "tickMoves", "deal"}
    BY <2>2 DEF Hold, StepLevel, agenda
  <2> QED
    BY <1>3, <2>1, <2>2, DoorsAreShut DEF Written
<1>4. CASE \/ \E p \in Person : \/ Reconnect(p) \/ \E t \in Table : RequestMove(p, t)
                                \/ \E n \in 1..stack[p] : Wager(p, n)
           \/ LevelUp \/ \E t \in Table : Rested(t)
  BY <1>4 DEF Reconnect, RequestMove, Wager, LevelUp, Rested, agenda, SettleField, Agenda
<1>5. CASE Finish \/ PlayOn \/ MovesDone \/ NoBreak \/ Emptied \/ Balanced \/ Collapsed
  BY <1>5 DEF Finish, PlayOn, MovesDone, NoBreak, Emptied, Balanced, Collapsed, GoTo,
       EndHandler, Agenda
<1>6. CASE \/ \E p \in Person : \/ ApplyRemoval(p) \/ ApplyAddOn(p) \/ ApplyMove(p)
                                \/ CarryOff(p) \/ \E t \in Table : Balance(p, t)
           \/ \E t \in Table : BeginBreak(t) \/ Collapse(t)
  BY <1>6 DEF ApplyRemoval, ApplyAddOn, ApplyMove, CarryOff, Balance, BeginBreak, Collapse,
       agenda, WorkOn, Agenda
<1>7. CASE doing # "sweep" /\ Follow
  <2>1. ~Sweep
    BY <1>7 DEF Sweep, Doing
  <2> QED
    BY <1>1, <1>2, <1>5, <1>6, <1>7, <2>1 DEF Follow
<1> QED
  BY <1>1, <1>3, <1>4, <1>7 DEF Unwritten

\* A handler that has begun on the field ends with its sweep, or the field does.
LEMMA StillBusy ==
  ASSUME TypeOK, status = "running", status' = "running", Next, ~Sweep, ~Between
  PROVE  ~Between'
<1>1. doing # "idle"
  BY DEF Between
<1>2. ~Ask
  BY <1>1 DEF Ask, Register, Unregister, RegisterLate, Reenter, Start, TakeAddOn, RemoveFromPlay,
       Reconnect, RequestMove, Wager, LevelUp, Hold, StepLevel, Idle, Running
<1>3. ~Tick /\ \A t \in Table : ~EndHand(t) /\ ~Rested(t)
  BY <1>1 DEF Tick, EndHand, Rested, Idle, Running
<1>4. ~TickMovesDone /\ ~DealtAll /\ \A t \in Table : ~Deal(t)
  BY DEF TickMovesDone, DealtAll, Deal, Doing, Between
<1>5. CASE QueuedDone \/ Finish \/ PlayOn \/ MovesDone \/ NoBreak \/ Emptied \/ Balanced \/ Collapsed
  BY <1>5 DEF QueuedDone, Finish, PlayOn, MovesDone, NoBreak, Emptied, Balanced, Collapsed, Queued,
       agenda, GoTo, WorkOn, EndHandler, SettleField, Agenda, Idle, Running, Doing, Between
<1>6. CASE \/ \E p \in Person : \/ ApplyRemoval(p) \/ ApplyAddOn(p) \/ ApplyMove(p)
                                \/ CarryOff(p) \/ \E t \in Table : Balance(p, t)
           \/ \E t \in Table : BeginBreak(t) \/ Collapse(t)
  BY <1>6 DEF ApplyRemoval, ApplyAddOn, ApplyMove, CarryOff, Balance, BeginBreak, Collapse, Queued,
       agenda, GoTo, WorkOn, EndHandler, SettleField, Agenda, Idle, Running, Doing, Between
<1> QED
  BY <1>2, <1>3, <1>4, <1>5, <1>6 DEF Next, Follow

LEMMA RecordStays ==
  ASSUME NEW t \in Table, Recorded(t), Untouched(t), kept'[t] = kept[t]
  PROVE  Recorded(t)'
<1>1. [p \in Seats(t) |-> stack[p] + bet[p]] = [p \in Seats(t)' |-> stack'[p] + bet'[p]]
  BY DEF Untouched
<1> QED
  BY <1>1 DEF Recorded, Untouched

\* What is on record of the tables that are dealing stays true.
LEMMA DealingOnRecord ==
  ASSUME ShutFromTheStart, Inv, SeatInv, Records, MovesWait, Next, status = "running",
         NEW t \in dealing', t \in dealing \/ UNCHANGED kept, kept'[t] = kept[t]
  PROVE  t \in Made' /\ Recorded(t)'
<1> USE DEF Inv
<1>1. opened' = opened
  BY NobodyComes
<1>2. CASE t \in dealing
  <2>1. t \in Made /\ Recorded(t) /\ t \in Table
    BY <1>2 DEF Records, TypeOK
  <2>2. Untouched(t)
    BY <1>2, HandsUntouched
  <2>3. Recorded(t)'
    BY <2>1, <2>2, RecordStays
  <2> QED
    BY <1>1, <2>1, <2>3 DEF Made
<1>3. CASE t \notin dealing
  <2>0. ASSUME \A u \in Table : ~Deal(u) PROVE FALSE
    BY <1>3, <2>0, DoorsAreShut
    DEF Next, Ask, Follow, Register, Unregister, Start, TakeAddOn, RemoveFromPlay, Reconnect,
      RequestMove, Wager, LevelUp, Hold, StepLevel, Finish, PlayOn, MovesDone, NoBreak, Emptied,
      Balanced, Collapsed, Sweep, ApplyRemoval, ApplyAddOn, ApplyMove, CarryOff, Balance,
      QueuedDone, TickMovesDone, DealtAll, Tick, EndHand,
      BeginBreak, Collapse, Rested
  <2>1. Deal(t)
    <3>1. PICK u \in Table : Deal(u)
      BY <2>0, <1>3
    <3>2. dealing' = dealing \union {u}
      BY <3>1 DEF Deal
    <3> QED
      BY <1>3, <3>1, <3>2
  <2>2. Between /\ Between' /\ doing = "deal"
    BY <2>1 DEF Deal, Doing, WorkOn, Agenda, Between
  <2>3. t \in Made /\ t \in Table
    <3>1. Stacked(t) # {} /\ t \in Table
      <4>1. Cardinality(Stacked(t)) >= 2
        BY <2>1 DEF Deal, CanStartHand
      <4>2. PICK post \in [Stacked(t) -> 0..Forced] : \E p \in Stacked(t) : post[p] > 0
        BY <2>1 DEF Deal
      <4>3. PICK p \in Stacked(t) : TRUE
        BY <4>2
      <4>4. p \in Person /\ at[p] = t /\ stack[p] > 0
        BY <4>3 DEF Stacked, Seats
      <4>5. t # Nowhere
        BY <4>4 DEF HandInv, OutsideEmpty, TypeOK
      <4> QED
        BY <4>3, <4>4, <4>5 DEF TypeOK
    <3>2. Seats(t) # {}
      BY <3>1 DEF Stacked
    <3> QED
      BY <3>1, <3>2 DEF SeatInv, SeatsHold
  <2>4. Recorded(t)
    BY <2>2, <2>3 DEF Records
  <2>5. Untouched(t)
    BY <2>2, <2>3, TablesUntouched
  <2>6. Recorded(t)'
    BY <2>3, <2>4, <2>5, RecordStays
  <2> QED
    BY <1>1, <2>3, <2>6, SMTT(30) DEF Made
<1> QED
  BY <1>2, <1>3

\* A field that is over stays as it is.
LEMMA NothingAfter ==
  ASSUME status = "finished"
  PROVE  ~Next
BY DEF Next, Ask, Follow, Register, Unregister, RegisterLate, Reenter, Start, TakeAddOn,
      RemoveFromPlay, Reconnect, RequestMove, Wager, LevelUp, Hold, StepLevel, Finish, PlayOn,
      MovesDone, NoBreak, Emptied, Balanced, Collapsed, Sweep, ApplyRemoval, ApplyAddOn,
      ApplyMove, CarryOff, Balance, Tick, EndHand, QueuedDone, Queued, TickMovesDone, DealtAll,
      Deal, BeginBreak, Collapse, Rested, Running, Doing

\* A step of the field that writes nothing leaves what is on record true.
LEMMA RecordsStep ==
  ASSUME ShutFromTheStart, Inv, SeatInv, Records, MovesWait, Written \/ Unwritten
  PROVE  Records'
<1> USE DEF Inv
<1>1. Next /\ kept' = kept /\ held' = held
  BY DEF Written, Unwritten, Next, Ask, memory
<1>2. CASE status = "registering"
  <2>1. status' = "registering" /\ ticking' = ticking
    BY <1>2, OnlyTheStart
  <2> QED
    BY <1>1, <1>2, <2>1 DEF Records
<1>3. CASE status' = "finished"
  BY <1>1, <1>3 DEF Records
<1>4. CASE status = "finished"
  BY <1>1, <1>4, NothingAfter
<1>5. CASE status = "running" /\ status' = "running"
  <2>1. opened' = opened /\ Begun' = Begun
    BY <1>1, <1>5, NobodyComes DEF Begun
  <2>2. \A t \in Table \ Made' : kept'[t] = NoEntry
    BY <1>1, <1>5, <2>1 DEF Records, Made
  <2>3. \A t \in dealing' : t \in Made' /\ Recorded(t)'
    BY <1>1, <1>5, DealingOnRecord
  <2>4. ASSUME Between', Begun', NEW t \in Made' PROVE Recorded(t)'
    <3>1. t \in Made /\ t \in Table
      BY <2>1, TypeFacts DEF Made
    <3>2. Between
      <4>1. doing # "sweep"
        <5>1. CASE Written
          <6>1. \A p \in Person : ~Register(p) /\ ~Unregister(p)
            BY <1>5 DEF Register, Unregister
          <6> QED
            BY <5>1, <6>1 DEF Written, RegisterLate, Reenter, TakeAddOn, RemoveFromPlay, Hold,
                 StepLevel, Running, Idle
        <5>2. CASE Unwritten
          BY <5>2 DEF Unwritten, Reconnect, RequestMove, Wager, LevelUp, Tick, EndHand, Rested,
               Running, Idle
        <5> QED
          BY <5>1, <5>2
      <4>2. ~Sweep
        BY <4>1 DEF Sweep, Doing
      <4> QED
        BY <1>1, <1>5, <2>4, <4>2, StillBusy
    <3>3. Recorded(t)
      BY <1>5, <2>1, <2>4, <3>1, <3>2 DEF Records
    <3>4. Untouched(t)
      BY <1>1, <1>5, <2>4, <3>1, <3>2, TablesUntouched
    <3> QED
      BY <1>1, <3>1, <3>3, <3>4, RecordStays
  <2>5. ~Begun' => dealing' = {} /\ ~ticking' /\ doing' \notin {"queued", "tickMoves", "deal"}
    BY <1>5, <2>1, NotYet DEF Records
  <2>6. KeptTypes(kept') /\ opened' > 0
    BY <1>1, <1>5, <2>1 DEF Records
  <2> QED
    BY <1>5, <2>2, <2>3, <2>4, <2>5, <2>6 DEF Records
<1> QED
  BY <1>1, <1>2, <1>3, <1>4, <1>5, TypeStep, NobodyComes DEF TypeOK

-----------------------------------------------------------------------------
(* What is written down *)

\* A seat with no hand to play has its chips in front of it, and has some.
LEMMA IdleSeats ==
  ASSUME Inv', NEW t \in Table, t \notin dealing'
  PROVE  /\ Seats(t)' \subseteq Person
         /\ \A p \in Seats(t)' : stack'[p] \in Nat \ {0} /\ stack'[p] = stack'[p] + bet'[p]
<1>1. \A p \in Seats(t)' : p \in Person /\ at'[p] = t /\ t # Nowhere
  BY DEF Seats
<1>2. \A p \in Seats(t)' : p \notin dealtIn'
  BY <1>1 DEF Inv, HandInv, HandIsWhole, InHandSeated
<1>3. \A p \in Seats(t)' : stack'[p] # 0 /\ ~(bet'[p] > 0)
  BY <1>1, <1>2 DEF Inv, HandInv, HandIsWhole, MoneyInHand, BrokeInHand
<1>4. \A p \in Person : stack'[p] \in Nat /\ bet'[p] \in Nat
  BY DEF Inv, TypeOK
<1> QED
  BY <1>1, <1>3, <1>4

\* Capturing the idle tables records them, and leaves the rest.
LEMMA Captured ==
  ASSUME Inv', KeptTypes(kept), Capture
  PROVE  /\ KeptTypes(kept')
         /\ \A t \in Table : t \in Made' \ dealing' => Recorded(t)'
         /\ \A t \in Table : t \notin Made' \ dealing' => kept'[t] = kept[t]
<1>1. \A t \in Table : kept'[t] = IF t \in Made' \ dealing' THEN Entry(t)' ELSE kept[t]
  BY DEF Capture
<1>2. ASSUME NEW t \in Table, t \in Made' \ dealing'
      PROVE  /\ kept'[t].made = TRUE
             /\ kept'[t].broken \in BOOLEAN /\ (kept'[t].broken <=> t \in broken')
             /\ kept'[t].roster = [p \in Seats(t)' |-> stack'[p]]
  <2> DEFINE chips == [p \in Seats(t)' |-> stack'[p]]
  <2>1. kept'[t] = [made |-> TRUE, broken |-> t \in broken', roster |-> chips]
    BY <1>1, <1>2 DEF Entry, Restrict
  <2>2. (t \in broken') \in BOOLEAN
    OBVIOUS
  <2> HIDE DEF chips
  <2>3. kept'[t].made = TRUE /\ kept'[t].roster = chips /\ kept'[t].broken = (t \in broken')
    BY <2>1
  <2>4. kept'[t].broken \in BOOLEAN /\ (kept'[t].broken <=> t \in broken')
    BY <2>2, <2>3
  <2> QED
    BY <2>3, <2>4 DEF chips
<1>3. ASSUME NEW t \in Table, t \in Made' \ dealing' PROVE Recorded(t)'
  <2>1. [p \in Seats(t)' |-> stack'[p]] = [p \in Seats(t)' |-> stack'[p] + bet'[p]]
    BY <1>3, IdleSeats
  <2> QED
    BY <1>2, <1>3, <2>1 DEF Recorded
<1>4. ASSUME NEW t \in Table
      PROVE  /\ kept'[t].made \in BOOLEAN /\ kept'[t].broken \in BOOLEAN
             /\ DOMAIN kept'[t].roster \subseteq Person
             /\ \A p \in DOMAIN kept'[t].roster : kept'[t].roster[p] \in Nat \ {0}
  <2>1. CASE t \in Made' \ dealing'
    <3>1. /\ kept'[t].made \in BOOLEAN /\ kept'[t].broken \in BOOLEAN
          /\ DOMAIN kept'[t].roster = Seats(t)'
          /\ \A p \in Seats(t)' : kept'[t].roster[p] = stack'[p]
      BY <1>2, <2>1
    <3> QED
      BY <2>1, <3>1, IdleSeats
  <2>2. CASE t \notin Made' \ dealing'
    BY <1>1, <2>2 DEF KeptTypes
  <2> QED
    BY <2>1, <2>2
<1>5. KeptTypes(kept')
  BY <1>4 DEF KeptTypes
<1> QED
  BY <1>1, <1>3, <1>5

\* When every idle table has been captured, every table is on record.
LEMMA AllOnRecord ==
  ASSUME Inv', KeptTypes(kept), Capture, status' = "running", opened' > 0,
         \A t \in Table \ Made' : kept[t] = NoEntry,
         \A t \in dealing' : t \in Made' /\ Recorded(t)'
  PROVE  Records' /\ \A t \in Made' : Recorded(t)'
<1>1. Made' \subseteq Table /\ 1 \in Made'
  <2>1. opened' \in 0..MaxTables
    BY DEF Inv, TypeOK
  <2> QED
    BY <2>1, SizesAssumption DEF Made
<1>2. KeptTypes(kept') /\ \A t \in Table \ Made' : kept'[t] = NoEntry
  BY Captured
<1>3. \A t \in Made' : Recorded(t)'
  BY <1>1, Captured
<1>4. Begun'
  BY <1>1, <1>3 DEF Begun, Recorded
<1> QED
  BY <1>2, <1>3, <1>4 DEF Records

LEMMA FlushRecords ==
  ASSUME Inv, Inv', SeatInv, Records, Flush
  PROVE  /\ Records'
         /\ status = "running" => \A t \in Made : Recorded(t)'
<1>1. /\ UNCHANGED <<status, opened, broken, at, stack, bet, dealing, doing, ticking, held>>
      /\ doing = "idle"
  BY DEF Flush, Idle, agenda
<1>2. CASE status # "running"
  <2>1. kept' = kept
    BY <1>2 DEF Flush
  <2> QED
    BY <1>1, <1>2, <2>1 DEF Records
<1>3. CASE status = "running"
  <2>1. Capture /\ KeptTypes(kept) /\ opened' > 0 /\ Made' = Made
    BY <1>1, <1>3 DEF Flush, Records, Made
  <2>2. \A t \in Table : t \notin Made' \ dealing' => kept'[t] = kept[t]
    BY <2>1, Captured
  <2>3. \A t \in Table \ Made' : kept[t] = NoEntry
    BY <1>3, <2>1 DEF Records
  <2>4. ASSUME NEW t \in dealing' PROVE t \in Made' /\ Recorded(t)'
    <3>1. t \in Made /\ Recorded(t) /\ t \in Table
      BY <1>1, <1>3, <2>4 DEF Records, Inv, TypeOK
    <3>2. kept'[t] = kept[t] /\ Untouched(t)
      BY <1>1, <2>2, <2>4, <3>1 DEF Untouched, Seats
    <3> QED
      BY <2>1, <3>1, <3>2, RecordStays
  <2> QED
    BY <1>1, <1>3, <2>1, <2>3, <2>4, AllOnRecord
<1> QED
  BY <1>2, <1>3

LEMMA SettledRecords ==
  ASSUME ShutFromTheStart, Inv, Inv', SeatInv, Records, MovesWait, Settled
  PROVE  Records'
<1>1. Next /\ Capture /\ status = "running" /\ status' = "running"
  BY DEF Settled, Sweep, Doing, Next, Follow
<1>2. KeptTypes(kept) /\ opened' > 0 /\ Made' = Made
  BY <1>1, NobodyComes DEF Records, Made
<1>3. \A t \in Table : t \notin Made' \ dealing' => kept'[t] = kept[t]
  BY <1>1, <1>2, Captured
<1>4. \A t \in Table \ Made' : kept[t] = NoEntry
  BY <1>1, <1>2 DEF Records
<1>5. ASSUME NEW t \in dealing' PROVE t \in Made' /\ Recorded(t)'
  <2>1. t \in dealing /\ t \in Table
    BY <1>5 DEF Settled, Sweep, Inv, TypeOK
  <2>2. kept'[t] = kept[t]
    BY <1>3, <1>5, <2>1
  <2> QED
    BY <1>1, <1>5, <2>1, <2>2, DealingOnRecord
<1> QED
  BY <1>1, <1>2, <1>4, <1>5, AllOnRecord

LEMMA NothingIsKept == KeptTypes(NoTables)
<1>1. ASSUME NEW t \in Table
      PROVE  /\ NoTables[t].made = FALSE /\ NoTables[t].broken = FALSE
             /\ DOMAIN NoTables[t].roster = {}
  BY DEF NoTables, NoEntry
<1> QED
  BY <1>1 DEF KeptTypes

LEMMA StartOverRecords ==
  ASSUME Inv, Records, StartOver
  PROVE  Records'
<1>1. /\ status = "registering" /\ status' = "running" /\ kept' = NoTables
      /\ dealing' = dealing /\ doing' = doing /\ ticking' = ticking
  BY DEF StartOver, Start, agenda
<1>2. dealing' = {} /\ doing' = "idle" /\ ~ticking'
  BY <1>1 DEF Inv, HandInv, NotStarted, Records
<1>3. opened' > 0
  <2>1. Cardinality(entrants) \in Nat \ {0} /\ opened' = TablesFor(Cardinality(entrants))
    BY FiniteGroup DEF StartOver, Start, Inv, TypeOK
  <2>2. opened' \in Nat \ {0}
    BY <2>1, RoomForAll
  <2> QED
    BY <2>2
<1>4. \A t \in Table : kept'[t] = NoEntry
  BY <1>1 DEF NoTables
<1>5. ~Begun'
  BY <1>4 DEF Begun, NoEntry
<1> QED
  BY <1>1, <1>2, <1>3, <1>4, <1>5, NothingIsKept DEF Records

LEMMA RecordsStill ==
  ASSUME Records, UNCHANGED <<vars, kept, held>>
  PROVE  Records'
BY DEF Records, Recorded, Begun, Between, Made, Seats, agenda

\* A running field is written down as it stands.
LEMMA FlushTables ==
  ASSUME Inv, Inv', SeatInv, Records, Flush, status = "running", NEW t \in Table
  PROVE  /\ kept'[t].made <=> t \in Made
         /\ DOMAIN kept'[t].roster = Seats(t)
         /\ IF t \in Made THEN kept'[t].broken <=> t \in broken ELSE kept'[t] = NoEntry
         /\ t \in Made => kept'[t].roster = [p \in Seats(t) |-> kept'[t].roster[p]]
<1>1. UNCHANGED <<status, opened, broken, at, stack, bet>>
  BY DEF Flush
<1>2. CASE t \in Made
  <2>1. Recorded(t)'
    BY <1>2, FlushRecords
  <2> QED
    BY <1>1, <1>2, <2>1 DEF Recorded, Seats
<1>3. CASE t \notin Made
  <2>1. kept'[t] = NoEntry
    BY <1>1, <1>3, FlushRecords DEF Records, Made
  <2>2. Seats(t) = {}
    BY <1>3 DEF SeatInv, SeatsHold
  <2> QED
    BY <1>3, <2>1, <2>2 DEF NoEntry
<1> QED
  BY <1>2, <1>3

LEMMA FlushFile ==
  ASSUME Inv, Inv', SeatInv, LedgerInv, Records, Flush
  PROVE  OnFile'
<1>1. CASE status = "finished"
  BY <1>1 DEF Flush, Document, OnFile
<1>2. CASE status # "finished"
  <2> DEFINE d == file'
  <2>1. /\ d.status = status /\ d.entrants = entrants /\ d.barred = barred /\ d.extra = extra
        /\ d.addOns = addOns /\ d.outs = outs /\ d.fieldSize = fieldSize /\ d.row = row
        /\ d.stopped = stopped /\ d.breakOrder = breakOrder /\ d.tables = kept'
    BY <1>2 DEF Flush, Document
  <2> HIDE DEF d
  <2>2. DocumentTypes(d)
    <3>1. KeptTypes(kept')
      BY FlushRecords DEF Records
    <3>2. outs \in Seq(Line)
      BY TypeFacts DEF Inv
    <3> QED
      BY <1>2, <2>1, <3>1, <3>2 DEF DocumentTypes, Inv, TypeOK
  <2>3. ASSUME status = "running" PROVE TablesFit(d)
    <3>1. \A t \in Table : /\ d.tables[t].made <=> t \in Made
                           /\ DOMAIN d.tables[t].roster = Seats(t)
                           /\ t \in Made => (d.tables[t].broken <=> t \in broken)
      BY <2>1, <2>3, FlushTables
    <3>2. opened \in 0..MaxTables /\ \A t \in Table : t \in Made <=> t <= opened
      <4>1. opened \in 0..MaxTables
        BY DEF Inv, TypeOK
      <4>2. Made = 1..opened /\ Table = 1..MaxTables
        BY DEF Made, Table
      <4> QED
        BY <4>1, <4>2, SizesAssumption
    <3>3. \E k \in 0..MaxTables : \A t \in Table : d.tables[t].made <=> t <= k
      BY <3>1, <3>2
    <3>4. \A t \in Table \ Made : d.tables[t] = NoEntry
      BY <2>1, <2>3, FlushTables
    <3>5. \A t \in Table : d.tables[t].broken => t \in broken
      BY <3>1, <3>4 DEF NoEntry
    <3>6. \A t \in Made :
            d.tables[t].roster = [p \in DOMAIN d.tables[t].roster |-> d.tables[t].roster[p]]
      BY <2>1, <2>3, <3>1, <3>2, FlushTables, TypeFacts DEF Inv
    <3> QED
      BY <2>1, <3>1, <3>3, <3>4, <3>5, <3>6
      DEF TablesFit, SeatInv, SeatsHold, TablesInTurn, Count
  <2>4. ASSUME status = "running" PROVE PeopleFit(d)
    <3>1. ~over
      BY DEF Flush, Idle, LedgerInv, OverIsBrief
    <3>2. LedgerNow
      BY <2>4, <3>1 DEF LedgerInv, OnGoing
    <3>3. \A t \in Table : DOMAIN d.tables[t].roster = Seats(t)
      BY <2>1, <2>4, FlushTables
    <3>4. \A p \in Person : SeatedAt(d, p) # {} <=> at[p] # Nowhere
      <4>1. \A p \in Person : at[p] \in Table \union {Nowhere}
        BY DEF Inv, TypeOK
      <4> QED
        BY <3>3, <4>1 DEF SeatedAt, Seats
    <3>5. \A t, u \in Table : \A p \in Person :
            p \in DOMAIN d.tables[t].roster /\ p \in DOMAIN d.tables[u].roster => t = u
      BY <3>3 DEF Seats
    <3>6. InOrder(d.outs, d.fieldSize) /\ d.fieldSize = Cardinality(d.entrants)
      BY <2>1, <3>2 DEF LedgerNow
    <3>7. \A p \in Person :
             /\ p \in d.entrants <=> SeatedAt(d, p) # {} \/ p \in Named(d.outs)
             /\ ~(SeatedAt(d, p) # {} /\ p \in Named(d.outs))
      BY <2>1, <3>2, <3>4 DEF LedgerNow
    <3> QED
      BY <3>5, <3>6, <3>7 DEF PeopleFit
  <2>5. DocumentTypes(file') /\ (file'.status = "running" => TablesFit(file') /\ PeopleFit(file'))
    BY <2>1, <2>2, <2>3, <2>4 DEF d
  <2> QED
    BY <2>5 DEF OnFile
<1> QED
  BY <1>1, <1>2

-----------------------------------------------------------------------------
(* The process comes back *)

\* No hand, no handler and nothing queued outlives the process.
LEMMA ProcessGone ==
  ASSUME Inv, Reboot
  PROVE  /\ bet' = [p \in Person |-> 0] /\ dealtIn' = {} /\ rekeyed' = {} /\ dealing' = {}
         /\ resting' = {} /\ removals' = {} /\ moves' = [p \in Person |-> Nowhere]
         /\ wantAddOn' = {} /\ asked' = asked /\ winner' = Nobody
         /\ doing' = "idle" /\ onTable' = Nowhere /\ todo' = {} /\ over' = FALSE
         /\ ticking' = FALSE
BY DEF Reboot, EndHandler, Agenda

LEMMA QuietTypes ==
  ASSUME Inv, OnFile, Reboot
  PROVE  /\ entrants' \subseteq Person /\ barred' \subseteq Person
         /\ bet' \in [Person -> Nat] /\ dealtIn' \subseteq Person /\ rekeyed' \subseteq Person
         /\ dealing' \subseteq Table /\ resting' \subseteq Table /\ removals' \subseteq Person
         /\ moves' \in [Person -> Table \union {Nowhere}] /\ wantAddOn' \subseteq Person
         /\ asked' \in Nat /\ winner' \in Person \union {Nobody}
         /\ doing' \in Steps /\ onTable' \in Table \union {Nowhere} /\ todo' \subseteq Person
         /\ doing' \notin {"queued", "emptying"} /\ over' \in BOOLEAN /\ ticking' \in BOOLEAN
<1>1. asked \in Nat
  BY DEF Inv, TypeOK
<1>2. entrants' \subseteq Person /\ barred' \subseteq Person
  BY DEF Reboot, OnFile, DocumentTypes
<1> QED
  BY <1>1, <1>2, ProcessGone DEF Steps

\* Back to the registrations, with nothing on the felt.
LEMMA FallenBack ==
  ASSUME Inv, OnFile, Reboot, FallBack(file)
  PROVE  FieldInv' /\ Records' /\ MovesWait'
<1>1. /\ status' = "registering" /\ at' = [p \in Person |-> Nowhere]
      /\ stack' = [p \in Person |-> 0] /\ opened' = 0 /\ broken' = {} /\ breakOrder' = <<>>
      /\ outs' = <<>> /\ fieldSize' = 0 /\ expected' = 0 /\ extra' = 0 /\ addOns' = {}
      /\ row' = 1 /\ stopped' = FALSE
  BY DEF FallBack
<1>2. TypeOK'
  <2>1. 1 \in Row
    BY ScheduleAssumption DEF Row
  <2>2. at' \in [Person -> Table \union {Nowhere}] /\ stack' \in [Person -> Nat]
    BY <1>1
  <2>3. opened' \in 0..MaxTables
    BY <1>1, SizesAssumption
  <2>4. breakOrder' \in Seq(Table) /\ outs' \in Seq([uid : Person, place : Int])
    BY <1>1
  <2>5. /\ status' \in {"registering", "running", "finished"} /\ extra' \in Nat
        /\ broken' \subseteq Table /\ fieldSize' \in Nat /\ expected' \in Int
        /\ addOns' \subseteq Person /\ row' \in Row /\ stopped' \in BOOLEAN
    <3>1. /\ status' = "registering" /\ extra' = 0 /\ broken' = {} /\ fieldSize' = 0
          /\ expected' = 0 /\ addOns' = {} /\ row' = 1 /\ stopped' = FALSE
      BY <1>1
    <3>2. status' \in {"registering", "running", "finished"}
      BY <3>1
    <3>3. broken' \subseteq Table /\ addOns' \subseteq Person
      BY <3>1
    <3>4. row' \in Row
      BY <2>1, <3>1
    <3>5. extra' \in Nat /\ fieldSize' \in Nat /\ expected' \in Int
      BY <3>1
    <3>6. stopped' \in BOOLEAN
      BY <3>1
    <3> QED
      BY <3>2, <3>3, <3>4, <3>5, <3>6
  <2> QED
    BY <2>2, <2>3, <2>4, <2>5, QuietTypes DEF TypeOK
<1>3. \A p \in Person : at'[p] = Nowhere /\ stack'[p] = 0
  BY <1>1
<1>4. HandInv'
  BY <1>1, <1>3, ProcessGone
  DEF HandInv, HandIsWhole, InHandSeated, MoneyInHand, BrokeInHand, HandsPeopled, OutsideEmpty,
      EnteredOnly, NotStarted, HandlerFree
<1>5. SeatInv'
  <2>1. \A t \in Table : Seats(t)' = {}
    BY <1>3 DEF Seats
  <2>2. \A t \in Table : Count(t)' = 0
    BY <2>1, FS_EmptySet DEF Count
  <2>3. SeatsHold'
    BY <2>1, <2>2, SizesAssumption DEF SeatsHold
  <2>4. TablesInTurn' /\ Emptying'
    BY <1>1, ProcessGone DEF TablesInTurn, Emptying, Made
  <2> QED
    BY <2>3, <2>4 DEF SeatInv
<1>6. LedgerInv'
  BY <1>1, ProcessGone DEF LedgerInv, OnGoing, OverIsBrief
<1>7. ChipConservation'
  <2>1. N \in Nat /\ N \in 0..N /\ \A i \in 1..N : stack'[i] = 0 /\ bet'[i] = 0
    BY <1>1, ProcessGone, SizesAssumption
  <2>2. Total(stack', N) = 0 /\ Total(bet', N) = 0
    BY <2>1, TotalZero
  <2> QED
    BY <1>1, <2>2 DEF ChipConservation
<1>8. Records'
  <2>1. KeptTypes(kept')
    BY NothingIsKept DEF FallBack, OnFile, Reboot, DocumentTypes
  <2>2. ~held' => kept' = NoTables
    BY DEF FallBack, Reboot
  <2> QED
    BY <1>1, <2>1, <2>2, ProcessGone DEF Records
<1>9. MovesWait'
  BY <1>1, ProcessGone DEF MovesWait
<1> QED
  BY <1>2, <1>4, <1>5, <1>6, <1>7, <1>8, <1>9 DEF FieldInv, Inv

\* Everybody sits where the record has them, with what it has of them.
LEMMA SeatedAgain ==
  ASSUME OnFile, file # Nothing, file.status = "running", SeatAgain(file)
  PROVE  /\ \A p \in Person, t \in Table : at'[p] = t <=> p \in DOMAIN file.tables[t].roster
         /\ \A p \in Person : at'[p] \in Table \union {Nowhere}
         /\ \A p \in Person : at'[p] # Nowhere <=> SeatedAt(file, p) # {}
         /\ \A p \in Person : at'[p] # Nowhere =>
              stack'[p] = file.tables[at'[p]].roster[p] /\ stack'[p] \in Nat \ {0}
         /\ \A p \in Person : at'[p] = Nowhere => stack'[p] = 0
         /\ at' \in [Person -> Table \union {Nowhere}] /\ stack' \in [Person -> Nat]
<1> DEFINE d == file
           back == [p \in Person |-> SeatedAt(d, p)]
<1>1. /\ at' = [p \in Person |-> IF back[p] = {} THEN Nowhere ELSE CHOOSE t \in back[p] : TRUE]
      /\ stack' = [p \in Person |-> IF back[p] = {} THEN 0 ELSE d.tables[at'[p]].roster[p]]
  BY DEF SeatAgain
<1>2. ASSUME NEW p \in Person
      PROVE  /\ back[p] = SeatedAt(d, p) /\ back[p] \subseteq Table
             /\ \A t \in Table : t \in back[p] <=> p \in DOMAIN d.tables[t].roster
             /\ \A t, u \in back[p] : t = u
  <2>1. \A t, u \in Table :
          p \in DOMAIN d.tables[t].roster /\ p \in DOMAIN d.tables[u].roster => t = u
    BY DEF OnFile, PeopleFit
  <2> QED
    BY <2>1 DEF SeatedAt
<1>3. \A t \in Table : \A p \in DOMAIN d.tables[t].roster : d.tables[t].roster[p] \in Nat \ {0}
  BY DEF OnFile, DocumentTypes, KeptTypes
<1>4. Nowhere \notin Table
  OBVIOUS
<1> HIDE DEF back, d
<1>5. ASSUME NEW p \in Person
      PROVE  /\ back[p] = {} => at'[p] = Nowhere /\ stack'[p] = 0
             /\ back[p] # {} => at'[p] \in back[p] /\ stack'[p] = d.tables[at'[p]].roster[p]
  <2>1. back[p] = {} => at'[p] = Nowhere /\ stack'[p] = 0
    BY <1>1
  <2>2. ASSUME back[p] # {} PROVE at'[p] \in back[p] /\ stack'[p] = d.tables[at'[p]].roster[p]
    <3>1. at'[p] = CHOOSE t \in back[p] : TRUE
      BY <1>1, <2>2
    <3>2. stack'[p] = d.tables[at'[p]].roster[p]
      BY <1>1, <2>2
    <3>3. at'[p] \in back[p]
      BY <2>2, <3>1
    <3> QED
      BY <3>2, <3>3
  <2> QED
    BY <2>1, <2>2
<1>6. ASSUME NEW p \in Person
      PROVE  /\ at'[p] \in Table \union {Nowhere} /\ stack'[p] \in Nat
             /\ at'[p] # Nowhere <=> SeatedAt(d, p) # {}
             /\ at'[p] # Nowhere =>
                  stack'[p] = d.tables[at'[p]].roster[p] /\ stack'[p] \in Nat \ {0}
             /\ at'[p] = Nowhere => stack'[p] = 0
             /\ \A t \in Table : at'[p] = t <=> p \in DOMAIN d.tables[t].roster
  <2>1. CASE back[p] = {}
    BY <1>2, <1>4, <1>5, <2>1
  <2>2. CASE back[p] # {}
    <3>1. at'[p] \in Table /\ p \in DOMAIN d.tables[at'[p]].roster
      BY <1>2, <1>5, <2>2
    <3> QED
      BY <1>2, <1>3, <1>4, <1>5, <2>2, <3>1
  <2> QED
    BY <2>1, <2>2
<1>7. at' \in [Person -> Table \union {Nowhere}]
  <2>1. at' = [p \in Person |-> at'[p]]
    BY <1>1
  <2> QED
    BY <1>6, <2>1
<1>8. stack' \in [Person -> Nat]
  <2>1. stack' = [p \in Person |-> stack'[p]]
    BY <1>1
  <2> QED
    BY <1>6, <2>1
<1> QED
  BY <1>6, <1>7, <1>8 DEF d

\* The tables that come back are numbered in turn.
LEMMA TablesAgain ==
  ASSUME OnFile, file # Nothing, file.status = "running", SeatAgain(file)
  PROVE  /\ opened' \in 0..MaxTables
         /\ \A t \in Table : t \in Made' <=> file.tables[t].made
         /\ broken' \subseteq Made' /\ \A t \in Table : t \in broken' => file.tables[t].broken
<1> DEFINE d == file
           made == {t \in Table : d.tables[t].made}
<1>1. PICK k \in 0..MaxTables : \A t \in Table : d.tables[t].made <=> t <= k
  BY DEF OnFile, TablesFit
<1>2. opened' = Cardinality(made) /\ broken' = {t \in made : d.tables[t].broken}
  BY DEF SeatAgain
<1>3. made = 1..k
  BY <1>1, SizesAssumption
<1>4. opened' = k
  <2>1. k \in Nat
    BY SizesAssumption
  <2>2. Cardinality(1..k) = k
    BY <2>1, FS_Interval
  <2> QED
    BY <1>2, <1>3, <2>2
<1> QED
  BY <1>1, <1>2, <1>3, <1>4 DEF Made

LEMMA SeatsFound ==
  ASSUME OnFile, file # Nothing, file.status = "running", SeatAgain(file), NEW t \in Table
  PROVE  /\ Seats(t)' = DOMAIN file.tables[t].roster
         /\ \A p \in Seats(t)' : stack'[p] = file.tables[t].roster[p]
<1>1. DOMAIN file.tables[t].roster \subseteq Person
  BY DEF OnFile, DocumentTypes, KeptTypes
<1>2. \A p \in Person : at'[p] = t <=> p \in DOMAIN file.tables[t].roster
  BY SeatedAgain
<1>3. Seats(t)' = DOMAIN file.tables[t].roster
  BY <1>1, <1>2 DEF Seats
<1>4. ASSUME NEW p \in Person, at'[p] = t PROVE stack'[p] = file.tables[t].roster[p]
  <2>1. at'[p] # Nowhere
    BY <1>4
  <2> QED
    BY <1>4, <2>1, SeatedAgain
<1> QED
  BY <1>3, <1>4 DEF Seats

\* The field that comes back is one that could be on the felt, and its tables
\* are on record.
LEMMA ComeBack ==
  ASSUME Inv, OnFile, Reboot, Reseats(file), SeatAgain(file)
  PROVE  FieldInv' /\ Records' /\ MovesWait'
<1>0. /\ file # Nothing /\ file.status = "running"
      /\ DocumentTypes(file) /\ TablesFit(file) /\ PeopleFit(file)
  BY DEF Reboot, Reseats, OnFile
<1>1. /\ status' = "running" /\ kept' = file.tables /\ breakOrder' = file.breakOrder
      /\ outs' = file.outs /\ fieldSize' = file.fieldSize /\ expected' = Total(stack', N)
      /\ extra' = file.extra /\ addOns' = file.addOns /\ row' = file.row
      /\ stopped' = file.stopped /\ entrants' = file.entrants
  BY DEF SeatAgain, Reboot
<1>2. stack' \in [1..N -> Int] /\ N \in Nat /\ N \in 0..N
  BY <1>0, SeatedAgain, SizesAssumption
<1>3. TypeOK'
  <2>1. opened' \in 0..MaxTables /\ broken' \subseteq Table
    BY <1>0, TablesAgain DEF SeatAgain
  <2>2. at' \in [Person -> Table \union {Nowhere}] /\ stack' \in [Person -> Nat]
    BY <1>0, SeatedAgain
  <2>3. breakOrder' \in Seq(Table) /\ outs' \in Seq([uid : Person, place : Int])
    BY <1>0, <1>1 DEF DocumentTypes, Line
  <2>4. expected' \in Int
    BY <1>1, <1>2, TotalWhole
  <2>5. /\ status' \in {"registering", "running", "finished"} /\ extra' \in Nat
        /\ fieldSize' \in Nat /\ addOns' \subseteq Person /\ row' \in Row
        /\ stopped' \in BOOLEAN
    BY <1>0, <1>1 DEF DocumentTypes
  <2> QED
    BY <2>1, <2>2, <2>3, <2>4, <2>5, QuietTypes DEF TypeOK
<1>4. HandInv'
  <2>1. \A p \in Person : at'[p] = Nowhere => stack'[p] = 0
    BY <1>0, SeatedAgain
  <2>2. \A p \in Person : at'[p] # Nowhere => stack'[p] # 0
    BY <1>0, SeatedAgain
  <2>3. \A p \in Person : at'[p] # Nowhere => p \in entrants'
    BY <1>0, <1>1, SeatedAgain DEF PeopleFit
  <2>4. HandIsWhole'
    BY <2>2, ProcessGone DEF HandIsWhole, InHandSeated, MoneyInHand, BrokeInHand, HandsPeopled
  <2>5. HandlerFree' /\ NotStarted'
    BY <1>1, ProcessGone DEF HandlerFree, NotStarted
  <2> QED
    BY <2>1, <2>3, <2>4, <2>5 DEF HandInv, OutsideEmpty, EnteredOnly
<1>5. SeatInv'
  <2>1. ASSUME NEW t \in Table
        PROVE  /\ Count(t)' <= TableSize
               /\ t \in broken' \/ t \notin Made' => Seats(t)' = {}
    <3>1. Seats(t)' = DOMAIN file.tables[t].roster
      BY <1>0, SeatsFound
    <3>2. Count(t)' = Cardinality(DOMAIN file.tables[t].roster)
      BY <3>1 DEF Count
    <3>3. t \in broken' => file.tables[t].broken
      BY <1>0, TablesAgain
    <3>4. t \notin Made' => file.tables[t] = NoEntry
      BY <1>0, TablesAgain DEF TablesFit
    <3>5. /\ Cardinality(DOMAIN file.tables[t].roster) <= TableSize
          /\ file.tables[t].broken => DOMAIN file.tables[t].roster = {}
      BY <1>0 DEF TablesFit
    <3> QED
      BY <3>1, <3>2, <3>3, <3>4, <3>5 DEF NoEntry
  <2>2. SeatsHold'
    BY <2>1 DEF SeatsHold
  <2>3. \A t \in Made' : \E i \in DOMAIN breakOrder' : breakOrder'[i] = t
    <3>1. Made' \subseteq Table
      <4>1. opened' \in 0..MaxTables
        BY <1>0, TablesAgain
      <4> QED
        BY <4>1, SizesAssumption DEF Made
    <3> QED
      BY <1>0, <1>1, <3>1, TablesAgain DEF TablesFit
  <2>4. TablesInTurn' /\ Emptying'
    BY <1>0, <1>1, <2>3, TablesAgain, ProcessGone DEF TablesInTurn, Emptying
  <2> QED
    BY <2>2, <2>4 DEF SeatInv
<1>6. LedgerInv'
  <2>1. ASSUME NEW p \in Person
        PROVE  /\ p \in entrants' <=> at'[p] # Nowhere \/ p \in Named(outs')
               /\ ~(at'[p] # Nowhere /\ p \in Named(outs'))
    BY <1>0, <1>1, SeatedAgain DEF PeopleFit
  <2>2. LedgerNow'
    BY <1>0, <1>1, <2>1 DEF LedgerNow, PeopleFit
  <2> QED
    BY <2>2, ProcessGone DEF LedgerInv, OverIsBrief
<1>7. ChipConservation'
  <2>1. \A i \in 1..N : bet'[i] = 0
    BY ProcessGone
  <2>2. Total(bet', N) = 0
    BY <1>2, <2>1, TotalZero
  <2>3. Total(stack', N) \in Int
    BY <1>2, TotalWhole
  <2> QED
    BY <1>1, <2>2, <2>3 DEF ChipConservation
<1>8. Records'
  <2>1. ASSUME NEW t \in Table PROVE IF t \in Made' THEN Recorded(t)' ELSE kept'[t] = NoEntry
    <3>1. t \in Made' <=> file.tables[t].made
      BY <1>0, TablesAgain
    <3>2. CASE t \notin Made'
      BY <1>0, <1>1, <3>1, <3>2 DEF TablesFit
    <3>3. CASE t \in Made'
      <4>1. kept'[t].broken <=> t \in broken'
        BY <1>1, <3>1, <3>3 DEF SeatAgain
      <4>2. kept'[t].roster = [p \in Seats(t)' |-> stack'[p] + bet'[p]]
        <5>1. \A p \in Seats(t)' : stack'[p] + bet'[p] = file.tables[t].roster[p]
          <6>1. \A p \in Seats(t)' : p \in Person /\ bet'[p] = 0 /\ stack'[p] \in Int
            BY <1>2, ProcessGone DEF Seats
          <6> QED
            BY <1>0, <6>1, SeatsFound
        <5>2. [p \in Seats(t)' |-> stack'[p] + bet'[p]]
                = [p \in DOMAIN file.tables[t].roster |-> file.tables[t].roster[p]]
          BY <1>0, <5>1, SeatsFound
        <5> QED
          BY <1>0, <1>1, <3>1, <3>3, <5>2 DEF TablesFit
      <4> QED
        BY <1>1, <3>1, <3>3, <4>1, <4>2 DEF Recorded
    <3> QED
      BY <3>2, <3>3
  <2>2. Made' \subseteq Table /\ opened' > 0
    <3>1. opened' \in 0..MaxTables
      BY <1>0, TablesAgain
    <3>2. \E t \in Table : t \in Made'
      BY <1>0, TablesAgain DEF Reseats
    <3> QED
      BY <3>1, <3>2, SizesAssumption DEF Made
  <2>3. KeptTypes(kept')
    BY <1>0, <1>1 DEF DocumentTypes
  <2>4. \A t \in Made' : Recorded(t)'
    BY <2>1, <2>2
  <2>5. \A t \in Table \ Made' : kept'[t] = NoEntry
    BY <2>1
  <2> QED
    BY <1>1, <2>2, <2>3, <2>4, <2>5, ProcessGone DEF Records
<1>9. MovesWait'
  BY <1>1, ProcessGone DEF MovesWait, Movers
<1> QED
  BY <1>3, <1>4, <1>5, <1>6, <1>7, <1>8, <1>9 DEF FieldInv, Inv

-----------------------------------------------------------------------------
(* Every step *)

LEMMA FieldStep ==
  ASSUME FieldInv, [Next]_vars
  PROVE  FieldInv'
<1>1. TypeOK /\ HandInv /\ SeatInv /\ Inv /\ LedgerInv /\ ChipConservation
  BY DEF FieldInv, Inv
<1>2. TypeOK'
  BY <1>1, TypeStep
<1>3. HandInv'
  BY <1>1, HandStep
<1>4. SeatInv'
  BY <1>1, SeatStep
<1>5. LedgerInv'
  BY <1>1, LedgerStep
<1>6. ChipConservation'
  BY <1>1, <1>2, ChipsStep
<1> QED
  BY <1>2, <1>3, <1>4, <1>5, <1>6 DEF FieldInv, Inv

LEMMA RestartInit ==
  ASSUME RInit
  PROVE  RInv
<1>1. Init /\ kept = NoTables /\ file = Nothing
  BY DEF RInit
<1>2. Inv /\ SeatInv
  BY <1>1, TypeInit, HandInit, SeatInit DEF Inv
<1>3. LedgerInv
  BY <1>1 DEF Init, LedgerInv, OnGoing, OverIsBrief
<1>4. ChipConservation
  <2>1. N \in Nat /\ N \in 0..N /\ expected = 0 /\ \A i \in 1..N : stack[i] = 0 /\ bet[i] = 0
    BY <1>1, SizesAssumption DEF Init
  <2>2. Total(stack, N) = 0 /\ Total(bet, N) = 0
    BY <2>1, TotalZero
  <2> QED
    BY <2>1, <2>2 DEF ChipConservation
<1>5. Records /\ MovesWait /\ OnFile
  BY <1>1, NothingIsKept DEF Init, Records, MovesWait, OnFile
<1> QED
  BY <1>2, <1>3, <1>4, <1>5 DEF RInv, FieldInv

LEMMA RestartStep ==
  ASSUME ShutFromTheStart, RInv, [RNext]_rvars
  PROVE  RInv'
<1>1. Inv /\ SeatInv /\ LedgerInv /\ FieldInv /\ Records /\ MovesWait /\ OnFile
  BY DEF RInv, FieldInv
<1>2. ASSUME [Next]_vars PROVE FieldInv' /\ Inv' /\ MovesWait'
  BY <1>1, <1>2, FieldStep, MovesStep DEF FieldInv
<1>3. CASE UNCHANGED rvars \/ Expire
  <2>1. UNCHANGED <<vars, kept, held, file>>
    BY <1>3 DEF rvars, memory, Expire
  <2>2. UNCHANGED vars /\ file' = file
    BY <2>1
  <2>3. Records'
    BY <1>1, <2>1, RecordsStill
  <2>4. OnFile'
    BY <1>1, <2>2 DEF OnFile
  <2> QED
    BY <1>2, <2>2, <2>3, <2>4 DEF RInv
<1>4. CASE Flush
  <2>1. UNCHANGED vars
    BY <1>4 DEF Flush
  <2>2. FieldInv' /\ Inv' /\ MovesWait'
    BY <1>2, <2>1
  <2>3. Records' /\ OnFile'
    BY <1>1, <1>4, <2>2, FlushRecords, FlushFile
  <2> QED
    BY <2>2, <2>3 DEF RInv
<1>5. CASE Written \/ Unwritten
  <2>1. Next /\ file' = file
    BY <1>5 DEF Written, Unwritten, Next, Ask
  <2>2. Records'
    BY <1>1, <1>5, RecordsStep
  <2>3. OnFile'
    BY <1>1, <2>1 DEF OnFile
  <2> QED
    BY <1>2, <2>1, <2>2, <2>3 DEF RInv
<1>6. CASE StartOver
  <2>1. Next /\ file' = file
    BY <1>6 DEF StartOver, Next, Ask
  <2>2. Records'
    BY <1>1, <1>6, StartOverRecords
  <2>3. OnFile'
    BY <1>1, <2>1 DEF OnFile
  <2> QED
    BY <1>2, <2>1, <2>2, <2>3 DEF RInv
<1>7. CASE Settled
  <2>1. Next /\ file' = file
    BY <1>7 DEF Settled, Next, Follow
  <2>2. FieldInv' /\ Inv' /\ MovesWait'
    BY <1>2, <2>1
  <2>3. Records'
    BY <1>1, <1>7, <2>2, SettledRecords
  <2>4. OnFile'
    BY <1>1, <2>1 DEF OnFile
  <2> QED
    BY <2>2, <2>3, <2>4 DEF RInv
<1>8. CASE Reboot
  <2>1. file' = file /\ ((Reseats(file) /\ SeatAgain(file)) \/ FallBack(file))
    BY <1>8 DEF Reboot
  <2>2. FieldInv' /\ Records' /\ MovesWait'
    BY <1>1, <1>8, <2>1, ComeBack, FallenBack
  <2>3. OnFile'
    BY <1>1, <2>1 DEF OnFile
  <2> QED
    BY <2>2, <2>3 DEF RInv
<1> QED
  BY <1>3, <1>4, <1>5, <1>6, <1>7, <1>8 DEF RNext

LEMMA RestartInvariant ==
  ASSUME ShutFromTheStart
  PROVE  RSpec => []RInv
<1>1. RInit => RInv
  BY RestartInit
<1>2. RInv /\ [RNext]_rvars => RInv'
  BY RestartStep
<1> QED
  BY <1>1, <1>2, PTL DEF RSpec

-----------------------------------------------------------------------------
(* What a restart may cost *)

LEMMA WholeFile ==
  ASSUME OnFile
  PROVE  FileIsWhole
<1> SUFFICES ASSUME file # Nothing, file.status = "running", NEW p \in Person
             PROVE  Cardinality(SeatedAt(file, p))
                      + Cardinality({i \in DOMAIN file.outs : file.outs[i].uid = p})
                      = IF p \in file.entrants THEN 1 ELSE 0
  BY DEF FileIsWhole
<1> DEFINE places == {i \in DOMAIN file.outs : file.outs[i].uid = p}
           tables == SeatedAt(file, p)
<1>1. PeopleFit(file)
  BY DEF OnFile
<1>2. \A t, u \in tables : t = u
  BY <1>1 DEF PeopleFit, SeatedAt
<1>3. \A i, j \in places : i = j
  BY <1>1 DEF PeopleFit, InOrder
<1>4. places # {} <=> p \in Named(file.outs)
  BY DEF Named
<1>5. /\ p \in file.entrants <=> tables # {} \/ places # {}
      /\ ~(tables # {} /\ places # {})
  BY <1>1, <1>4 DEF PeopleFit
<1>6. ASSUME NEW S, \A a, b \in S : a = b
      PROVE  Cardinality(S) = IF S = {} THEN 0 ELSE 1
  <2>1. CASE S = {}
    BY <2>1, FS_EmptySet
  <2>2. CASE S # {}
    <3>1. PICK a \in S : S = {a}
      BY <1>6, <2>2
    <3> QED
      BY <2>2, <3>1, FS_Singleton
  <2> QED
    BY <2>1, <2>2
<1> HIDE DEF places, tables
<1>7. /\ Cardinality(tables) = (IF tables = {} THEN 0 ELSE 1)
      /\ Cardinality(places) = (IF places = {} THEN 0 ELSE 1)
  BY <1>2, <1>3, <1>6
<1>8. Cardinality(tables) + Cardinality(places) = IF p \in file.entrants THEN 1 ELSE 0
  BY <1>5, <1>7
<1> QED
  BY <1>8 DEF places, tables

\* "Never a torn field": with entry closed from the start, whenever the
\* process dies, everybody who entered has exactly one seat or one place in
\* what _captureIdleTables and the ledger have written between them.
THEOREM StoreIsWhole ==
  ASSUME ShutFromTheStart
  PROVE  RSpec => []FileIsWhole
<1>1. RInv => FileIsWhole
  BY WholeFile DEF RInv
<1> QED
  BY <1>1, RestartInvariant, PTL

\* "Restoring costs at most the hand in flight": what is kept of every table
\* that is dealing is what each player brought to that hand, over any number
\* of restarts, breaks, moves and removals.
THEOREM RestartCostsAHand ==
  ASSUME ShutFromTheStart
  PROVE  RSpec => []CostsAHand
<1>1. RInv => CostsAHand
  BY DEF RInv, Records, Recorded, CostsAHand, Running
<1> QED
  BY <1>1, RestartInvariant, PTL

\* A field that has been through restarts is as sound as one that has not.
THEOREM FieldSurvives ==
  ASSUME ShutFromTheStart
  PROVE  RSpec => [](HandIsWhole /\ ChipConservation /\ SeatsHold /\ LedgerInOrder
                       /\ SeatedOrPlaced)
<1>1. RInv => HandIsWhole /\ ChipConservation /\ SeatsHold /\ LedgerInOrder /\ SeatedOrPlaced
  BY DEF RInv, FieldInv, Inv, HandInv, SeatInv, LedgerInv, LedgerNow, InOrder, Named, OnGoing,
         LedgerInOrder, SeatedOrPlaced, InLedger
<1> QED
  BY <1>1, RestartInvariant, PTL
=============================================================================
