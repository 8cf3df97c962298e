------------------------------ MODULE Restart ------------------------------
(***************************************************************************)
(* A field that outlives its process: what director.js writes down of it   *)
(* between hands, what tournament-registry.js hands to the store and when, *)
(* and what is seated again at boot.                                       *)
(*                                                                         *)
(* The field itself is the module Field; every step of it is a step here.  *)
(* The process may die whenever it is not inside a handler (a handler      *)
(* writes nothing, so dying inside one is dying before it).                *)
(***************************************************************************)
EXTENDS Field, Functions

CONSTANTS
  MaxRestoreAttempts, \* MAX_RESTORE_ATTEMPTS
  MaxCrashes          \* bound: how often the process dies

ASSUME RestartAssumption == MaxRestoreAttempts \in Nat /\ MaxCrashes \in Nat

VARIABLES
  kept,    \* _tableSnapshots: each table as it last stood idle; heldField when held
  due,     \* a write is waiting for its 250 ms
  file,    \* what the store holds of this game, Nothing when it has none
  tries,   \* restoreCount
  held,    \* the field came back too often and waits for the host
  crashes  \* how often the process has died

memory == <<kept, due, tries, held>>
rvars  == <<vars, memory, file, crashes>>

Nothing == [status |-> "none"]
NoEntry == [made |-> FALSE, broken |-> FALSE, roster |-> <<>>]
NoTables == [t \in Table |-> NoEntry]

-----------------------------------------------------------------------------
(* What is written down *)

Entry(t) == [made |-> TRUE, broken |-> t \in broken, roster |-> Restrict(stack, Seats(t))]

\* Slip: a table is written down as it stands, in a hand or not.
CaptureMidHand == kept' = [t \in Table |-> IF t \in Made' THEN Entry(t)' ELSE kept[t]]

\* A table that is dealing keeps the entry it last had.
Capture ==
  kept' = [t \in Table |-> IF t \in Made' \ dealing' THEN Entry(t)' ELSE kept[t]]

\* Slip: what is held for the host is not part of what is written.
DocumentUnheld(tables) ==
  IF status = "finished" THEN Nothing
  ELSE [status |-> status, entrants |-> entrants, barred |-> barred, extra |-> extra,
        addOns |-> addOns, outs |-> outs, fieldSize |-> fieldSize, row |-> row,
        stopped |-> stopped, breakOrder |-> breakOrder, tries |-> tries, held |-> held,
        tables |-> IF status = "running" THEN tables ELSE NoTables]

Document(tables) ==
  IF status = "finished" THEN Nothing
  ELSE [status |-> status, entrants |-> entrants, barred |-> barred, extra |-> extra,
        addOns |-> addOns, outs |-> outs, fieldSize |-> fieldSize, row |-> row,
        stopped |-> stopped, breakOrder |-> breakOrder, tries |-> tries, held |-> held,
        tables |-> tables]

\* The write whose time has come; a running field is written down first.
Flush ==
  /\ Idle /\ due /\ due' = FALSE
  /\ UNCHANGED <<vars, tries, held, crashes>>
  /\ IF status = "running" THEN Capture ELSE UNCHANGED kept
  /\ file' = Document(kept')

-----------------------------------------------------------------------------
(* The field's own steps, and what they leave to be written *)

\* Asked for by people: the registry writes after each of these.
Written ==
  /\ \/ \E p \in Person : \/ Register(p) \/ Unregister(p) \/ RegisterLate(p) \/ Reenter(p)
                          \/ TakeAddOn(p) \/ RemoveFromPlay(p)
     \/ Hold
     \/ \E i \in Row : StepLevel(i)
  /\ due' = TRUE
  /\ UNCHANGED <<kept, tries, held, file, crashes>>

\* A start is the host's decision to play a held field from the beginning.
StartOver ==
  /\ Start
  /\ due' = TRUE /\ held' = FALSE /\ kept' = NoTables
  /\ UNCHANGED <<tries, file, crashes>>

\* The first write of a field comes before its first tick, 250 ms to 1200.
Begun == \E t \in Table : kept[t].made

\* Nothing is written after these, the end of the tournament among them.
Unwritten ==
  /\ \/ \E p \in Person : \/ Reconnect(p)
                          \/ \E t \in Table : RequestMove(p, t)
                          \/ \E n \in 1..stack[p] : Wager(p, n)
     \/ LevelUp
     \/ Begun /\ Tick
     \/ doing # "sweep" /\ Follow
     \/ \E t \in Table : EndHand(t) \/ Rested(t)
  /\ UNCHANGED <<memory, file, crashes>>

\* A game that is over is taken off the list in time, and that is written.
Expire ==
  /\ status = "finished" /\ ~due /\ file # Nothing
  /\ due' = TRUE
  /\ UNCHANGED <<vars, kept, tries, held, file, crashes>>

\* Slip: a field that has settled is left for the next write to record.
SettledUnrecorded ==
  /\ Sweep
  /\ due' = TRUE /\ kept' = kept
  /\ tries' \in {tries, 0}
  /\ UNCHANGED <<held, file, crashes>>

\* The field has settled: every idle table is recorded, and one that has kept
\* the process up for two minutes is not counted against any more.
Settled ==
  /\ Sweep
  /\ due' = TRUE /\ Capture
  /\ tries' \in {tries, 0}
  /\ UNCHANGED <<held, file, crashes>>

-----------------------------------------------------------------------------
(* The process dies and starts again *)

SeatedAt(d, p) == {t \in Table : p \in DOMAIN d.tables[t].roster}

\* A field that has been seated again too often is kept and not dealt.
Holds(d)  == d.held \/ (d.status = "running" /\ d.tries + 1 > MaxRestoreAttempts)
Reseats(d) == d.status = "running" /\ ~Holds(d) /\ \E t \in Table : d.tables[t].made

\* Back to the registrations, which is all that a game has before it starts.
FallBack(d) ==
  /\ status' = "registering"
  /\ kept' = IF Holds(d) THEN d.tables ELSE NoTables
  /\ at' = [p \in Person |-> Nowhere] /\ stack' = [p \in Person |-> 0]
  /\ opened' = 0 /\ broken' = {} /\ breakOrder' = <<>>
  /\ outs' = <<>> /\ fieldSize' = 0 /\ expected' = 0
  /\ extra' = 0 /\ addOns' = {} /\ row' = 1 /\ stopped' = FALSE

\* Everybody where the tables were written down with them; what the field
\* answers for is what is found on it.
SeatAgain(d) ==
  LET made == {t \in Table : d.tables[t].made}
      back == [p \in Person |-> SeatedAt(d, p)]
  IN
  /\ status' = "running" /\ kept' = d.tables
  /\ at' = [p \in Person |-> IF back[p] = {} THEN Nowhere ELSE CHOOSE t \in back[p] : TRUE]
  /\ stack' = [p \in Person |-> IF back[p] = {} THEN 0 ELSE d.tables[at'[p]].roster[p]]
  /\ opened' = Cardinality(made) /\ broken' = {t \in made : d.tables[t].broken}
  /\ breakOrder' = d.breakOrder
  /\ outs' = d.outs /\ fieldSize' = d.fieldSize /\ expected' = Total(stack', N)
  /\ extra' = d.extra /\ addOns' = d.addOns /\ row' = d.row /\ stopped' = d.stopped

\* Whatever was queued, dealt or waiting for a timer went with the process.
\* The attempt is counted in memory only.
Reboot ==
  /\ Idle /\ crashes < MaxCrashes /\ file # Nothing
  /\ crashes' = crashes + 1
  /\ tries' = file.tries + 1 /\ held' = Holds(file) /\ due' = FALSE
  /\ entrants' = file.entrants /\ barred' = file.barred
  /\ IF Reseats(file) THEN SeatAgain(file) ELSE FallBack(file)
  /\ bet' = [p \in Person |-> 0] /\ dealtIn' = {} /\ rekeyed' = {} /\ dealing' = {}
  /\ resting' = {}
  /\ removals' = {} /\ moves' = [p \in Person |-> Nowhere] /\ wantAddOn' = {}
  /\ asked' = asked /\ winner' = Nobody
  /\ EndHandler
  /\ UNCHANGED file

-----------------------------------------------------------------------------
RInit ==
  /\ Init
  /\ kept = NoTables /\ due = TRUE /\ file = Nothing
  /\ tries = 0 /\ held = FALSE /\ crashes = 0

RNext == Flush \/ Written \/ StartOver \/ Unwritten \/ Expire \/ Settled \/ Reboot

RSpec == RInit /\ [][RNext]_rvars

-----------------------------------------------------------------------------
(* Types *)

RTypeOK ==
  /\ TypeOK
  /\ \A t \in Table :
       /\ kept[t].made \in BOOLEAN /\ kept[t].broken \in BOOLEAN
       /\ DOMAIN kept[t].roster \subseteq Person
       /\ \A p \in DOMAIN kept[t].roster : kept[t].roster[p] \in Nat \ {0}
  /\ due \in BOOLEAN /\ held \in BOOLEAN
  /\ tries \in 0..MaxCrashes /\ crashes \in 0..MaxCrashes

-----------------------------------------------------------------------------
(* What a restart may cost *)

\* director.js over _captureIdleTables, "never a torn field": whenever the
\* process dies, each entrant of the field in the store sits at one table or
\* has one place, though tables that were dealing are written as they were
\* before their hand and the ledger as it is.  It needs late entry shut: whoever
\* sits down since a table was last recorded is not in what is kept of it.
FileIsWhole ==
  file # Nothing /\ file.status = "running" =>
    \A p \in Person :
      LET places == {i \in DOMAIN file.outs : file.outs[i].uid = p}
      IN  Cardinality(SeatedAt(file, p)) + Cardinality(places)
            = IF p \in file.entrants THEN 1 ELSE 0

\* "Restoring costs at most the hand in flight, per table": what is kept of a
\* table that is dealing is what each of its players brought to that hand.
CostsAHand ==
  Running => \A t \in dealing :
    kept[t].roster = [p \in Seats(t) |-> stack[p] + bet[p]]

\* The chips of a field that is held are the record of what happened: they
\* are carried through every write and restart until the host starts it over.
HeldFieldKept == [][held /\ held' => kept' = kept]_rvars
=============================================================================
