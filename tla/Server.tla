------------------------------- MODULE Server -------------------------------
(***************************************************************************)
(* A server's boot around what it keeps: the steps of db/migrations.js,    *)
(* the files of an older server read in once by db/migrate.js, and then    *)
(* the stores of Chat, in the order of openStores() in server.js.          *)
(***************************************************************************)
EXTENDS Chat

CONSTANTS
  Steps,     \* how many shape changes there are
  OldList,   \* the games the old tournaments file holds
  OldDocs    \* kind -> what can be read of the old chat and history files

ASSUME ServerAssumption ==
  /\ Steps \in Nat /\ OldList \subseteq Games
  /\ \A k \in Kinds : /\ DOMAIN OldDocs[k] \subseteq Games
                      /\ \A g \in DOMAIN OldDocs[k] : OldDocs[k][g] \in Docs(k)
  /\ \A g \in DOMAIN OldDocs["chat"], t \in Tables :
       LET ms == OldDocs["chat"][g][t] IN
       IsInjective([i \in DOMAIN ms |-> ms[i].id]) /\ \A i \in DOMAIN ms : ms[i].id <= 0

VARIABLES
  phase,   \* "down", "shape", "files" or "up"
  shape,   \* steps whose change the database has
  ledger,  \* steps recorded as done
  files,   \* kinds whose old file is there
  reading, \* the kind being read in, and what of it is left, or <<>>
  looked   \* kinds this boot is done with

boot == <<phase, shape, ledger, files, reading, looked>>
svars == <<vars, boot>>

Sources == {"list"} \cup Kinds

Table(k) == IF k = "list" THEN listed ELSE DOMAIN db[k]
FileOf(k) == IF k = "list" THEN OldList ELSE DOMAIN OldDocs[k]

StartUp ==
  /\ phase = "down" /\ phase' = "shape" /\ looked' = {}
  /\ UNCHANGED <<vars, shape, ledger, files, reading>>

\* The first step that is not in the ledger.
Due == CHOOSE i \in (1..Steps) \ ledger : \A j \in (1..Steps) \ ledger : i <= j

\* A step may be met again: it is safe to run on what already has its shape.
RunStep ==
  /\ phase = "shape" /\ ledger # 1..Steps /\ Due \notin shape
  /\ shape' = shape \cup {Due}
  /\ UNCHANGED <<vars, phase, ledger, files, reading, looked>>

RecordStep ==
  /\ phase = "shape" /\ ledger # 1..Steps /\ Due \in shape
  /\ ledger' = ledger \cup {Due}
  /\ UNCHANGED <<vars, phase, shape, files, reading, looked>>

ShapeDone ==
  /\ phase = "shape" /\ ledger = 1..Steps /\ phase' = "files"
  /\ UNCHANGED <<vars, shape, ledger, files, reading, looked>>

\* The list first, then what was said, then the hands.
InTurn == <<"list", "chat", "history">>
IsNext(k) == \E i \in DOMAIN InTurn : InTurn[i] = k /\ looked = {InTurn[j] : j \in 1..(i - 1)}

\* An empty table and a file that is there is the whole test.
Wanted(k) == k \in files /\ Table(k) = {}

PassOver(k) ==
  /\ phase = "files" /\ reading = <<>> /\ IsNext(k) /\ ~Wanted(k)
  /\ looked' = looked \cup {k} /\ lost' = (lost \/ k \in files)
  /\ UNCHANGED <<up, talk, pages, store, disk, spent, phase, shape, ledger, files, reading>>

\* The list is put in one transaction, the others row by row.
ReadIn(k) ==
  /\ phase = "files" /\ reading = <<>> /\ IsNext(k) /\ Wanted(k)
  /\ reading' = <<k, IF k = "list" THEN {} ELSE FileOf(k)>>
  /\ listed' = IF k = "list" THEN OldList ELSE listed
  /\ UNCHANGED <<up, talk, pages, store, db, lost, spent, phase, shape, ledger, files, looked>>

PutRow(g) ==
  /\ phase = "files" /\ reading # <<>> /\ g \in reading[2]
  /\ reading' = <<reading[1], reading[2] \ {g}>>
  /\ db' = [db EXCEPT ![reading[1]] = With(@, g, OldDocs[reading[1]][g])]
  /\ UNCHANGED <<up, talk, pages, store, listed, lost, spent, phase, shape, ledger, files, looked>>

\* Slip: the file is set aside while its rows are being put.
SetAsideEarly(left) == TRUE

SetAsideWhen(left) == left = {}

\* Renamed, or not when the rename fails, which is only logged.
SetAside ==
  /\ phase = "files" /\ reading # <<>> /\ SetAsideWhen(reading[2])
  /\ \/ files' = files \ {reading[1]} /\ UNCHANGED <<events, lost>>
     \/ files' = files /\ Counted /\ lost' = TRUE
  /\ looked' = looked \cup {reading[1]} /\ reading' = <<>>
  /\ UNCHANGED <<up, talk, pages, store, disk, said, phase, shape, ledger>>

Open ==
  /\ phase = "files" /\ looked = Sources /\ phase' = "up" /\ Boot
  /\ looked' = {}
  /\ UNCHANGED <<shape, ledger, files, reading>>

\* The process dies before it has opened.
Die ==
  /\ phase \in {"shape", "files"} /\ Counted
  /\ phase' = "down" /\ reading' = <<>>
  /\ UNCHANGED <<up, talk, pages, store, disk, lost, said, shape, ledger, files, looked>>

Down ==
  /\ Crash \/ Stop
  /\ phase' = "down"
  /\ UNCHANGED <<shape, ledger, files, reading, looked>>

\* An older server was stopped, and this one is put in its place. A directory in
\* which nothing can be read is never renamed: it is as if it were not there.
Init ==
  /\ up = FALSE /\ live = {} /\ closed = {} /\ rooms = [r \in Rooms |-> <<>>] /\ seq = 0
  /\ hands = [g \in Games |-> 0]
  /\ \E r \in OldList \X Tables : at = [p \in Readers |-> r]
  /\ connected = {} /\ wire = [p \in Readers |-> <<>>]
  /\ seen = [p \in Readers |-> [r \in Rooms |-> 0]]
  /\ drawn = [p \in Readers |-> [r \in Rooms |-> [d \in {} |-> 0]]]
  /\ store = [k \in Kinds |-> Fresh(<<>>)]
  /\ db = [k \in Kinds |-> <<>>] /\ listed = {} /\ lost = FALSE
  /\ said = 0 /\ events = 0
  /\ phase = "down" /\ shape = {} /\ ledger = {}
  /\ files = {k \in Sources : k = "list" \/ FileOf(k) # {}}
  /\ reading = <<>> /\ looked = {}

Next ==
  \/ StartUp \/ RunStep \/ RecordStep \/ ShapeDone
  \/ \E k \in Sources : PassOver(k) \/ ReadIn(k)
  \/ \E g \in Games : PutRow(g)
  \/ SetAside \/ Open \/ Die \/ Down
  \/ Running /\ UNCHANGED boot

Spec == Init /\ [][Next]_svars

(***************************************************************************)
(* Properties.                                                             *)
(***************************************************************************)
\* The chat and the stores have their types, and so has the boot: no change
\* of shape is recorded that the database does not have, however often a boot
\* was cut short, and a server answers only on one that has them all.
TypeOK ==
  /\ ChatTypeOK
  /\ phase \in {"down", "shape", "files", "up"} /\ (phase = "up" <=> up)
  /\ ledger \subseteq shape /\ shape \subseteq 1..Steps
  /\ up => shape = 1..Steps
  /\ files \subseteq Sources /\ looked \subseteq Sources

\* A file of the older server is set aside only when the table holds every
\* row of it: whatever a death in the middle leaves out is still in the file.
FileOutlivesImport ==
  [][\A k \in files \ files' : FileOf(k) \subseteq Table(k)]_svars

=============================================================================
