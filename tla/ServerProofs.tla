--------------------------- MODULE ServerProofs ---------------------------
(***************************************************************************)
(* The rooms, the write-behind stores and the boot, for any number of      *)
(* games, tables, readers, messages, schema steps, restarts and old files. *)
(*                                                                         *)
(* KeptInStep needs of a store that a statement under way puts what is     *)
(* wanted or something newer waits (Current).  DrawnAsSaid takes the most: *)
(* that a number is above all that is kept, so that no watermark is above  *)
(* a message its page has not drawn (UpTo, Reach), that what is on the     *)
(* wire comes in order (InOrder), and that all of it survives a restart    *)
(* whose tables hold what was in memory (Ready, Follows); that nothing is  *)
(* drawn twice rests on identities that are never used again (Once).       *)
(***************************************************************************)
EXTENDS Server, FiniteSetTheorems, WellFoundedInduction, TLAPS

-----------------------------------------------------------------------------
(* One store and its table *)

\* What is to be in the table of a game.
Wants(s, g) == IF g \in DOMAIN s.held THEN <<s.held[g]>> ELSE <<>>

\* A store is a record, with its sets apart and a batch when it writes, and
\* what waits has a timer set or a write to come back from.
Sound(s) ==
  /\ s = [held |-> s.held, dirty |-> s.dirty, gone |-> s.gone, timer |-> s.timer,
          writing |-> s.writing, queued |-> s.queued, batch |-> s.batch,
          stray |-> s.stray, doubtful |-> s.doubtful]
  /\ s.dirty \subseteq DOMAIN s.held /\ s.gone \cap DOMAIN s.held = {}
  /\ s.writing \in BOOLEAN /\ (s.writing <=> s.batch # {})
  /\ Waits(s) => s.timer = TRUE \/ s.writing

\* A statement under way puts what is wanted, unless something newer waits or
\* it was in a write that was refused.
Current(s) ==
  /\ \A op \in s.batch : \/ op.game \in s.dirty \cup s.gone \cup s.doubtful
                         \/ op.doc = Wants(s, op.game)
  /\ \A op \in s.stray : op.game \in s.doubtful

\* What the table lacks waits to be written or is being written.
Owes(s, table) ==
  \A g \in DOMAIN s.held \ s.doubtful :
    \/ g \in DOMAIN table /\ table[g] = s.held[g]
    \/ g \in s.dirty
    \/ [game |-> g, doc |-> <<s.held[g]>>] \in s.batch

\* And so does the going of a game that is not in L.
OwesGone(s, table, L) ==
  \A g \in (DOMAIN table \ L) \ s.doubtful :
    g \in s.gone \/ [game |-> g, doc |-> <<>>] \in s.batch

Stands(s, table) == Sound(s) /\ Current(s) /\ Owes(s, table)

\* A document of a game, in memory, on its way or in the table.
About(s, table, g, d) ==
  \/ g \in DOMAIN s.held /\ d = s.held[g]
  \/ \E op \in s.batch \cup s.stray : op.game = g /\ op.doc # <<>> /\ d = op.doc[1]
  \/ g \in DOMAIN table /\ d = table[g]

LEMMA FreshStands ==
  ASSUME NEW table
  PROVE  /\ Stands(Fresh(table), table)
         /\ Fresh(table).held = table /\ Fresh(table).gone = {}
         /\ Fresh(table).batch = {} /\ Fresh(table).doubtful = {}
         /\ \A g, d : About(Fresh(table), table, g, d) => g \in DOMAIN table /\ d = table[g]
BY DEF Fresh, Stands, Sound, Waits, Current, Owes, About

LEMMA RecordedStands ==
  ASSUME NEW s, NEW table, Stands(s, table), NEW g, NEW doc
  PROVE  /\ Stands(Recorded(s, g, doc), table)
         /\ Recorded(s, g, doc).held = With(s.held, g, doc)
         /\ DOMAIN Recorded(s, g, doc).held = DOMAIN s.held \cup {g}
         /\ \A h, d : About(Recorded(s, g, doc), table, h, d)
                        => About(s, table, h, d) \/ (h = g /\ d = doc)
         /\ \A L : g \in L /\ OwesGone(s, table, L)
                     => OwesGone(Recorded(s, g, doc), table, L)
<1> DEFINE r == Recorded(s, g, doc)
<1>0. r = [held |-> With(s.held, g, doc), dirty |-> s.dirty \cup {g}, gone |-> s.gone \ {g},
           timer |-> TRUE, writing |-> s.writing, queued |-> s.queued, batch |-> s.batch,
           stray |-> s.stray, doubtful |-> s.doubtful]
  <2> DEFINE w == With(s.held, g, doc)
             d == s.dirty \cup {g}
             n == s.gone \ {g}
  <2>1. r = [s EXCEPT !.held = w, !.dirty = d, !.gone = n, !.timer = TRUE]
    BY DEF Recorded
  <2>2. s = [held |-> s.held, dirty |-> s.dirty, gone |-> s.gone, timer |-> s.timer,
             writing |-> s.writing, queued |-> s.queued, batch |-> s.batch,
             stray |-> s.stray, doubtful |-> s.doubtful]
    BY DEF Stands, Sound
  <2> HIDE DEF r, w, d, n
  <2>3. r = [held |-> w, dirty |-> d, gone |-> n, timer |-> TRUE, writing |-> s.writing,
             queued |-> s.queued, batch |-> s.batch, stray |-> s.stray,
             doubtful |-> s.doubtful]
    BY <2>1, <2>2
  <2> QED
    BY <2>3 DEF w, d, n
<1> HIDE DEF r
<1>1. /\ r.held = With(s.held, g, doc) /\ r.dirty = s.dirty \cup {g}
      /\ r.gone = s.gone \ {g} /\ r.timer = TRUE /\ r.writing = s.writing
      /\ r.queued = s.queued /\ r.batch = s.batch /\ r.stray = s.stray
      /\ r.doubtful = s.doubtful
      /\ r = [held |-> r.held, dirty |-> r.dirty, gone |-> r.gone, timer |-> r.timer,
              writing |-> r.writing, queued |-> r.queued, batch |-> r.batch,
              stray |-> r.stray, doubtful |-> r.doubtful]
  BY <1>0
<1>2. /\ DOMAIN r.held = DOMAIN s.held \cup {g}
      /\ \A h \in DOMAIN s.held \ {g} : r.held[h] = s.held[h]
  BY <1>1 DEF With
<1>3. Sound(r)
  BY <1>1, <1>2 DEF Stands, Sound
<1>4. Current(r)
  BY <1>1, <1>2, ZenonT(60) DEF Stands, Current, Wants
<1>5. Owes(r, table)
  BY <1>1, <1>2 DEF Stands, Owes
<1>6. \A L : g \in L /\ OwesGone(s, table, L) => OwesGone(r, table, L)
  BY <1>1 DEF OwesGone
<1>7. \A h, d : About(r, table, h, d) => About(s, table, h, d) \/ (h = g /\ d = doc)
  BY <1>1, <1>2 DEF About, With
<1> QED
  BY <1>1, <1>2, <1>3, <1>4, <1>5, <1>6, <1>7 DEF Stands, r

LEMMA RemovedStands ==
  ASSUME NEW s, NEW table, Stands(s, table), NEW S
  PROVE  /\ Stands(Removed(s, S), table)
         /\ DOMAIN Removed(s, S).held = DOMAIN s.held \ S
         /\ \A g \in DOMAIN s.held \ S : Removed(s, S).held[g] = s.held[g]
         /\ \A L : OwesGone(s, table, L) => OwesGone(Removed(s, S), table, L \ S)
         /\ \A g, d : About(Removed(s, S), table, g, d) => About(s, table, g, d)
<1> DEFINE r == Removed(s, S)
<1>0. r = [held |-> Without(s.held, S), dirty |-> s.dirty \ S, gone |-> s.gone \cup S,
           timer |-> TRUE, writing |-> s.writing, queued |-> s.queued, batch |-> s.batch,
           stray |-> s.stray, doubtful |-> s.doubtful]
  <2> DEFINE w == Without(s.held, S)
             d == s.dirty \ S
             n == s.gone \cup S
  <2>1. r = [s EXCEPT !.held = w, !.dirty = d, !.gone = n, !.timer = TRUE]
    BY DEF Removed
  <2>2. s = [held |-> s.held, dirty |-> s.dirty, gone |-> s.gone, timer |-> s.timer,
             writing |-> s.writing, queued |-> s.queued, batch |-> s.batch,
             stray |-> s.stray, doubtful |-> s.doubtful]
    BY DEF Stands, Sound
  <2> HIDE DEF r, w, d, n
  <2>3. r = [held |-> w, dirty |-> d, gone |-> n, timer |-> TRUE, writing |-> s.writing,
             queued |-> s.queued, batch |-> s.batch, stray |-> s.stray,
             doubtful |-> s.doubtful]
    BY <2>1, <2>2
  <2> QED
    BY <2>3 DEF w, d, n
<1> HIDE DEF r
<1>1. /\ r.held = Without(s.held, S) /\ r.dirty = s.dirty \ S
      /\ r.gone = s.gone \cup S /\ r.timer = TRUE /\ r.writing = s.writing
      /\ r.queued = s.queued /\ r.batch = s.batch /\ r.stray = s.stray
      /\ r.doubtful = s.doubtful
      /\ r = [held |-> r.held, dirty |-> r.dirty, gone |-> r.gone, timer |-> r.timer,
              writing |-> r.writing, queued |-> r.queued, batch |-> r.batch,
              stray |-> r.stray, doubtful |-> r.doubtful]
  BY <1>0
<1>2. /\ DOMAIN r.held = DOMAIN s.held \ S
      /\ \A h \in DOMAIN s.held \ S : r.held[h] = s.held[h]
  BY <1>1 DEF Without, Restrict
<1>3. Sound(r)
  BY <1>1, <1>2 DEF Stands, Sound
<1>4. Current(r)
  BY <1>1, <1>2 DEF Stands, Current, Wants
<1>5. Owes(r, table)
  BY <1>1, <1>2 DEF Stands, Owes
<1>6. \A L : OwesGone(s, table, L) => OwesGone(r, table, L \ S)
  BY <1>1 DEF OwesGone
<1>7. \A g, d : About(r, table, g, d) => About(s, table, g, d)
  BY <1>1, <1>2 DEF About
<1> QED
  BY <1>2, <1>3, <1>4, <1>5, <1>6, <1>7 DEF Stands, r

\* flushAsync() takes what waits, or comes back to it.
LEMMA TakenStands ==
  ASSUME NEW s, NEW table, Stands(s, table)
  PROVE  /\ Stands(Taken(s), table) /\ Taken(s).held = s.held
         /\ \A L : OwesGone(s, table, L) => OwesGone(Taken(s), table, L)
         /\ \A g, d : About(Taken(s), table, g, d) => About(s, table, g, d)
<1> DEFINE r == Taken(s)
<1>1. CASE s.writing
  <2>1. /\ r.held = s.held /\ r.dirty = s.dirty /\ r.gone = s.gone
        /\ r.writing = s.writing /\ r.batch = s.batch /\ r.stray = s.stray
        /\ r.doubtful = s.doubtful /\ s.writing
        /\ r = [held |-> r.held, dirty |-> r.dirty, gone |-> r.gone, timer |-> r.timer,
                writing |-> r.writing, queued |-> r.queued, batch |-> r.batch,
                stray |-> r.stray, doubtful |-> r.doubtful]
    BY <1>1 DEF Taken, Stands, Sound
  <2> HIDE DEF r
  <2>2. Sound(r) /\ Current(r) /\ Owes(r, table)
    BY <2>1 DEF Stands, Sound, Current, Owes, Wants
  <2>3. \A L : OwesGone(s, table, L) => OwesGone(r, table, L)
    BY <2>1 DEF OwesGone
  <2>4. \A g, d : About(r, table, g, d) => About(s, table, g, d)
    BY <2>1 DEF About
  <2> QED
    BY <2>1, <2>2, <2>3, <2>4 DEF Stands, r
<1>2. CASE ~s.writing
  <2>1. /\ r.held = s.held /\ r.dirty = {} /\ r.gone = {}
        /\ r.writing = Waits(s) /\ r.batch = Ops(s) /\ r.stray = s.stray
        /\ r.doubtful = s.doubtful
        /\ r = [held |-> r.held, dirty |-> r.dirty, gone |-> r.gone, timer |-> r.timer,
                writing |-> r.writing, queued |-> r.queued, batch |-> r.batch,
                stray |-> r.stray, doubtful |-> r.doubtful]
    BY <1>2 DEF Taken, Stands, Sound
  <2>2. s.batch = {}
    BY <1>2 DEF Stands, Sound
  <2>3. /\ s.dirty \cap DOMAIN s.held = s.dirty
        /\ s.gone \cap DOMAIN s.held = {}
    BY DEF Stands, Sound
  <2>4. /\ \A g \in s.dirty : [game |-> g, doc |-> <<s.held[g]>>] \in r.batch
        /\ \A g \in s.gone : [game |-> g, doc |-> <<>>] \in r.batch
    BY <2>1, <2>3 DEF Ops
  <2>5. \A op \in r.batch : op.doc = Wants(s, op.game)
    BY <2>1, <2>3 DEF Ops, Wants
  <2>11. \A op \in r.batch : op.doc # <<>> => op.game \in DOMAIN s.held /\ op.doc[1] = s.held[op.game]
    BY <2>1, <2>3 DEF Ops
  <2> HIDE DEF r
  <2>6. Waits(s) \in BOOLEAN /\ (Waits(s) <=> r.batch # {})
    BY <2>1, <2>3, <2>4 DEF Waits, Ops
  <2>7. Sound(r)
    BY <2>1, <2>6 DEF Sound, Waits
  <2>8. Current(r)
    BY <2>1, <2>5 DEF Current, Wants, Stands
  <2>9. Owes(r, table)
    BY <2>1, <2>2, <2>4 DEF Owes, Stands
  <2>10. \A L : OwesGone(s, table, L) => OwesGone(r, table, L)
    BY <2>1, <2>2, <2>4 DEF OwesGone
  <2>12. \A g, d : About(r, table, g, d) => About(s, table, g, d)
    BY <2>1, <2>11 DEF About
  <2> QED
    BY <2>1, <2>7, <2>8, <2>9, <2>10, <2>12 DEF Stands, r
<1> QED
  BY <1>1, <1>2 DEF Stands, Sound

\* What Land and Refused leave of a store.
Landing(s, op) ==
  LET left == [s EXCEPT !.batch = @ \ {op}, !.stray = @ \ {op}]
  IN  IF op \in s.batch /\ left.batch = {} THEN Written(left) ELSE left
Broken(s, op) ==
  Written([s EXCEPT !.batch = {}, !.stray = @ \cup (s.batch \ {op}),
                    !.doubtful = @ \cup {o.game : o \in s.batch}])

\* A store as the record of its fields, with other ones for some of them.
LEMMA FieldsOf ==
  ASSUME NEW s, Sound(s), NEW b, NEW y, NEW d,
         NEW r, r = [s EXCEPT !.batch = b, !.stray = y, !.doubtful = d]
  PROVE  r = [held |-> s.held, dirty |-> s.dirty, gone |-> s.gone, timer |-> s.timer,
              writing |-> s.writing, queued |-> s.queued, batch |-> b,
              stray |-> y, doubtful |-> d]
<1>1. s = [held |-> s.held, dirty |-> s.dirty, gone |-> s.gone, timer |-> s.timer,
           writing |-> s.writing, queued |-> s.queued, batch |-> s.batch,
           stray |-> s.stray, doubtful |-> s.doubtful]
  BY DEF Sound
<1> QED
  BY <1>1

\* What is left of a store whose write is over.
LEMMA WrittenIs ==
  ASSUME NEW s, s = [held |-> s.held, dirty |-> s.dirty, gone |-> s.gone,
                     timer |-> s.timer, writing |-> s.writing, queued |-> s.queued,
                     batch |-> s.batch, stray |-> s.stray, doubtful |-> s.doubtful]
  PROVE  \E u : /\ Waits(s) => u = TRUE
                /\ Written(s) = [held |-> s.held, dirty |-> s.dirty, gone |-> s.gone,
                                 timer |-> u, writing |-> FALSE, queued |-> FALSE,
                                 batch |-> s.batch, stray |-> s.stray,
                                 doubtful |-> s.doubtful]
<1> DEFINE v == s.timer \/ s.queued \/ Waits(s)
           r == Written(s)
<1>1. r = [s EXCEPT !.writing = FALSE, !.queued = FALSE, !.timer = v]
  BY DEF Written
<1>3. Waits(s) => v = TRUE
  BY Zenon
<1> HIDE DEF r, v
<1>2. r = [held |-> s.held, dirty |-> s.dirty, gone |-> s.gone, timer |-> v,
           writing |-> FALSE, queued |-> FALSE, batch |-> s.batch,
           stray |-> s.stray, doubtful |-> s.doubtful]
  BY <1>1
<1> QED
  BY <1>2, <1>3 DEF r

\* A statement arrives, of the write under way or of one that was given up.
LEMMA LandStands ==
  ASSUME NEW s, NEW table, Stands(s, table), NEW op \in s.batch \cup s.stray
  PROVE  /\ Stands(Landing(s, op), Applied(table, op)) /\ Landing(s, op).held = s.held
         /\ \A L : DOMAIN s.held \subseteq L /\ OwesGone(s, table, L)
                     => OwesGone(Landing(s, op), Applied(table, op), L)
         /\ \A g, d : About(Landing(s, op), Applied(table, op), g, d) => About(s, table, g, d)
<1> DEFINE b == s.batch \ {op}
           y == s.stray \ {op}
           T == Applied(table, op)
           r == Landing(s, op)
           left == [s EXCEPT !.batch = b, !.stray = y]
<1>1. left = [held |-> s.held, dirty |-> s.dirty, gone |-> s.gone, timer |-> s.timer,
              writing |-> s.writing, queued |-> s.queued, batch |-> b,
              stray |-> y, doubtful |-> s.doubtful]
  <2> DEFINE l == left
  <2>1. l = [s EXCEPT !.batch = b, !.stray = y]
    OBVIOUS
  <2>2. s = [held |-> s.held, dirty |-> s.dirty, gone |-> s.gone, timer |-> s.timer,
             writing |-> s.writing, queued |-> s.queued, batch |-> s.batch,
             stray |-> s.stray, doubtful |-> s.doubtful]
    BY DEF Stands, Sound
  <2> HIDE DEF l, b, y
  <2>3. l = [held |-> s.held, dirty |-> s.dirty, gone |-> s.gone, timer |-> s.timer,
             writing |-> s.writing, queued |-> s.queued, batch |-> b,
             stray |-> y, doubtful |-> s.doubtful]
    BY <2>1, <2>2
  <2> QED
    BY <2>3 DEF l
<1>2. r = IF op \in s.batch /\ left.batch = {} THEN Written(left) ELSE left
  BY DEF Landing
<1> HIDE DEF b, y, r, left
<1>3. /\ r.held = s.held /\ r.dirty = s.dirty /\ r.gone = s.gone /\ r.batch = b /\ r.stray = y
      /\ r.doubtful = s.doubtful
      /\ r.writing = IF op \in s.batch /\ b = {} THEN FALSE ELSE s.writing
      /\ Waits(s) => r.timer = TRUE \/ r.writing
      /\ r = [held |-> r.held, dirty |-> r.dirty, gone |-> r.gone, timer |-> r.timer,
              writing |-> r.writing, queued |-> r.queued, batch |-> r.batch,
              stray |-> r.stray, doubtful |-> r.doubtful]
  <2>1. CASE op \in s.batch /\ b = {}
    <3>1. r = Written(left)
      BY <1>1, <1>2, <2>1
    <3>2. PICK u : /\ Waits(s) => u = TRUE
                   /\ r = [held |-> s.held, dirty |-> s.dirty, gone |-> s.gone,
                           timer |-> u, writing |-> FALSE, queued |-> FALSE, batch |-> b,
                           stray |-> y, doubtful |-> s.doubtful]
      <4>1. /\ left.held = s.held /\ left.dirty = s.dirty /\ left.gone = s.gone
            /\ left.batch = b /\ left.stray = y /\ left.doubtful = s.doubtful
            /\ left = [held |-> left.held, dirty |-> left.dirty, gone |-> left.gone,
                       timer |-> left.timer, writing |-> left.writing,
                       queued |-> left.queued, batch |-> left.batch,
                       stray |-> left.stray, doubtful |-> left.doubtful]
        BY <1>1
      <4>2. \E u : /\ Waits(left) => u = TRUE
                   /\ Written(left) = [held |-> left.held, dirty |-> left.dirty,
                        gone |-> left.gone, timer |-> u, writing |-> FALSE, queued |-> FALSE,
                        batch |-> left.batch, stray |-> left.stray, doubtful |-> left.doubtful]
        BY ONLY <4>1, WrittenIs, ZenonT(60)
      <4>3. Waits(left) <=> Waits(s)
        BY <4>1 DEF Waits
      <4> QED
        BY <3>1, <4>1, <4>2, <4>3
    <3> QED
      BY <2>1, <3>2
  <2>2. CASE ~(op \in s.batch /\ b = {})
    <3>1. Waits(s) => s.timer = TRUE \/ s.writing
      BY DEF Stands, Sound
    <3> QED
      BY <1>1, <1>2, <2>2, <3>1
  <2> QED
    BY <2>1, <2>2
<1>4. Sound(r)
  BY <1>3 DEF Stands, Sound, Waits, b
<1>5. Current(r)
  BY <1>3 DEF Stands, Current, Wants, b, y
<1>6. \/ op.game \in s.dirty \cup s.gone \cup s.doubtful
      \/ op.doc = Wants(s, op.game)
  BY DEF Stands, Current
<1>7. /\ op.doc = <<>> => /\ DOMAIN T = DOMAIN table \ {op.game}
                          /\ \A g \in DOMAIN T : T[g] = table[g]
      /\ op.doc # <<>> => /\ DOMAIN T = DOMAIN table \cup {op.game}
                          /\ T[op.game] = op.doc[1]
                          /\ \A g \in DOMAIN table \ {op.game} : T[g] = table[g]
  BY DEF Applied, With, Without, Restrict
<1> HIDE DEF T
<1>8. Owes(r, T)
  <2> SUFFICES ASSUME NEW g \in DOMAIN s.held \ s.doubtful, g \notin s.dirty
               PROVE  \/ g \in DOMAIN T /\ T[g] = s.held[g]
                      \/ [game |-> g, doc |-> <<s.held[g]>>] \in r.batch
    BY <1>3 DEF Owes
  <2>1. \/ g \in DOMAIN table /\ table[g] = s.held[g]
        \/ [game |-> g, doc |-> <<s.held[g]>>] \in s.batch
    BY DEF Stands, Owes
  <2>2. CASE op = [game |-> g, doc |-> <<s.held[g]>>]
    <3>1. op.game = g /\ op.doc = <<s.held[g]>>
      BY <2>2
    <3>2. op.doc # <<>> /\ op.doc[1] = s.held[g]
      BY <3>1
    <3> QED
      BY <1>7, <3>1, <3>2
  <2>3. CASE op # [game |-> g, doc |-> <<s.held[g]>>] /\ g # op.game
    <3>1. CASE g \in DOMAIN table /\ table[g] = s.held[g]
      BY <1>7, <2>3, <3>1
    <3>2. CASE [game |-> g, doc |-> <<s.held[g]>>] \in s.batch
      BY <1>3, <2>3, <3>2 DEF b
    <3> QED
      BY <2>1, <3>1, <3>2
  <2>4. CASE op # [game |-> g, doc |-> <<s.held[g]>>] /\ g = op.game
    <3>1. g \notin s.gone
      BY DEF Stands, Sound
    <3>2. op.doc = <<s.held[g]>>
      BY <1>6, <2>4, <3>1 DEF Wants
    <3>3. op.doc # <<>> /\ op.doc[1] = s.held[g]
      BY <3>2
    <3> QED
      BY <1>7, <2>4, <3>3
  <2> QED
    BY <2>2, <2>3, <2>4
<1>9. ASSUME NEW L, DOMAIN s.held \subseteq L, OwesGone(s, table, L)
      PROVE  OwesGone(r, T, L)
  <2> SUFFICES ASSUME NEW g \in (DOMAIN T \ L) \ s.doubtful, g \notin s.gone
               PROVE  [game |-> g, doc |-> <<>>] \in r.batch
    BY <1>3 DEF OwesGone
  <2>1. g \notin DOMAIN s.held /\ g \notin s.dirty
    BY <1>9 DEF Stands, Sound
  <2>2. CASE g = op.game
    <3>1. op.doc = <<>>
      BY <1>6, <2>1, <2>2 DEF Wants
    <3> QED
      BY <1>7, <2>2, <3>1
  <2>3. CASE g # op.game
    <3>1. g \in DOMAIN table
      BY <1>7, <2>3
    <3>2. [game |-> g, doc |-> <<>>] \in s.batch
      BY <1>9, <3>1 DEF OwesGone
    <3>3. [game |-> g, doc |-> <<>>] # op
      BY <2>3
    <3> QED
      BY <1>3, <3>2, <3>3 DEF b
  <2> QED
    BY <2>2, <2>3
<1>10. ASSUME NEW g, NEW doc, About(r, T, g, doc)
       PROVE  About(s, table, g, doc)
  <2>1. CASE g \in DOMAIN T /\ doc = T[g]
    BY <1>7, <2>1 DEF About
  <2>2. CASE ~(g \in DOMAIN T /\ doc = T[g])
    BY <1>3, <1>10, <2>2 DEF About, b, y
  <2> QED
    BY <2>1, <2>2
<1> QED
  BY <1>3, <1>4, <1>5, <1>8, <1>9, <1>10 DEF Stands, T, r

\* A write that is refused leaves what was in it in doubt.
LEMMA RefusedStands ==
  ASSUME NEW s, NEW table, Stands(s, table), NEW op \in s.batch
  PROVE  /\ Stands(Broken(s, op), table) /\ Broken(s, op).held = s.held
         /\ \A L : OwesGone(s, table, L) => OwesGone(Broken(s, op), table, L)
         /\ \A g, d2 : About(Broken(s, op), table, g, d2) => About(s, table, g, d2)
<1> DEFINE y == s.stray \cup (s.batch \ {op})
           d == s.doubtful \cup {o.game : o \in s.batch}
           r == Broken(s, op)
           left == [s EXCEPT !.batch = {}, !.stray = y, !.doubtful = d]
<1>1. left = [held |-> s.held, dirty |-> s.dirty, gone |-> s.gone, timer |-> s.timer,
              writing |-> s.writing, queued |-> s.queued, batch |-> {},
              stray |-> y, doubtful |-> d]
  <2> DEFINE l == left
  <2>1. l = [s EXCEPT !.batch = {}, !.stray = y, !.doubtful = d]
    OBVIOUS
  <2> HIDE DEF l, y, d
  <2>2. l = [held |-> s.held, dirty |-> s.dirty, gone |-> s.gone, timer |-> s.timer,
             writing |-> s.writing, queued |-> s.queued, batch |-> {},
             stray |-> y, doubtful |-> d]
    BY <2>1, FieldsOf, ZenonT(60) DEF Stands
  <2> QED
    BY <2>2 DEF l
<1>2. r = Written(left)
  BY DEF Broken
<1> HIDE DEF y, d, left, r
<1>3. /\ r.held = s.held /\ r.dirty = s.dirty /\ r.gone = s.gone /\ r.batch = {} /\ r.stray = y
      /\ r.doubtful = d /\ r.writing = FALSE /\ (Waits(s) => r.timer = TRUE)
      /\ r = [held |-> r.held, dirty |-> r.dirty, gone |-> r.gone, timer |-> r.timer,
              writing |-> r.writing, queued |-> r.queued, batch |-> r.batch,
              stray |-> r.stray, doubtful |-> r.doubtful]
  <2>1. PICK u : /\ Waits(s) => u = TRUE
                 /\ r = [held |-> s.held, dirty |-> s.dirty, gone |-> s.gone,
                         timer |-> u, writing |-> FALSE, queued |-> FALSE, batch |-> {},
                         stray |-> y, doubtful |-> d]
    <3>1. /\ left.held = s.held /\ left.dirty = s.dirty /\ left.gone = s.gone
          /\ left.batch = {} /\ left.stray = y /\ left.doubtful = d
          /\ left = [held |-> left.held, dirty |-> left.dirty, gone |-> left.gone,
                     timer |-> left.timer, writing |-> left.writing,
                     queued |-> left.queued, batch |-> left.batch,
                     stray |-> left.stray, doubtful |-> left.doubtful]
      BY <1>1
    <3>2. \E u : /\ Waits(left) => u = TRUE
                 /\ Written(left) = [held |-> left.held, dirty |-> left.dirty,
                      gone |-> left.gone, timer |-> u, writing |-> FALSE, queued |-> FALSE,
                      batch |-> left.batch, stray |-> left.stray, doubtful |-> left.doubtful]
      BY ONLY <3>1, WrittenIs, ZenonT(60)
    <3>3. Waits(left) <=> Waits(s)
      BY <3>1 DEF Waits
    <3> QED
      BY <1>2, <3>1, <3>2, <3>3
  <2> QED
    BY <2>1
<1>4. Sound(r)
  BY <1>3 DEF Stands, Sound, Waits
<1>5. s.doubtful \subseteq d /\ \A o \in s.batch : o.game \in d
  BY DEF d
<1>6. Current(r)
  BY <1>3, <1>5 DEF Stands, Current, y
<1>7. \A g, doc : [game |-> g, doc |-> doc] \in s.batch => g \in d
  <2> SUFFICES ASSUME NEW g, NEW doc, [game |-> g, doc |-> doc] \in s.batch
               PROVE  g \in d
    OBVIOUS
  <2>1. [game |-> g, doc |-> doc].game = g
    OBVIOUS
  <2> QED
    BY <1>5, <2>1
<1>8. Owes(r, table)
  BY <1>3, <1>5, <1>7 DEF Stands, Owes
<1>9. \A L : OwesGone(s, table, L) => OwesGone(r, table, L)
  BY <1>3, <1>5, <1>7 DEF OwesGone
<1>10. \A g, d2 : About(r, table, g, d2) => About(s, table, g, d2)
  BY <1>3 DEF About, y
<1> QED
  BY <1>3, <1>4, <1>6, <1>8, <1>9, <1>10 DEF Stands, r

-----------------------------------------------------------------------------
(* Both stores *)

\* While the server answers: both stores stand, and the chat of a game that
\* is not on the list is on its way out.
StoresStand ==
  /\ \A k \in Kinds : Stands(store[k], db[k])
  /\ DOMAIN store["chat"].held \subseteq live
  /\ OwesGone(store["chat"], db["chat"], live)

\* The server answers in its last phase only, and the two stores and tables
\* are there in every.
Answering ==
  /\ up \in BOOLEAN /\ (phase = "up" <=> up)
  /\ store = [k \in Kinds |-> store[k]] /\ db = [k \in Kinds |-> db[k]]

StoreInv == Answering /\ (up => StoresStand)

LEMMA StoresInStep ==
  ASSUME StoreInv
  PROVE  KeptInStep
BY DEF StoreInv, StoresStand, KeptInStep, Stands, Owes, OwesGone

LEMMA StoresRest ==
  ASSUME StoreInv, store' = store, db' = db, live' = live, up' = up, phase' = phase
  PROVE  StoreInv'
BY DEF StoreInv, Answering, StoresStand

\* One store moves, or one table, and the list does not.
LEMMA OneStoreMoves ==
  ASSUME StoreInv, up, NEW k \in Kinds, NEW s, NEW T, Stands(s, T),
         k = "chat" => DOMAIN s.held \subseteq live /\ OwesGone(s, T, live),
         store' = [store EXCEPT ![k] = s], db' = [db EXCEPT ![k] = T],
         live' = live, up' = up, phase' = phase
  PROVE  StoreInv'
<1>1. /\ store' = [j \in Kinds |-> store'[j]] /\ db' = [j \in Kinds |-> db'[j]]
      /\ store'[k] = s /\ db'[k] = T
      /\ \A j \in Kinds \ {k} : store'[j] = store[j] /\ db'[j] = db[j]
  BY DEF StoreInv, Answering
<1>2. Answering'
  BY <1>1 DEF StoreInv, Answering
<1>3. \A j \in Kinds : Stands(store'[j], db'[j])
  BY <1>1 DEF StoreInv, StoresStand
<1>4. DOMAIN store'["chat"].held \subseteq live /\ OwesGone(store'["chat"], db'["chat"], live)
  BY <1>1 DEF StoreInv, StoresStand, Kinds
<1> QED
  BY <1>2, <1>3, <1>4 DEF StoreInv, StoresStand

\* No document comes to the stores or the tables.
Fewer == \A k \in Kinds : \A g, d : About(store'[k], db'[k], g, d) => About(store[k], db[k], g, d)

\* None but this one of a game does.
Noted(k, g, doc) ==
  \A j \in Kinds : \A h, d : About(store'[j], db'[j], h, d)
    => About(store[j], db[j], h, d) \/ (j = k /\ h = g /\ d = doc)

LEMMA OneStoreAbout ==
  ASSUME Answering, NEW k \in Kinds, NEW s, NEW T,
         store' = [store EXCEPT ![k] = s], db' = [db EXCEPT ![k] = T]
  PROVE  /\ store'[k] = s /\ db'[k] = T
         /\ \A j \in Kinds \ {k} : store'[j] = store[j] /\ db'[j] = db[j]
         /\ (\A g, d : About(s, T, g, d) => About(store[k], db[k], g, d)) => Fewer
<1>1. /\ store'[k] = s /\ db'[k] = T
      /\ \A j \in Kinds \ {k} : store'[j] = store[j] /\ db'[j] = db[j]
  BY DEF Answering
<1> QED
  BY <1>1 DEF Fewer

LEMMA OneStoreAlone ==
  ASSUME Answering, NEW k \in Kinds, NEW s, store' = [store EXCEPT ![k] = s], db' = db
  PROVE  /\ store'[k] = s /\ db'[k] = db[k]
         /\ \A j \in Kinds \ {k} : store'[j] = store[j] /\ db'[j] = db[j]
         /\ (\A g, d : About(s, db[k], g, d) => About(store[k], db[k], g, d)) => Fewer
<1>1. /\ store'[k] = s /\ db'[k] = db[k]
      /\ \A j \in Kinds \ {k} : store'[j] = store[j] /\ db'[j] = db[j]
  BY DEF Answering
<1> QED
  BY <1>1 DEF Fewer

LEMMA TimerInv ==
  ASSUME StoreInv, NEW k \in Kinds, Timer(k), phase' = phase
  PROVE  StoreInv' /\ Fewer /\ store'["chat"].held = store["chat"].held
<1> DEFINE s == Taken(store[k])
<1>1. up /\ store' = [store EXCEPT ![k] = s] /\ db' = db /\ live' = live /\ up' = up
  BY DEF Timer, talk, disk
<1>2. db' = [db EXCEPT ![k] = db[k]]
  BY <1>1 DEF StoreInv, Answering
<1>3. Stands(store[k], db[k])
  BY <1>1 DEF StoreInv, StoresStand
<1>4. /\ Stands(s, db[k]) /\ s.held = store[k].held
      /\ \A L : OwesGone(store[k], db[k], L) => OwesGone(s, db[k], L)
      /\ \A g, d : About(s, db[k], g, d) => About(store[k], db[k], g, d)
  BY <1>3, TakenStands
<1> HIDE DEF s
<1>5. k = "chat" => DOMAIN s.held \subseteq live /\ OwesGone(s, db[k], live)
  BY <1>1, <1>4 DEF StoreInv, StoresStand
<1>6. Fewer /\ store'["chat"].held = store["chat"].held
  BY <1>1, <1>4, OneStoreAlone DEF StoreInv, Kinds
<1> QED
  BY <1>1, <1>2, <1>4, <1>5, <1>6, OneStoreMoves

LEMMA LandInv ==
  ASSUME StoreInv, NEW k \in Kinds, NEW op \in store[k].batch \cup store[k].stray,
         Land(k, op), phase' = phase
  PROVE  StoreInv' /\ Fewer /\ store'["chat"].held = store["chat"].held
<1> DEFINE s == Landing(store[k], op)
           T == Applied(db[k], op)
<1>1. /\ up /\ store' = [store EXCEPT ![k] = s] /\ db' = [db EXCEPT ![k] = T]
      /\ live' = live /\ up' = up
  BY DEF Land, talk, Landing
<1>2. Stands(store[k], db[k])
  BY <1>1 DEF StoreInv, StoresStand
<1>3. /\ Stands(s, T) /\ s.held = store[k].held
      /\ \A L : DOMAIN store[k].held \subseteq L /\ OwesGone(store[k], db[k], L)
                  => OwesGone(s, T, L)
      /\ \A g, d : About(s, T, g, d) => About(store[k], db[k], g, d)
  BY <1>2, LandStands
<1> HIDE DEF s, T
<1>4. k = "chat" => DOMAIN s.held \subseteq live /\ OwesGone(s, T, live)
  BY <1>1, <1>3 DEF StoreInv, StoresStand
<1>5. Fewer /\ store'["chat"].held = store["chat"].held
  BY <1>1, <1>3, OneStoreAbout DEF StoreInv, Kinds
<1> QED
  BY <1>1, <1>3, <1>4, <1>5, OneStoreMoves

LEMMA RefusedInv ==
  ASSUME StoreInv, NEW k \in Kinds, NEW op \in store[k].batch \cup store[k].stray,
         Refused(k, op), phase' = phase
  PROVE  StoreInv' /\ Fewer /\ store'["chat"].held = store["chat"].held
<1> DEFINE s == Broken(store[k], op)
<1>1. /\ up /\ op \in store[k].batch /\ store' = [store EXCEPT ![k] = s] /\ db' = db
      /\ live' = live /\ up' = up
  BY DEF Refused, talk, disk, Broken
<1>2. db' = [db EXCEPT ![k] = db[k]]
  BY <1>1 DEF StoreInv, Answering
<1>3. Stands(store[k], db[k])
  BY <1>1 DEF StoreInv, StoresStand
<1>4. /\ Stands(s, db[k]) /\ s.held = store[k].held
      /\ \A L : OwesGone(store[k], db[k], L) => OwesGone(s, db[k], L)
      /\ \A g, d : About(s, db[k], g, d) => About(store[k], db[k], g, d)
  BY <1>1, <1>3, RefusedStands
<1> HIDE DEF s
<1>5. k = "chat" => DOMAIN s.held \subseteq live /\ OwesGone(s, db[k], live)
  BY <1>1, <1>4 DEF StoreInv, StoresStand
<1>6. Fewer /\ store'["chat"].held = store["chat"].held
  BY <1>1, <1>4, OneStoreAlone DEF StoreInv, Kinds
<1> QED
  BY <1>1, <1>2, <1>4, <1>5, <1>6, OneStoreMoves

\* Something of a game on the list is written down.
LEMMA NotedInv ==
  ASSUME StoreInv, up, NEW k \in Kinds, NEW g \in live, NEW doc,
         store' = [store EXCEPT ![k] = Recorded(store[k], g, doc)],
         db' = db, live' = live, up' = up, phase' = phase
  PROVE  /\ StoreInv' /\ Noted(k, g, doc)
         /\ store'[k].held = With(store[k].held, g, doc)
         /\ \A j \in Kinds \ {k} : store'[j] = store[j]
<1> DEFINE s == Recorded(store[k], g, doc)
<1>1. db' = [db EXCEPT ![k] = db[k]]
  BY DEF StoreInv, Answering
<1>2. Stands(store[k], db[k])
  BY DEF StoreInv, StoresStand
<1>3. /\ Stands(s, db[k]) /\ DOMAIN s.held = DOMAIN store[k].held \cup {g}
      /\ \A L : g \in L /\ OwesGone(store[k], db[k], L) => OwesGone(s, db[k], L)
      /\ \A h, d : About(s, db[k], h, d) => About(store[k], db[k], h, d) \/ (h = g /\ d = doc)
      /\ s.held = With(store[k].held, g, doc)
  BY <1>2, RecordedStands
<1>4. store' = [store EXCEPT ![k] = s]
  OBVIOUS
<1> HIDE DEF s
<1>5. k = "chat" => DOMAIN s.held \subseteq live /\ OwesGone(s, db[k], live)
  BY <1>3 DEF StoreInv, StoresStand
<1>6. /\ store'[k] = s /\ db'[k] = db[k]
      /\ \A j \in Kinds \ {k} : store'[j] = store[j] /\ db'[j] = db[j]
  BY <1>4, OneStoreAlone DEF StoreInv
<1>7. Noted(k, g, doc)
  BY <1>3, <1>6 DEF Noted
<1> QED
  BY <1>1, <1>3, <1>4, <1>5, <1>6, <1>7, OneStoreMoves

LEMMA PostInv ==
  ASSUME StoreInv, NEW S, Post(S), phase' = phase
  PROVE  StoreInv'
<1> DEFINE g == (CHOOSE r \in S : TRUE)[1]
           doc == Snapshot(g, rooms')
<1>1. /\ up /\ S # {} /\ (\A r \in S : r[1] \in live)
      /\ store' = [store EXCEPT !["chat"] = Recorded(store["chat"], g, doc)]
      /\ db' = db /\ live' = live /\ up' = up
  BY DEF Post, disk
<1>2. g \in live
  BY <1>1
<1> HIDE DEF g, doc
<1>3. "chat" \in Kinds
  BY DEF Kinds
<1> QED
  BY <1>1, <1>2, <1>3, NotedInv

LEMMA HandKeptInv ==
  ASSUME StoreInv, NEW g, HandKept(g), phase' = phase
  PROVE  StoreInv'
<1>1. /\ up /\ g \in live
      /\ store' = [store EXCEPT !["history"] = Recorded(store["history"], g, hands[g] + 1)]
      /\ db' = db /\ live' = live /\ up' = up
  BY DEF HandKept, disk
<1>2. "history" \in Kinds
  BY DEF Kinds
<1> QED
  BY <1>1, <1>2, NotedInv

LEMMA RemoveGameInv ==
  ASSUME StoreInv, NEW g, RemoveGame(g), phase' = phase
  PROVE  /\ StoreInv'
         /\ Noted("history", g, hands[g])
         /\ \A h \in DOMAIN store'["chat"].held :
              h \in DOMAIN store["chat"].held /\ store'["chat"].held[h] = store["chat"].held[h]
         /\ \A h \in DOMAIN store["chat"].held \ {g} : h \in DOMAIN store'["chat"].held
<1> DEFINE c == Removed(store["chat"], {g})
           h == Recorded(store["history"], g, hands[g])
<1>1. /\ up /\ live' = live \ {g} /\ store' = [chat |-> c, history |-> h]
      /\ db' = db /\ up' = up
  BY DEF RemoveGame, disk
<1>2. /\ Stands(store["chat"], db["chat"]) /\ Stands(store["history"], db["history"])
      /\ DOMAIN store["chat"].held \subseteq live
      /\ OwesGone(store["chat"], db["chat"], live)
  BY <1>1 DEF StoreInv, StoresStand, Kinds
<1>3. /\ Stands(c, db["chat"]) /\ DOMAIN c.held = DOMAIN store["chat"].held \ {g}
      /\ \A L : OwesGone(store["chat"], db["chat"], L) => OwesGone(c, db["chat"], L \ {g})
      /\ \A i \in DOMAIN store["chat"].held \ {g} : c.held[i] = store["chat"].held[i]
      /\ \A i, d : About(c, db["chat"], i, d) => About(store["chat"], db["chat"], i, d)
  BY <1>2, RemovedStands
<1>4. /\ Stands(h, db["history"])
      /\ \A i, d : About(h, db["history"], i, d)
                     => About(store["history"], db["history"], i, d) \/ (i = g /\ d = hands[g])
  BY <1>2, RecordedStands
<1> HIDE DEF c, h
<1>5. /\ store' = [k \in Kinds |-> store'[k]]
      /\ store'["chat"] = c /\ store'["history"] = h
  BY <1>1 DEF Kinds
<1>6. Answering'
  BY <1>1, <1>5 DEF StoreInv, Answering
<1>7. \A k \in Kinds : Stands(store'[k], db'[k])
  BY <1>1, <1>3, <1>4, <1>5 DEF Kinds
<1>8. DOMAIN store'["chat"].held \subseteq live' /\ OwesGone(store'["chat"], db'["chat"], live')
  BY <1>1, <1>2, <1>3, <1>5
<1>9. Noted("history", g, hands[g])
  BY <1>1, <1>3, <1>4, <1>5 DEF Kinds, Noted
<1> QED
  BY <1>3, <1>5, <1>6, <1>7, <1>8, <1>9 DEF StoreInv, StoresStand

LEMMA RunningInv ==
  ASSUME StoreInv, Running, phase' = phase
  PROVE  StoreInv'
<1>1. CASE \E k \in Kinds : Timer(k)
  BY <1>1, TimerInv
<1>2. CASE \E k \in Kinds : \E op \in store[k].batch \cup store[k].stray :
             Land(k, op) \/ Refused(k, op)
  BY <1>2, LandInv, RefusedInv
<1>3. CASE \E S : Post(S)
  BY <1>3, PostInv
<1>4. CASE \E g \in Games : HandKept(g) \/ RemoveGame(g)
  BY <1>4, HandKeptInv, RemoveGameInv
<1>5. CASE \E p \in Readers : Take(p) \/ Drop(p) \/ Return(p) \/ \E r \in Rooms : GoTo(p, r)
  <2>1. store' = store /\ db' = db /\ live' = live /\ up' = up
    BY <1>5 DEF Take, Drop, Return, GoTo, talk, disk
  <2> QED
    BY <2>1, StoresRest
<1>6. CASE \E r \in Rooms, to \in Rooms : BreakTable(r, to)
  <2>1. store' = store /\ db' = db /\ live' = live /\ up' = up
    BY <1>6 DEF BreakTable, talk, disk
  <2> QED
    BY <2>1, StoresRest
<1>7. CASE ListLands
  <2>1. store' = store /\ db' = db /\ live' = live /\ up' = up
    BY <1>7 DEF ListLands, talk, disk
  <2> QED
    BY <2>1, StoresRest
<1> QED
  BY <1>1, <1>2, <1>3, <1>4, <1>5, <1>6, <1>7 DEF Running

\* The process ends, and the stores with it.
LEMMA DownInv ==
  ASSUME StoreInv, Down
  PROVE  StoreInv'
<1>1. PICK tables, onList : Ended(tables, onList) /\ tables = [k \in Kinds |-> tables[k]]
  <2>1. CASE Crash
    <3>1. PICK c \in SUBSET store["chat"].batch, h \in SUBSET store["history"].batch :
            Ended([chat |-> Landed(db["chat"], c), history |-> Landed(db["history"], h)], listed)
      BY <2>1 DEF Crash
    <3> DEFINE a == Landed(db["chat"], c)
               b == Landed(db["history"], h)
               tables == [chat |-> a, history |-> b]
    <3>2. tables = [k \in Kinds |-> tables[k]]
      <4> HIDE DEF a, b
      <4> QED
        BY DEF Kinds
    <3> QED
      BY <3>1, <3>2
  <2>2. CASE Stop
    BY <2>2 DEF Stop
  <2> QED
    BY <2>1, <2>2 DEF Down
<1>2. /\ up' = FALSE /\ db' = tables /\ store' = [k \in Kinds |-> Fresh(<<>>)]
      /\ phase' = "down"
  BY <1>1 DEF Ended, Down
<1> QED
  BY <1>1, <1>2 DEF StoreInv, Answering

\* The stores open on their tables.
LEMMA OpenInv ==
  ASSUME StoreInv, Open
  PROVE  StoreInv'
<1> DEFINE c == SweptAtBoot(Fresh(db["chat"]), listed)
           h == Fresh(<<>>)
<1>1. /\ up' = TRUE /\ phase' = "up" /\ live' = listed /\ db' = db
      /\ store' = [chat |-> c, history |-> h]
  BY DEF Open, Boot, disk
<1>2. /\ Stands(c, db["chat"]) /\ DOMAIN c.held \subseteq listed
      /\ OwesGone(c, db["chat"], listed)
  <2> DEFINE f == Fresh(db["chat"])
             S == DOMAIN f.held \ listed
  <2>1. /\ Stands(f, db["chat"]) /\ f.held = db["chat"] /\ f.gone = {}
        /\ f.batch = {} /\ f.doubtful = {}
    BY FreshStands
  <2>2. c = IF DOMAIN f.held \subseteq listed THEN f ELSE Removed(f, S)
    BY DEF SweptAtBoot
  <2> HIDE DEF c, f
  <2>3. CASE DOMAIN f.held \subseteq listed
    BY <2>1, <2>2, <2>3 DEF OwesGone
  <2>4. CASE ~(DOMAIN f.held \subseteq listed)
    <3>1. OwesGone(f, db["chat"], DOMAIN db["chat"] \cup listed)
      BY DEF OwesGone
    <3>2. /\ Stands(Removed(f, S), db["chat"])
          /\ DOMAIN Removed(f, S).held = DOMAIN f.held \ S
          /\ OwesGone(Removed(f, S), db["chat"], (DOMAIN db["chat"] \cup listed) \ S)
      BY <2>1, <3>1, RemovedStands
    <3>3. (DOMAIN db["chat"] \cup listed) \ S = listed
      BY <2>1
    <3> QED
      BY <2>2, <2>4, <3>2, <3>3
  <2> QED
    BY <2>3, <2>4
<1>3. Stands(h, db["history"])
  BY DEF Stands, Sound, Waits, Current, Owes, Fresh
<1> HIDE DEF c, h
<1>4. /\ store' = [k \in Kinds |-> store'[k]]
      /\ store'["chat"] = c /\ store'["history"] = h
  BY <1>1 DEF Kinds
<1>5. Answering'
  BY <1>1, <1>4 DEF StoreInv, Answering
<1>6. \A k \in Kinds : Stands(store'[k], db'[k])
  BY <1>1, <1>2, <1>3, <1>4 DEF Kinds
<1> QED
  BY <1>1, <1>2, <1>4, <1>5, <1>6 DEF StoreInv, StoresStand

-----------------------------------------------------------------------------
(* Numbers *)

LEMMA Least ==
  ASSUME NEW T, T \subseteq Nat, T # {}
  PROVE  \E x \in T : \A y \in T : x <= y
<1>1. PICK x \in T : \A y \in T : <<y, x>> \notin OpToRel(<, Nat)
  BY NatLessThanWellFounded, WFMin
<1>2. \A y \in T : ~(y < x)
  BY <1>1 DEF OpToRel
<1> QED
  BY <1>2

\* Of numbers below a bound there is a highest.
LEMMA Highest ==
  ASSUME NEW n \in Nat, NEW S, S \subseteq 0..n, S # {}
  PROVE  Max(S) \in S /\ \A x \in S : x <= Max(S)
<1> DEFINE T == {n - x : x \in S}
<1>1. \A x \in S : n - x \in Nat
  OBVIOUS
<1>2. T \subseteq Nat /\ T # {}
  BY <1>1
<1>3. PICK m \in T : \A y \in T : m <= y
  <2> HIDE DEF T
  <2> QED
    BY <1>2, Least
<1>4. PICK x \in S : m = n - x
  BY <1>3
<1>5. \A y \in S : n - x <= n - y
  BY <1>3, <1>4
<1>6. \A y \in S : x >= y
  BY <1>5
<1> QED
  BY <1>6 DEF Max

LEMMA SeqsAre ==
  ASSUME NEW ms \in Backlogs
  PROVE  /\ \A i \in DOMAIN ms : ms[i] \in Message /\ ms[i].seq \in Nat \ {0} /\ ms[i].id \in Int
         /\ DOMAIN ms = 1..Len(ms) /\ Len(ms) \in Nat
         /\ \E b \in Nat : \A i \in DOMAIN ms : ms[i].seq <= b
<1>1. ms \in Seq(Message) /\ \A i, j \in DOMAIN ms : i < j => ms[i].seq < ms[j].seq
  BY DEF Backlogs
<1>2. \A i \in DOMAIN ms : ms[i] \in Message
  BY <1>1
<1>3. \A i \in DOMAIN ms : ms[i].seq \in Nat \ {0} /\ ms[i].id \in Int
  BY <1>2 DEF Message
<1>4. DOMAIN ms = 1..Len(ms) /\ Len(ms) \in Nat
  BY <1>1
<1>5. \E b \in Nat : \A i \in DOMAIN ms : ms[i].seq <= b
  <2>1. CASE Len(ms) = 0
    BY <1>4, <2>1
  <2>2. CASE Len(ms) # 0
    <3>1. Len(ms) \in DOMAIN ms /\ \A i \in DOMAIN ms : i # Len(ms) => i < Len(ms)
      BY <1>4, <2>2
    <3>2. \A i \in DOMAIN ms : ms[i].seq <= ms[Len(ms)].seq
      BY <1>1, <1>3, <3>1
    <3> QED
      BY <1>3, <3>1, <3>2
  <2> QED
    BY <2>1, <2>2
<1> QED
  BY <1>2, <1>3, <1>4, <1>5

\* The watermark after a payload.
LEMMA MarkIs ==
  ASSUME NEW ms \in Backlogs, NEW k \in Nat, NEW I,
         I = {i \in DOMAIN ms : ms[i].seq > k}
  PROVE  LET m == Max({k} \cup {ms[i].seq : i \in I}) IN
         /\ m \in Nat /\ k <= m
         /\ \A i \in DOMAIN ms : ms[i].seq <= m
         /\ m = k \/ \E i \in DOMAIN ms : ms[i].seq = m
<1> DEFINE S == {k} \cup {ms[i].seq : i \in I}
           m == Max(S)
<1>1. PICK b \in Nat : \A i \in DOMAIN ms : ms[i].seq <= b
  BY SeqsAre
<1>2. \A i \in DOMAIN ms : ms[i].seq \in Nat
  BY SeqsAre
<1>3. k \in S /\ S \subseteq 0..(b + k)
  BY <1>1, <1>2
<1>4. m \in S /\ \A x \in S : x <= m
  <2> HIDE DEF S
  <2>1. b + k \in Nat
    OBVIOUS
  <2> QED
    BY <1>3, <2>1, Highest
<1>5. m \in Nat /\ k <= m
  BY <1>3, <1>4
<1>6. \A i \in DOMAIN ms : ms[i].seq <= m
  <2> SUFFICES ASSUME NEW i \in DOMAIN ms
               PROVE  ms[i].seq <= m
    OBVIOUS
  <2>1. CASE ms[i].seq > k
    <3>1. ms[i].seq \in S
      BY <2>1
    <3> HIDE DEF S, m
    <3> QED
      BY <1>4, <3>1
  <2>2. CASE ~(ms[i].seq > k)
    <3> HIDE DEF S, m
    <3> QED
      BY <1>2, <1>5, <2>2
  <2> QED
    BY <2>1, <2>2
<1>7. m = k \/ \E i \in DOMAIN ms : ms[i].seq = m
  BY <1>4
<1> QED
  BY <1>5, <1>6, <1>7

-----------------------------------------------------------------------------
(* The boot *)

\* No change of shape is in the ledger that the database does not have, and
\* a boot that is past the shape has them all.
Shaped ==
  /\ phase \in {"down", "shape", "files", "up"}
  /\ ledger \subseteq shape /\ shape \subseteq 1..Steps
  /\ phase \in {"files", "up"} => ledger = 1..Steps
  /\ files \subseteq Sources /\ looked \subseteq Sources

\* A file that is read in is there, what of it is not left to be put is in the
\* table, and of the list nothing is left.
Imported ==
  reading # <<>> =>
    /\ phase = "files" /\ reading[1] \in Sources \ looked /\ reading[1] \in files
    /\ FileOf(reading[1]) \ reading[2] \subseteq Table(reading[1])
    /\ reading[2] \subseteq FileOf(reading[1])
    /\ reading[1] = "list" => reading[2] = {}

LEMMA DueIs ==
  ASSUME ledger \subseteq 1..Steps, ledger # 1..Steps
  PROVE  Due \in (1..Steps) \ ledger
<1> DEFINE R == (1..Steps) \ ledger
<1>1. R \subseteq Nat
  BY ServerAssumption, SMT DEF ServerAssumption
<1>2. R # {}
  OBVIOUS
<1>3. PICK i \in R : \A j \in R : i <= j
  <2> HIDE DEF R
  <2> QED
    BY <1>1, <1>2, Least
<1> QED
  BY <1>3 DEF Due

LEMMA ShapedRests ==
  ASSUME Shaped, phase' = phase, ledger' = ledger, shape' = shape, files' = files,
         looked' = looked
  PROVE  Shaped'
BY DEF Shaped

LEMMA NextShaped ==
  ASSUME Shaped, Imported, Next
  PROVE  Shaped'
<1>1. CASE StartUp
  BY <1>1 DEF StartUp, Shaped
<1>2. CASE RunStep
  BY <1>2, DueIs DEF RunStep, Shaped
<1>3. CASE RecordStep
  BY <1>3, DueIs DEF RecordStep, Shaped
<1>4. CASE ShapeDone
  BY <1>4 DEF ShapeDone, Shaped
<1>5. CASE \E k \in Sources : PassOver(k)
  BY <1>5 DEF PassOver, Shaped
<1>6. CASE \E k \in Sources : ReadIn(k)
  BY <1>6 DEF ReadIn, Shaped
<1>7. CASE \E g \in Games : PutRow(g)
  BY <1>7 DEF PutRow, Shaped
<1>8. CASE SetAside
  BY <1>8 DEF SetAside, Shaped, Imported
<1>9. CASE Open
  BY <1>9 DEF Open, Shaped
<1>10. CASE Die
  BY <1>10 DEF Die, Shaped
<1>11. CASE Down
  BY <1>11 DEF Down, Shaped
<1>12. CASE Running /\ UNCHANGED boot
  BY <1>12, ShapedRests DEF boot
<1> QED
  BY <1>1, <1>2, <1>3, <1>4, <1>5, <1>6, <1>7, <1>8, <1>9, <1>10, <1>11, <1>12 DEF Next

LEMMA ImportedRests ==
  ASSUME Imported, phase' = phase, reading' = reading, looked' = looked, files' = files,
         db' = db, listed' = listed
  PROVE  Imported'
BY DEF Imported, FileOf, Table

LEMMA NextImported ==
  ASSUME StoreInv, Imported, Next
  PROVE  Imported'
<1>1. CASE StartUp \/ RunStep \/ RecordStep \/ ShapeDone
  <2>1. reading' = reading /\ phase # "files"
    BY <1>1 DEF StartUp, RunStep, RecordStep, ShapeDone
  <2> QED
    BY <2>1 DEF Imported
<1>2. CASE \E k \in Sources : PassOver(k)
  BY <1>2 DEF PassOver, Imported
<1>3. ASSUME NEW k \in Sources, ReadIn(k)
      PROVE  Imported'
  <2>0. k \notin looked /\ k \in files'
    BY <1>3 DEF ReadIn, IsNext, InTurn, Wanted
  <2>1. /\ phase' = "files" /\ reading' # <<>> /\ reading'[1] = k /\ looked' = looked
        /\ reading'[2] = IF k = "list" THEN {} ELSE FileOf(k)
        /\ listed' = IF k = "list" THEN OldList ELSE listed
    BY <1>3 DEF ReadIn
  <2>2. CASE k = "list"
    BY <2>0, <2>1, <2>2 DEF Imported, FileOf, Table
  <2>3. CASE k # "list"
    BY <2>0, <2>1, <2>3 DEF Imported
  <2> QED
    BY <2>2, <2>3
<1>4. ASSUME NEW g \in Games, PutRow(g)
      PROVE  Imported'
  <2> DEFINE k == reading[1]
  <2>1. /\ phase' = "files" /\ reading # <<>> /\ g \in reading[2] /\ looked' = looked
        /\ files' = files
        /\ reading' # <<>> /\ reading'[1] = k /\ reading'[2] = reading[2] \ {g}
        /\ db' = [db EXCEPT ![k] = With(db[k], g, OldDocs[k][g])] /\ listed' = listed
    BY <1>4 DEF PutRow
  <2>2. /\ k \in Sources \ looked /\ k \in files /\ reading[2] \subseteq FileOf(k)
        /\ FileOf(k) \ reading[2] \subseteq Table(k)
    BY <2>1 DEF Imported
  <2>5. k # "list"
    BY <2>1 DEF Imported
  <2> HIDE DEF k
  <2>6. k \in Kinds
    BY <2>2, <2>5 DEF Sources
  <2>7. db'[k] = With(db[k], g, OldDocs[k][g])
    BY <2>1, <2>6 DEF StoreInv, Answering
  <2>8. DOMAIN db'[k] = DOMAIN db[k] \cup {g}
    BY <2>7 DEF With
  <2> QED
    BY <2>1, <2>2, <2>5, <2>8 DEF Imported, FileOf, Table, k
<1>5. CASE SetAside
  BY <1>5 DEF SetAside, Imported
<1>6. CASE Open
  BY <1>6 DEF Open, Imported, Sources
<1>7. CASE Die
  BY <1>7 DEF Die, Imported
<1>8. CASE Down
  <2>1. up /\ reading' = reading
    BY <1>8 DEF Down, Crash, Stop, Ended
  <2>2. phase # "files"
    BY <2>1 DEF StoreInv, Answering
  <2> QED
    BY <2>1, <2>2 DEF Imported
<1>9. CASE Running /\ UNCHANGED boot
  <2>1. CASE reading = <<>>
    BY <1>9, <2>1 DEF boot, Imported
  <2>2. CASE reading # <<>>
    <3>1. ~up
      BY <2>2, SMTT(30) DEF Imported, StoreInv, Answering
    <3>2. db' = db /\ listed' = listed
      BY <1>9, <3>1 DEF Running, Timer, Land, Refused, Post, HandKept, RemoveGame, Take,
                        Drop, Return, GoTo, BreakTable, ListLands, disk
    <3> QED
      BY <1>9, <3>2, ImportedRests DEF boot
  <2> QED
    BY <2>1, <2>2
<1> QED
  BY <1>1, <1>2, <1>3, <1>4, <1>5, <1>6, <1>7, <1>8, <1>9 DEF Next

-----------------------------------------------------------------------------
(* Types *)

Payload == Rooms \X Backlogs

\* Every document there is belongs to a game and has its type.
StoresTyped ==
  \A k \in Kinds : \A g, d : About(store[k], db[k], g, d) => g \in Games /\ d \in Docs(k)

TalkTyped ==
  /\ live \cup listed \subseteq Games /\ closed \subseteq Rooms
  /\ seq \in Nat /\ said \in Nat /\ hands \in [Games -> Nat]
  /\ rooms \in [Rooms -> Backlogs]
  /\ \A r \in Rooms : \A i \in DOMAIN rooms[r] : rooms[r][i].seq <= seq

PagesTyped ==
  /\ at \in [Readers -> Rooms \cup {Nowhere}] /\ connected \subseteq Readers
  /\ wire \in [Readers -> Seq(Payload)] /\ seen \in [Readers -> [Rooms -> Nat]]
  /\ drawn = [p \in Readers |-> drawn[p]]
  /\ \A p \in Readers : drawn[p] = [r \in Rooms |-> drawn[p][r]]

\* A server that is down keeps nothing and sends nothing.
Silent ==
  ~up => /\ connected = {} /\ live = {} /\ (\A r \in Rooms : rooms[r] = <<>>)
         /\ (\A p \in Readers : wire[p] = <<>>)
         /\ \A k \in Kinds : store[k] = Fresh(<<>>)

Typed == StoresTyped /\ TalkTyped /\ PagesTyped /\ Silent

LEMMA LandedAbout ==
  ASSUME NEW s, NEW table, NEW ops, NEW g \in DOMAIN Landed(table, ops),
         \A op \in ops : op.doc # <<>> => About(s, table, op.game, op.doc[1])
  PROVE  About(s, table, g, Landed(table, ops)[g])
<1>1. CASE \E o \in ops : o.game = g
  <2> DEFINE o == CHOOSE x \in ops : x.game = g
  <2>1. o \in ops /\ o.game = g
    BY <1>1
  <2>2. o.doc # <<>>
    BY <2>1 DEF Landed
  <2>3. Landed(table, ops)[g] = o.doc[1]
    BY <1>1 DEF Landed
  <2> QED
    BY <2>1, <2>2, <2>3
<1>2. CASE ~\E o \in ops : o.game = g
  BY <1>2 DEF Landed, About
<1> QED
  BY <1>1, <1>2

\* What the end of the process leaves in the tables was there or on its way.
LEMMA EndedAbout ==
  ASSUME Answering, StoresStand, Down, NEW k \in Kinds, NEW g, NEW d,
         About(store'[k], db'[k], g, d)
  PROVE  About(store[k], db[k], g, d)
<1>1. PICK ops, onList, tables :
        /\ Ended(tables, onList) /\ tables[k] = Landed(db[k], ops)
        /\ ops \in SUBSET store[k].batch \/ ops = Ops(store[k])
  <2>1. CASE Crash
    <3>1. PICK c \in SUBSET store["chat"].batch, h \in SUBSET store["history"].batch :
            Ended([chat |-> Landed(db["chat"], c), history |-> Landed(db["history"], h)], listed)
      BY <2>1 DEF Crash
    <3> DEFINE a == Landed(db["chat"], c)
               b == Landed(db["history"], h)
               tables == [chat |-> a, history |-> b]
    <3>2. tables["chat"] = a /\ tables["history"] = b
      <4> HIDE DEF a, b
      <4> QED
        OBVIOUS
    <3>3. tables[k] = Landed(db[k], IF k = "chat" THEN c ELSE h)
      BY <3>2 DEF Kinds
    <3>4. (IF k = "chat" THEN c ELSE h) \in SUBSET store[k].batch
      BY DEF Kinds
    <3>5. Ended(tables, listed)
      BY <3>1
    <3> HIDE DEF tables
    <3> QED
      BY <3>3, <3>4, <3>5
  <2>2. CASE Stop
    <3> DEFINE final(j) == IF store[j].writing THEN store[j].batch ELSE Ops(store[j])
               tables == [j \in Kinds |-> Landed(db[j], final(j))]
    <3>1. Ended(tables, live)
      BY <2>2 DEF Stop
    <3>2. tables[k] = Landed(db[k], final(k))
      OBVIOUS
    <3>3. final(k) \in SUBSET store[k].batch \/ final(k) = Ops(store[k])
      OBVIOUS
    <3> HIDE DEF tables, final
    <3> QED
      BY <3>1, <3>2, <3>3
  <2> QED
    BY <2>1, <2>2 DEF Down
<1>2. db' = tables /\ store'[k] = Fresh(<<>>)
  BY <1>1 DEF Ended
<1>3. g \in DOMAIN Landed(db[k], ops) /\ d = Landed(db[k], ops)[g]
  BY <1>1, <1>2 DEF About, Fresh
<1>4. \A op \in ops : op.doc # <<>> => About(store[k], db[k], op.game, op.doc[1])
  <2>1. CASE ops \in SUBSET store[k].batch
    BY <2>1 DEF About
  <2>2. CASE ops = Ops(store[k])
    BY <2>2 DEF Ops, About
  <2> QED
    BY <1>1, <2>1, <2>2
<1> QED
  BY <1>3, <1>4, LandedAbout

\* Whom a message goes to speaks of one game.
Spoken(S, g) == S \subseteq Rooms /\ IsFiniteSet(S) /\ \A r \in S : r[1] = g

LEMMA RoomsAre ==
  ASSUME NEW r \in Rooms
  PROVE  r[1] \in Games /\ r[2] \in Tables /\ r = <<r[1], r[2]>>
BY DEF Rooms

LEMMA SpokenTo ==
  /\ \A r \in Rooms : Spoken({r}, r[1])
  /\ \A g \in Games : Spoken(({g} \X Tables) \ closed, g)
<1>1. \A r \in Rooms : Spoken({r}, r[1])
  BY FS_Singleton DEF Spoken
<1>2. ASSUME NEW g \in Games
      PROVE  Spoken(({g} \X Tables) \ closed, g)
  <2>1. IsFiniteSet({g}) /\ IsFiniteSet(Tables)
    BY FS_Singleton, ChatAssumption DEF ChatAssumption
  <2>2. IsFiniteSet({g} \X Tables)
    BY <2>1, FS_Product
  <2>3. IsFiniteSet(({g} \X Tables) \ closed)
    BY <2>2, FS_Difference
  <2> QED
    BY <2>3 DEF Spoken, Rooms
<1> QED
  BY <1>1, <1>2

\* What is said gets numbers above all that were given, and no higher than
\* the last that is.
Numbers(S, new, N) ==
  /\ N \in Nat \ {0}
  /\ \A r \in S : /\ new[r] \in Message /\ new[r].seq > seq /\ new[r].seq <= seq + N
                  /\ new[r].id > said /\ new[r].id <= said + N

Says(S, g, new, N) ==
  /\ Numbers(S, new, N)
  /\ rooms' = [r \in Rooms |-> IF r \in S THEN Append(rooms[r], new[r]) ELSE rooms[r]]
  /\ seq' = seq + N /\ said' = said + N
  /\ wire' = [p \in Readers |-> IF \E r \in S : Listens(p, r)
                                THEN Append(wire[p], <<at[p], <<new[at[p]]>>>>)
                                ELSE wire[p]]
  /\ g \in live /\ S # {} /\ up /\ S \cap closed = {}
  /\ store' = [store EXCEPT !["chat"] =
                 Recorded(store["chat"], g, [t \in Tables |-> rooms'[<<g, t>>]])]

LEMMA PostIs ==
  ASSUME seq \in Nat, said \in Nat, NEW S, NEW g, Spoken(S, g), Post(S)
  PROVE  \E new, N : Says(S, g, new, N)
<1> DEFINE nth(r) == Cardinality({q \in S : q[2] <= r[2]})
           new == [r \in S |-> Posted(r, nth(r))]
           N == Cardinality(S)
<1>1. N \in Nat /\ N # 0
  <2>1. S # {}
    BY DEF Post
  <2> QED
    BY <2>1, FS_CardinalityType, FS_EmptySet DEF Spoken
<1>2. ASSUME NEW r \in S
      PROVE  nth(r) \in 1..N
  <2> DEFINE Q == {q \in S : q[2] <= r[2]}
  <2>1. r[2] <= r[2]
    BY RoomsAre, ChatAssumption DEF Spoken, ChatAssumption
  <2>2. r \in Q /\ Q \subseteq S
    BY <2>1
  <2> HIDE DEF Q
  <2>3. IsFiniteSet(Q) /\ Cardinality(Q) <= Cardinality(S)
    BY <2>2, FS_Subset DEF Spoken
  <2>4. Cardinality(Q) \in Nat /\ Cardinality(Q) # 0
    BY <2>2, <2>3, FS_CardinalityType, FS_EmptySet
  <2>5. Cardinality(Q) \in 1..N
    BY <1>1, <2>3, <2>4
  <2> QED
    BY <2>5 DEF Q
<1>3. Numbers(S, new, N)
  <2> SUFFICES ASSUME NEW r \in S
               PROVE  /\ new[r] \in Message /\ new[r].seq > seq /\ new[r].seq <= seq + N
                      /\ new[r].id > said /\ new[r].id <= said + N
    BY <1>1 DEF Numbers
  <2> DEFINE n == nth(r)
  <2>1. new[r] = [seq |-> seq + n, id |-> said + n]
    BY DEF Posted
  <2>2. n \in 1..N
    BY <1>2
  <2> HIDE DEF n, new, N, nth
  <2> QED
    BY <1>1, <2>1, <2>2 DEF Message
<1>4. /\ rooms' = [r \in Rooms |-> IF r \in S THEN Append(rooms[r], new[r]) ELSE rooms[r]]
      /\ seq' = seq + N /\ said' = said + N
      /\ wire' = [p \in Readers |-> IF \E r \in S : Listens(p, r)
                                    THEN Append(wire[p], <<at[p], <<new[at[p]]>>>>)
                                    ELSE wire[p]]
      /\ S # {} /\ up /\ \A r \in S : r[1] \in live /\ r \notin closed
  BY DEF Post
<1>5. (CHOOSE r \in S : TRUE)[1] = g /\ g \in live
  BY <1>4 DEF Spoken
<1>6. store' = [store EXCEPT !["chat"] =
                  Recorded(store["chat"], g, [t \in Tables |-> rooms'[<<g, t>>]])]
  <2> DEFINE c == (CHOOSE r \in S : TRUE)[1]
  <2>1. store' = [store EXCEPT !["chat"] = Recorded(store["chat"], c, Snapshot(c, rooms'))]
    BY DEF Post
  <2>2. c = g
    BY <1>5
  <2> HIDE DEF c
  <2>3. store' = [store EXCEPT !["chat"] = Recorded(store["chat"], g, Snapshot(g, rooms'))]
    BY <2>1, <2>2
  <2>4. Snapshot(g, rooms') = [t \in Tables |-> rooms'[<<g, t>>]]
    BY DEF Snapshot
  <2> QED
    BY <2>3, <2>4
<1> HIDE DEF new, N
<1>7. Says(S, g, new, N)
  BY <1>3, <1>4, <1>5, <1>6 DEF Says
<1> QED
  BY <1>7

\* Saying something more in a room keeps its order.
LEMMA SaidMore ==
  ASSUME NEW ms \in Backlogs, NEW m \in Message, NEW q \in Nat,
         \A i \in DOMAIN ms : ms[i].seq <= q, m.seq > q
  PROVE  /\ Append(ms, m) \in Backlogs
         /\ Range(Append(ms, m)) = Range(ms) \cup {m}
         /\ \A i \in DOMAIN Append(ms, m) : Append(ms, m)[i].seq <= m.seq
<1>1. ms \in Seq(Message) /\ \A i, j \in DOMAIN ms : i < j => ms[i].seq < ms[j].seq
  BY DEF Backlogs
<1>2. Append(ms, m) \in Seq(Message) /\ Len(Append(ms, m)) = Len(ms) + 1
      /\ Append(ms, m)[Len(ms) + 1] = m /\ \A i \in 1..Len(ms) : Append(ms, m)[i] = ms[i]
  BY <1>1
<1>3. DOMAIN ms = 1..Len(ms) /\ DOMAIN Append(ms, m) = 1..Len(ms) + 1 /\ Len(ms) \in Nat
  BY <1>1, <1>2
<1>4. \A i \in DOMAIN ms : ms[i].seq \in Nat
  <2>1. \A i \in DOMAIN ms : ms[i] \in Message
    BY <1>1
  <2> QED
    BY <2>1 DEF Message
<1>5. m.seq \in Nat
  BY DEF Message
<1>6. ASSUME NEW i \in DOMAIN Append(ms, m), NEW j \in DOMAIN Append(ms, m), i < j
      PROVE  Append(ms, m)[i].seq < Append(ms, m)[j].seq
  <2>1. i \in 1..Len(ms)
    BY <1>3, <1>6
  <2>2. CASE j \in 1..Len(ms)
    BY <1>1, <1>2, <1>3, <1>6, <2>1, <2>2
  <2>3. CASE j = Len(ms) + 1
    BY <1>2, <1>3, <1>4, <1>5, <2>1, <2>3
  <2> QED
    BY <1>3, <2>2, <2>3
<1>7. Append(ms, m) \in Backlogs
  BY <1>2, <1>6 DEF Backlogs
<1>8. Range(Append(ms, m)) = Range(ms) \cup {m}
  <2> DEFINE a == Append(ms, m)
  <2>1. /\ DOMAIN a = DOMAIN ms \cup {Len(ms) + 1} /\ a[Len(ms) + 1] = m
        /\ \A i \in DOMAIN ms : a[i] = ms[i]
    BY <1>2, <1>3
  <2> HIDE DEF a
  <2>2. {a[i] : i \in DOMAIN a} = {ms[i] : i \in DOMAIN ms} \cup {m}
    BY <2>1
  <2> QED
    BY <2>2 DEF Range, a
<1>9. \A i \in DOMAIN Append(ms, m) : Append(ms, m)[i].seq <= m.seq
  BY <1>2, <1>3, <1>4, <1>5
<1> QED
  BY <1>7, <1>8, <1>9

LEMMA OneMessage ==
  ASSUME NEW m \in Message
  PROVE  <<m>> \in Backlogs /\ Range(<<m>>) = {m}
<1>1. DOMAIN <<m>> = {1} /\ <<m>>[1] = m /\ <<m>> \in Seq(Message)
  OBVIOUS
<1>2. <<m>> \in Backlogs
  BY <1>1 DEF Backlogs
<1>3. {<<m>>[i] : i \in DOMAIN <<m>>} = {m}
  BY <1>1
<1> QED
  BY <1>2, <1>3 DEF Range

LEMMA NothingSaid ==
  <<>> \in Backlogs /\ DOMAIN (<<>>) = {} /\ Range(<<>>) = {}
BY DEF Backlogs, Range

LEMMA TalkRests ==
  ASSUME TalkTyped, UNCHANGED talk, listed' = listed, said' = said
  PROVE  TalkTyped'
BY DEF TalkTyped, talk

LEMMA PagesRest ==
  ASSUME PagesTyped, UNCHANGED pages
  PROVE  PagesTyped'
BY DEF PagesTyped, pages

LEMMA PostTyped ==
  ASSUME StoreInv, Typed, NEW S, NEW g, Spoken(S, g), Post(S), phase' = phase
  PROVE  StoresTyped' /\ TalkTyped' /\ PagesTyped'
<1>0. PICK new, N : Says(S, g, new, N)
  <2>1. seq \in Nat /\ said \in Nat
    BY DEF Typed, TalkTyped
  <2> QED
    BY <2>1, PostIs
<1>1. /\ Numbers(S, new, N)
      /\ rooms' = [r \in Rooms |-> IF r \in S THEN Append(rooms[r], new[r]) ELSE rooms[r]]
      /\ seq' = seq + N /\ said' = said + N
      /\ wire' = [p \in Readers |-> IF \E r \in S : Listens(p, r)
                                    THEN Append(wire[p], <<at[p], <<new[at[p]]>>>>)
                                    ELSE wire[p]]
      /\ g \in live /\ S # {} /\ up /\ S \cap closed = {}
      /\ store' = [store EXCEPT !["chat"] =
                     Recorded(store["chat"], g, [t \in Tables |-> rooms'[<<g, t>>]])]
  BY <1>0 DEF Says
<1>2. /\ live' = live /\ listed' = listed /\ closed' = closed /\ hands' = hands
      /\ at' = at /\ connected' = connected /\ seen' = seen /\ drawn' = drawn
      /\ db' = db /\ up' = up
  BY DEF Post, disk
<1>3. ASSUME NEW r \in Rooms
      PROVE  /\ rooms'[r] \in Backlogs
             /\ \A i \in DOMAIN rooms'[r] : rooms'[r][i].seq <= seq'
  <2>1. /\ rooms[r] \in Backlogs /\ seq \in Nat
        /\ \A i \in DOMAIN rooms[r] : rooms[r][i].seq <= seq
    BY DEF Typed, TalkTyped
  <2>2. \A i \in DOMAIN rooms[r] : rooms[r][i].seq \in Nat
    <3>1. \A i \in DOMAIN rooms[r] : rooms[r][i] \in Message
      BY <2>1 DEF Backlogs
    <3> QED
      BY <3>1 DEF Message
  <2>3. CASE r \in S
    <3>1. /\ new[r] \in Message /\ new[r].seq > seq /\ new[r].seq <= seq + N
          /\ N \in Nat /\ seq' = seq + N
      BY <1>1, <2>3 DEF Numbers
    <3>2. rooms'[r] = Append(rooms[r], new[r])
      BY <1>1, <2>3
    <3>3. /\ Append(rooms[r], new[r]) \in Backlogs
          /\ \A i \in DOMAIN Append(rooms[r], new[r]) :
               Append(rooms[r], new[r])[i].seq <= new[r].seq
      BY <2>1, <3>1, SaidMore
    <3>4. \A i \in DOMAIN rooms'[r] : rooms'[r][i] \in Message
      BY <3>2, <3>3 DEF Backlogs
    <3>5. \A i \in DOMAIN rooms'[r] : rooms'[r][i].seq \in Nat
      BY <3>4 DEF Message
    <3>6. new[r].seq \in Nat
      BY <3>1 DEF Message
    <3> QED
      BY <2>1, <3>1, <3>2, <3>3, <3>5, <3>6
  <2>4. CASE r \notin S
    <3>1. rooms'[r] = rooms[r] /\ N \in Nat /\ seq' = seq + N
      BY <1>1, <2>4 DEF Numbers
    <3>2. ASSUME NEW i \in DOMAIN rooms[r]
          PROVE  rooms[r][i].seq <= seq + N
      BY <2>1, <2>2, <3>1
    <3> QED
      BY <2>1, <3>1, <3>2
  <2> QED
    BY <2>3, <2>4
<1>4. rooms' \in [Rooms -> Backlogs]
  BY <1>1, <1>3
<1>5. TalkTyped'
  <2>1. seq' \in Nat /\ said' \in Nat
    BY <1>1 DEF Typed, TalkTyped, Numbers
  <2> QED
    BY <1>2, <1>3, <1>4, <2>1 DEF Typed, TalkTyped
<1>6. PagesTyped'
  <2>1. ASSUME NEW p \in Readers
        PROVE  wire'[p] \in Seq(Payload)
    <3>1. wire[p] \in Seq(Payload)
      BY DEF Typed, PagesTyped
    <3>2. CASE \E r \in S : Listens(p, r)
      <4>1. at[p] \in S /\ at[p] \in Rooms
        BY <3>2 DEF Listens, Spoken
      <4>2. new[at[p]] \in Message
        BY <1>1, <4>1 DEF Numbers
      <4>3. <<at[p], <<new[at[p]]>>>> \in Payload
        BY <4>1, <4>2, OneMessage DEF Payload
      <4>4. wire'[p] = Append(wire[p], <<at[p], <<new[at[p]]>>>>)
        BY <1>1, <3>2
      <4> QED
        BY <3>1, <4>3, <4>4
    <3>3. CASE ~\E r \in S : Listens(p, r)
      BY <1>1, <3>1, <3>3
    <3> QED
      BY <3>2, <3>3
  <2>2. wire' \in [Readers -> Seq(Payload)]
    BY <1>1, <2>1
  <2> QED
    BY <1>2, <2>2 DEF Typed, PagesTyped
<1>7. StoresTyped'
  <2> DEFINE doc == [t \in Tables |-> rooms'[<<g, t>>]]
  <2>1. g \in Games
    BY <1>1 DEF Typed, TalkTyped
  <2>2. doc \in Docs("chat")
    BY <1>4, <2>1 DEF Docs, Rooms
  <2> HIDE DEF doc
  <2>3. "chat" \in Kinds
    BY DEF Kinds
  <2>4. Noted("chat", g, doc)
    <3>1. store' = [store EXCEPT !["chat"] = Recorded(store["chat"], g, doc)]
      BY <1>1 DEF doc
    <3> QED
      BY <1>1, <1>2, <2>3, <3>1, NotedInv
  <2> QED
    BY <2>1, <2>2, <2>4 DEF Typed, StoresTyped, Noted
<1> QED
  BY <1>5, <1>6, <1>7

LEMMA HandKeptTyped ==
  ASSUME StoreInv, Typed, NEW g \in Games, HandKept(g), phase' = phase
  PROVE  StoresTyped' /\ TalkTyped' /\ PagesTyped'
<1>1. /\ up /\ g \in live /\ hands' = [hands EXCEPT ![g] = hands[g] + 1]
      /\ store' = [store EXCEPT !["history"] = Recorded(store["history"], g, hands[g] + 1)]
      /\ live' = live /\ listed' = listed /\ closed' = closed /\ rooms' = rooms
      /\ seq' = seq /\ said' = said /\ UNCHANGED pages /\ db' = db /\ up' = up
  BY DEF HandKept, disk
<1>2. hands[g] \in Nat
  BY DEF Typed, TalkTyped
<1>3. TalkTyped'
  BY <1>1, <1>2 DEF Typed, TalkTyped
<1>4. PagesTyped'
  BY <1>1, PagesRest DEF Typed
<1>5. "history" \in Kinds
  BY DEF Kinds
<1>6. Noted("history", g, hands[g] + 1)
  BY <1>1, <1>5, NotedInv
<1>7. hands[g] + 1 \in Docs("history")
  BY <1>2 DEF Docs
<1>8. StoresTyped'
  BY <1>6, <1>7 DEF Typed, StoresTyped, Noted
<1> QED
  BY <1>3, <1>4, <1>8

LEMMA RemoveGameTyped ==
  ASSUME StoreInv, Typed, NEW g \in Games, RemoveGame(g), phase' = phase
  PROVE  StoresTyped' /\ TalkTyped' /\ PagesTyped'
<1>1. /\ live' = live \ {g} /\ listed' = listed /\ closed' = closed
      /\ rooms' = [r \in Rooms |-> IF r[1] = g THEN <<>> ELSE rooms[r]]
      /\ at' = [p \in Readers |-> IF at[p] # Nowhere /\ at[p][1] = g THEN Nowhere ELSE at[p]]
      /\ seq' = seq /\ said' = said /\ hands' = hands
      /\ connected' = connected /\ wire' = wire /\ seen' = seen /\ drawn' = drawn
  BY DEF RemoveGame, disk
<1>2. hands[g] \in Docs("history")
  BY DEF Typed, TalkTyped, Docs
<1>3. StoresTyped'
  <2>1. Noted("history", g, hands[g])
    BY RemoveGameInv
  <2> QED
    BY <1>2, <2>1 DEF Typed, StoresTyped, Noted
<1>4. TalkTyped'
  BY <1>1, NothingSaid DEF Typed, TalkTyped
<1>5. PagesTyped'
  BY <1>1 DEF Typed, PagesTyped
<1> QED
  BY <1>3, <1>4, <1>5

LEMMA BreakTableTyped ==
  ASSUME Typed, NEW r \in Rooms, NEW to \in Rooms, BreakTable(r, to)
  PROVE  StoresTyped' /\ TalkTyped' /\ PagesTyped'
<1>1. /\ live' = live /\ listed' = listed /\ closed' = closed \cup {r}
      /\ rooms' = [rooms EXCEPT ![r] = <<>>]
      /\ at' = [p \in Readers |-> IF at[p] = r THEN to ELSE at[p]]
      /\ wire' = [p \in Readers |-> IF at[p] = r /\ p \in Seated
                                    THEN History(wire[p], p, to) ELSE wire[p]]
      /\ seq' = seq /\ said' = said /\ hands' = hands /\ store' = store /\ db' = db
      /\ connected' = connected /\ seen' = seen /\ drawn' = drawn
  BY DEF BreakTable, disk
<1>2. StoresTyped'
  BY <1>1 DEF Typed, StoresTyped
<1>3. TalkTyped'
  BY <1>1, NothingSaid DEF Typed, TalkTyped
<1>4. \A p \in Readers : History(wire[p], p, to) \in Seq(Payload)
  <2>1. <<to, rooms[to]>> \in Payload
    BY DEF Payload, Typed, TalkTyped
  <2> QED
    BY <2>1 DEF History, Typed, PagesTyped
<1>5. PagesTyped'
  BY <1>1, <1>4 DEF Typed, PagesTyped
<1> QED
  BY <1>2, <1>3, <1>5

LEMMA TakeTyped ==
  ASSUME Typed, NEW p \in Readers, Take(p)
  PROVE  StoresTyped' /\ TalkTyped' /\ PagesTyped'
<1> DEFINE r == Head(wire[p])[1]
           msgs == Head(wire[p])[2]
           I == Unseen(p, r, msgs)
           m == Max({seen[p][r]} \cup {msgs[i].seq : i \in I})
           w == WithDrawn(drawn[p][r], msgs, I)
<1>1. /\ wire[p] # <<>> /\ wire' = [wire EXCEPT ![p] = Tail(wire[p])]
      /\ drawn' = [drawn EXCEPT ![p][r] = w]
      /\ seen' = [seen EXCEPT ![p][r] = m]
      /\ UNCHANGED talk /\ store' = store /\ db' = db /\ listed' = listed /\ said' = said
      /\ at' = at /\ connected' = connected
  BY DEF Take, disk, spent
<1>2. wire[p] \in Seq(Payload) /\ r \in Rooms /\ msgs \in Backlogs
  BY <1>1 DEF Typed, PagesTyped, Payload
<1>3. seen[p][r] \in Nat
  BY <1>2 DEF Typed, PagesTyped
<1>4. m \in Nat
  <2>1. I = {i \in DOMAIN msgs : msgs[i].seq > seen[p][r]}
    BY DEF Unseen
  <2> HIDE DEF I, msgs, r
  <2> QED
    BY <1>2, <1>3, <2>1, MarkIs
<1> HIDE DEF m, w, r, msgs, I
<1>5. PagesTyped'
  <2>1. wire' \in [Readers -> Seq(Payload)]
    <3>1. Tail(wire[p]) \in Seq(Payload)
      BY <1>1, <1>2
    <3> HIDE DEF Payload
    <3> QED
      BY <1>1, <3>1 DEF Typed, PagesTyped
  <2>2. seen' \in [Readers -> [Rooms -> Nat]]
    BY <1>1, <1>2, <1>4 DEF Typed, PagesTyped
  <2>3. /\ drawn' = [q \in Readers |-> drawn'[q]]
        /\ \A q \in Readers : drawn'[q] = [a \in Rooms |-> drawn'[q][a]]
    BY <1>1, <1>2 DEF Typed, PagesTyped
  <2> QED
    BY <1>1, <2>1, <2>2, <2>3 DEF Typed, PagesTyped
<1>6. StoresTyped'
  BY <1>1 DEF Typed, StoresTyped
<1> QED
  BY <1>1, <1>5, <1>6, TalkRests DEF Typed

LEMMA BacklogTyped ==
  ASSUME Typed, NEW r \in Rooms
  PROVE  <<r, rooms[r]>> \in Payload
BY DEF Payload, Typed, TalkTyped

LEMMA GoToTyped ==
  ASSUME Typed, NEW p \in Readers, NEW r \in Rooms, GoTo(p, r)
  PROVE  StoresTyped' /\ TalkTyped' /\ PagesTyped'
<1>1. /\ at' = [at EXCEPT ![p] = r] /\ wire' = [wire EXCEPT ![p] = History(wire[p], p, r)]
      /\ UNCHANGED talk /\ store' = store /\ db' = db /\ listed' = listed /\ said' = said
      /\ connected' = connected /\ seen' = seen /\ drawn' = drawn
  BY DEF GoTo, disk
<1>2. History(wire[p], p, r) \in Seq(Payload)
  BY BacklogTyped DEF History, Typed, PagesTyped
<1>3. PagesTyped'
  BY <1>1, <1>2 DEF Typed, PagesTyped
<1>4. StoresTyped'
  BY <1>1 DEF Typed, StoresTyped
<1> QED
  BY <1>1, <1>3, <1>4, TalkRests DEF Typed

LEMMA DropTyped ==
  ASSUME Typed, NEW p \in Readers, Drop(p)
  PROVE  StoresTyped' /\ TalkTyped' /\ PagesTyped'
<1>1. /\ UNCHANGED talk /\ store' = store /\ db' = db /\ listed' = listed /\ said' = said
      /\ at' = at /\ wire' = wire /\ seen' = seen /\ drawn' = drawn
      /\ connected' = connected \ {p}
  BY DEF Drop, disk
<1>2. PagesTyped'
  BY <1>1 DEF Typed, PagesTyped
<1>3. StoresTyped'
  BY <1>1 DEF Typed, StoresTyped
<1> QED
  BY <1>1, <1>2, <1>3, TalkRests DEF Typed

LEMMA ReturnTyped ==
  ASSUME Typed, NEW p \in Readers, Return(p)
  PROVE  StoresTyped' /\ TalkTyped' /\ PagesTyped'
<1> DEFINE b == <<at[p], rooms[at[p]]>>
<1>1. /\ UNCHANGED talk /\ store' = store /\ db' = db /\ listed' = listed /\ said' = said
      /\ at' = at /\ connected' = connected \cup {p} /\ at[p] # Nowhere
      /\ \/ /\ \E missed \in {wire[p], <<>>} : wire' = [wire EXCEPT ![p] = Append(missed, b)]
            /\ seen' = seen /\ drawn' = drawn
         \/ /\ wire' = [wire EXCEPT ![p] = <<b>>]
            /\ seen' = [seen EXCEPT ![p] = [r \in Rooms |-> 0]]
            /\ drawn' = [drawn EXCEPT ![p] = [r \in Rooms |-> [d \in {} |-> 0]]]
  BY DEF Return, disk, spent
<1>2. b \in Payload
  <2>1. at[p] \in Rooms
    BY <1>1 DEF Typed, PagesTyped
  <2> QED
    BY <2>1, BacklogTyped
<1> HIDE DEF b
<1>3. wire[p] \in Seq(Payload) /\ <<>> \in Seq(Payload) /\ <<b>> \in Seq(Payload)
  BY <1>2 DEF Typed, PagesTyped
<1>4. \A missed \in {wire[p], <<>>} : Append(missed, b) \in Seq(Payload)
  <2>1. Append(wire[p], b) \in Seq(Payload)
    BY <1>2, <1>3
  <2>2. Append(<<>>, b) \in Seq(Payload)
    BY <1>2, <1>3
  <2> QED
    BY <2>1, <2>2
<1>5. PagesTyped'
  <2>1. wire' \in [Readers -> Seq(Payload)]
    BY <1>1, <1>3, <1>4 DEF Typed, PagesTyped
  <2>2. seen' \in [Readers -> [Rooms -> Nat]]
    BY <1>1 DEF Typed, PagesTyped
  <2>3. /\ drawn' = [q \in Readers |-> drawn'[q]]
        /\ \A q \in Readers : drawn'[q] = [r \in Rooms |-> drawn'[q][r]]
    BY <1>1, ZenonT(60) DEF Typed, PagesTyped
  <2> QED
    BY <1>1, <2>1, <2>2, <2>3 DEF Typed, PagesTyped
<1>6. StoresTyped'
  BY <1>1 DEF Typed, StoresTyped
<1> QED
  BY <1>1, <1>5, <1>6, TalkRests DEF Typed

\* Of finitely many numbers none is above them all.
LEMMA Bounded ==
  ASSUME NEW D, IsFiniteSet(D), NEW b \in [D -> Nat]
  PROVE  \E n \in Nat : \A r \in D : b[r] <= n
<1> DEFINE k == Cardinality(D)
<1>1. k \in Nat /\ ExistsBijection(1..k, D)
  BY FS_CardinalityType
<1>2. PICK f \in [1..k -> D] : \A r \in D : \E i \in 1..k : f[i] = r
  BY <1>1 DEF ExistsBijection, Bijection, Surjection
<1> HIDE DEF k
<1> DEFINE Below(j, n) == \A i \in 1..j : b[f[i]] <= n
           T == {j \in 0..k : \A n \in Nat : ~Below(j, n)}
<1>3. ASSUME T # {}
      PROVE  FALSE
  <2>1. T \subseteq Nat
    BY <1>1
  <2>2. PICK j \in T : \A i \in T : j <= i
    <3> HIDE DEF T
    <3> QED
      BY <1>3, <2>1, Least
  <2>3. j # 0
    <3>1. Below(0, 0)
      OBVIOUS
    <3> QED
      BY <2>2, <3>1
  <2>4. j \in 1..k /\ j - 1 \in 0..k
    BY <1>1, <2>2, <2>3
  <2>5. PICK n \in Nat : Below(j - 1, n)
    <3>1. j - 1 \notin T
      <4> HIDE DEF T
      <4> QED
        BY <2>1, <2>2
    <3> QED
      BY <2>4, <3>1
  <2>6. b[f[j]] \in Nat
    BY <1>2, <2>4
  <2>7. CASE b[f[j]] <= n
    <3>1. Below(j, n)
      <4> SUFFICES ASSUME NEW i \in 1..j
                   PROVE  b[f[i]] <= n
        OBVIOUS
      <4>1. i = j \/ i \in 1..(j - 1)
        BY <2>4
      <4> QED
        BY <2>5, <2>7, <4>1
    <3> QED
      BY <2>2, <3>1
  <2>8. CASE ~(b[f[j]] <= n)
    <3>1. Below(j, b[f[j]])
      <4> SUFFICES ASSUME NEW i \in 1..j
                   PROVE  b[f[i]] <= b[f[j]]
        OBVIOUS
      <4>1. i = j \/ i \in 1..(j - 1)
        BY <2>4
      <4>2. CASE i = j
        BY <2>6, <4>2, SMTT(30)
      <4>3. CASE i \in 1..(j - 1)
        <5>1. b[f[i]] <= n
          BY <2>5, <4>3
        <5>2. b[f[i]] \in Nat
          BY <1>1, <1>2, <2>4, <4>3
        <5> HIDE DEF Below
        <5> QED
          BY <2>6, <2>8, <5>1, <5>2
      <4> QED
        BY <4>1, <4>2, <4>3
    <3> HIDE DEF Below
    <3> QED
      BY <2>2, <2>6, <3>1
  <2> QED
    BY <2>7, <2>8
<1>4. k \notin T /\ k \in 0..k
  <2>1. k \in 0..k
    BY <1>1
  <2> HIDE DEF T
  <2> QED
    BY <1>3, <2>1
<1>5. PICK n \in Nat : Below(k, n)
  BY <1>4
<1>6. \A r \in D : b[r] <= n
  BY <1>2, <1>5
<1> QED
  BY <1>6

\* The numbers of a boot go on above all that the table keeps.
LEMMA SeqAfterIs ==
  ASSUME NEW docs, DOMAIN docs \subseteq Games, \A g \in DOMAIN docs : docs[g] \in Docs("chat")
  PROVE  /\ SeqAfter(docs) \in Nat
         /\ \A g \in DOMAIN docs, t \in Tables : \A i \in DOMAIN docs[g][t] :
              docs[g][t][i].seq <= SeqAfter(docs)
<1> DEFINE D == (DOMAIN docs) \X Tables
           ms(r) == docs[r[1]][r[2]]
           U == UNION {Range(docs[r[1]][r[2]]) : r \in D}
           S == {0} \cup {m.seq : m \in U}
<1>1. IsFiniteSet(D)
  <2>1. IsFiniteSet(DOMAIN docs) /\ IsFiniteSet(Tables)
    BY ChatAssumption, FS_Subset DEF ChatAssumption
  <2> QED
    BY <2>1, FS_Product
<1>2. \A r \in D : ms(r) \in Backlogs
  BY DEF Docs
<1>3. \A r \in D : \E n \in Nat : \A i \in DOMAIN ms(r) : ms(r)[i].seq <= n
  BY <1>2, SeqsAre
<1> DEFINE b == [r \in D |-> CHOOSE n \in Nat : \A i \in DOMAIN ms(r) : ms(r)[i].seq <= n]
<1>4. b \in [D -> Nat] /\ \A r \in D : \A i \in DOMAIN ms(r) : ms(r)[i].seq <= b[r]
  BY <1>3
<1>5. PICK n \in Nat : \A r \in D : b[r] <= n
  <2> HIDE DEF b, D
  <2> QED
    BY <1>1, <1>4, Bounded
<1>6. \A r \in D : \A i \in DOMAIN ms(r) : ms(r)[i].seq \in Nat /\ ms(r)[i].seq <= n
  <2> SUFFICES ASSUME NEW r \in D, NEW i \in DOMAIN ms(r)
               PROVE  ms(r)[i].seq \in Nat /\ ms(r)[i].seq <= n
    OBVIOUS
  <2>1. ms(r)[i].seq \in Nat
    BY <1>2, SeqsAre
  <2>2. ms(r)[i].seq <= b[r] /\ b[r] \in Nat /\ b[r] <= n
    BY <1>4, <1>5, SMTT(30)
  <2> HIDE DEF b, ms, D
  <2> QED
    BY <2>1, <2>2
<1> HIDE DEF b
<1>7. \A r \in D : \A i \in DOMAIN ms(r) : ms(r)[i].seq \in S
  BY DEF Range
<1>8. S \subseteq 0..n
  <2> SUFFICES ASSUME NEW r \in D, NEW i \in DOMAIN ms(r)
               PROVE  ms(r)[i].seq \in 0..n
    BY DEF Range
  <2> QED
    BY <1>6
<1>9. 0 \in S
  OBVIOUS
<1>10. SeqAfter(docs) = Max(S)
  BY DEF SeqAfter
<1> HIDE DEF S
<1>11. Max(S) \in S /\ \A x \in S : x <= Max(S)
  BY <1>8, <1>9, Highest
<1>12. \A g \in DOMAIN docs, t \in Tables : <<g, t>> \in D /\ ms(<<g, t>>) = docs[g][t]
  OBVIOUS
<1> HIDE DEF ms, D
<1>13. SeqAfter(docs) \in Nat
  <2>1. Max(S) \in 0..n
    BY <1>8, <1>11
  <2> QED
    BY <1>10, <2>1
<1>14. \A r \in D : \A i \in DOMAIN ms(r) : ms(r)[i].seq <= SeqAfter(docs)
  BY <1>7, <1>10, <1>11
<1> QED
  BY <1>12, <1>13, <1>14

\* Nothing but the boot's own book-keeping moves.
LEMMA TypedRests ==
  ASSUME Typed, UNCHANGED talk, UNCHANGED pages, store' = store, db' = db, up' = up,
         said' = said, listed' \subseteq Games
  PROVE  Typed'
<1>1. StoresTyped'
  BY DEF Typed, StoresTyped
<1>2. TalkTyped'
  BY DEF Typed, TalkTyped, talk
<1>3. PagesTyped' /\ Silent'
  BY PagesRest DEF Typed, Silent, talk, pages
<1> QED
  BY <1>1, <1>2, <1>3 DEF Typed

LEMMA FewerTyped ==
  ASSUME StoresTyped, Fewer
  PROVE  StoresTyped'
BY DEF StoresTyped, Fewer

LEMMA RunningTyped ==
  ASSUME StoreInv, Typed, Running, phase' = phase
  PROVE  Typed'
<1>1. up /\ up' = up
  BY ZenonT(60) DEF Running, Timer, Land, Refused, Post, HandKept, RemoveGame, Take, Drop, Return,
         GoTo, BreakTable, ListLands, Typed, Silent
<1>2. CASE \E k \in Kinds : Timer(k) \/ \E op \in store[k].batch \cup store[k].stray :
             Land(k, op) \/ Refused(k, op)
  <2>1. Fewer
    BY <1>2, TimerInv, LandInv, RefusedInv
  <2>2. UNCHANGED talk /\ UNCHANGED pages /\ listed' = listed /\ said' = said
    BY <1>2 DEF Timer, Land, Refused, disk, spent
  <2> QED
    BY <1>1, <2>1, <2>2, FewerTyped, TalkRests, PagesRest DEF Typed, Silent
<1>3. CASE \E r \in Rooms : Post({r})
  BY <1>1, <1>3, SpokenTo, PostTyped DEF Typed, Silent
<1>4. CASE \E g \in Games : Post(({g} \X Tables) \ closed)
  BY <1>1, <1>4, SpokenTo, PostTyped DEF Typed, Silent
<1>5. CASE \E g \in Games : HandKept(g) \/ RemoveGame(g)
  BY <1>1, <1>5, HandKeptTyped, RemoveGameTyped DEF Typed, Silent
<1>6. CASE \E p \in Readers : Take(p) \/ Drop(p) \/ Return(p) \/ \E r \in Rooms : GoTo(p, r)
  BY <1>1, <1>6, TakeTyped, DropTyped, ReturnTyped, GoToTyped DEF Typed, Silent
<1>7. CASE \E r \in Rooms, to \in Rooms : BreakTable(r, to)
  BY <1>1, <1>7, BreakTableTyped DEF Typed, Silent
<1>8. CASE ListLands
  BY <1>8, TypedRests DEF ListLands, Typed, TalkTyped, spent
<1> QED
  BY <1>2, <1>3, <1>4, <1>5, <1>6, <1>7, <1>8 DEF Running

LEMMA DownTyped ==
  ASSUME StoreInv, Typed, Down
  PROVE  Typed'
<1>1. PICK tables, onList : Ended(tables, onList) /\ onList \in {listed, live}
  BY DEF Down, Crash, Stop
<1>2. /\ up /\ up' = FALSE /\ listed' = onList /\ live' = {} /\ seq' = 0
      /\ rooms' = [r \in Rooms |-> <<>>] /\ hands' = [g \in Games |-> 0]
      /\ store' = [k \in Kinds |-> Fresh(<<>>)]
      /\ connected' = {} /\ wire' = [p \in Readers |-> <<>>]
      /\ closed' = closed /\ at' = at /\ seen' = seen /\ drawn' = drawn /\ said' = said
  BY <1>1 DEF Ended
<1>3. StoresTyped'
  BY <1>2, EndedAbout DEF StoreInv, Typed, StoresTyped
<1>4. TalkTyped'
  BY <1>1, <1>2, NothingSaid DEF Typed, TalkTyped
<1>5. PagesTyped'
  BY <1>2 DEF Typed, PagesTyped
<1>6. Silent'
  BY <1>2 DEF Silent
<1> QED
  BY <1>3, <1>4, <1>5, <1>6 DEF Typed

\* What the stores hold at the end of a boot was in the tables.
LEMMA OpenAbout ==
  ASSUME NEW k \in Kinds, NEW g, NEW d, Open, About(store'[k], db'[k], g, d)
  PROVE  db' = db /\ g \in DOMAIN db[k] /\ d = db[k][g]
<1> DEFINE c == SweptAtBoot(Fresh(db["chat"]), listed)
           f == Fresh(db["chat"])
<1>1. store' = [chat |-> c, history |-> Fresh(<<>>)] /\ db' = db
  BY DEF Open, Boot, disk
<1>2. CASE k = "chat"
  <2>1. /\ Stands(f, db["chat"])
        /\ \A h, e : About(f, db["chat"], h, e) => h \in DOMAIN db["chat"] /\ e = db["chat"][h]
    BY FreshStands
  <2>2. c = IF DOMAIN f.held \subseteq listed THEN f ELSE Removed(f, DOMAIN f.held \ listed)
    BY DEF SweptAtBoot
  <2> HIDE DEF f, c
  <2>3. \A h, e : About(c, db["chat"], h, e) => About(f, db["chat"], h, e)
    BY <2>1, <2>2, RemovedStands
  <2>4. About(c, db["chat"], g, d)
    BY <1>1, <1>2
  <2> QED
    BY <1>1, <1>2, <2>1, <2>3, <2>4
<1>3. CASE k = "history"
  BY <1>1, <1>3 DEF About, Fresh
<1> QED
  BY <1>2, <1>3 DEF Kinds

LEMMA OpenTyped ==
  ASSUME StoreInv, Typed, Open
  PROVE  Typed'
<1> DEFINE docs == Restrict(db["chat"], DOMAIN db["chat"] \cap listed)
<1>1. /\ up' = TRUE /\ live' = listed /\ listed' = listed /\ closed' \in {closed, {}}
      /\ rooms' = [r \in Rooms |-> IF r[1] \in DOMAIN docs THEN docs[r[1]][r[2]] ELSE <<>>]
      /\ seq' = SeqAfter(docs) /\ said' = said
      /\ hands' = [g \in Games |-> IF g \in listed \cap DOMAIN db["history"]
                                   THEN db["history"][g] ELSE 0]
      /\ at' = [p \in Readers |-> IF at[p] # Nowhere /\ at[p][1] \in listed
                                  THEN at[p] ELSE Nowhere]
      /\ connected' = connected /\ wire' = wire /\ seen' = seen /\ drawn' = drawn
  BY DEF Open, Boot, disk, spent
<1>2. \A k \in Kinds : \A g \in DOMAIN db[k] : g \in Games /\ db[k][g] \in Docs(k)
  BY DEF Typed, StoresTyped, About
<1>3. DOMAIN docs \subseteq Games /\ \A g \in DOMAIN docs : docs[g] \in Docs("chat")
  BY <1>2 DEF Restrict, Kinds
<1> HIDE DEF docs
<1>4. StoresTyped'
  <2> SUFFICES ASSUME NEW k \in Kinds, NEW g, NEW d, About(store'[k], db'[k], g, d)
               PROVE  g \in Games /\ d \in Docs(k)
    BY DEF StoresTyped
  <2> QED
    BY <1>2, OpenAbout
<1>5. \A r \in Rooms : r[1] \in DOMAIN docs => docs[r[1]][r[2]] \in Backlogs
  BY <1>3, RoomsAre DEF Docs
<1>6. SeqAfter(docs) \in Nat
  BY <1>3, SeqAfterIs
<1>7. \A r \in Rooms : rooms'[r] \in Backlogs /\ \A i \in DOMAIN rooms'[r] : rooms'[r][i].seq <= seq'
  <2> SUFFICES ASSUME NEW r \in Rooms
               PROVE  rooms'[r] \in Backlogs /\ \A i \in DOMAIN rooms'[r] : rooms'[r][i].seq <= seq'
    OBVIOUS
  <2>1. CASE r[1] \in DOMAIN docs
    BY <1>1, <1>3, <1>5, <2>1, RoomsAre, SeqAfterIs
  <2>2. CASE r[1] \notin DOMAIN docs
    BY <1>1, <2>2, NothingSaid
  <2> QED
    BY <2>1, <2>2
<1>8. hands' \in [Games -> Nat]
  BY <1>1, <1>2 DEF Docs, Kinds
<1>9. TalkTyped'
  <2>1. rooms' \in [Rooms -> Backlogs]
    BY <1>1, <1>7
  <2> QED
    BY <1>1, <1>6, <1>7, <1>8, <2>1 DEF Typed, TalkTyped
<1>10. PagesTyped' /\ Silent'
  BY <1>1 DEF Typed, PagesTyped, Silent
<1> QED
  BY <1>4, <1>9, <1>10 DEF Typed

\* A row of an old file is put in its table.
LEMMA PutRowAbout ==
  ASSUME StoreInv, Imported, NEW g \in Games, PutRow(g)
  PROVE  /\ reading[1] \in Kinds /\ reading[1] \in files /\ g \in DOMAIN OldDocs[reading[1]]
         /\ Noted(reading[1], g, OldDocs[reading[1]][g])
<1> DEFINE k == reading[1]
           doc == OldDocs[k][g]
<1>1. /\ reading # <<>> /\ g \in reading[2] /\ store' = store
      /\ db' = [db EXCEPT ![k] = With(db[k], g, doc)]
  BY DEF PutRow
<1>2. /\ k \in Sources /\ k # "list" /\ reading[2] \subseteq FileOf(k) /\ k \in files
  BY <1>1 DEF Imported
<1>3. k \in Kinds /\ g \in DOMAIN OldDocs[k]
  BY <1>1, <1>2 DEF Sources, FileOf
<1> HIDE DEF k, doc
<1>4. db'[k] = With(db[k], g, doc) /\ \A j \in Kinds \ {k} : db'[j] = db[j]
  BY <1>1, <1>3 DEF StoreInv, Answering
<1>5. Noted(k, g, doc)
  BY <1>1, <1>4 DEF Noted, About, With
<1> QED
  BY <1>2, <1>3, <1>5 DEF k, doc

LEMMA PutRowTyped ==
  ASSUME StoreInv, Imported, Typed, NEW g \in Games, PutRow(g)
  PROVE  Typed'
<1>1. /\ UNCHANGED talk /\ UNCHANGED pages /\ store' = store /\ up' = up /\ said' = said
      /\ listed' = listed
  BY DEF PutRow, spent
<1>2. OldDocs[reading[1]][g] \in Docs(reading[1])
  BY PutRowAbout, ServerAssumption DEF ServerAssumption
<1>3. StoresTyped'
  <2> DEFINE k == reading[1]
             doc == OldDocs[k][g]
  <2>1. k \in Kinds /\ Noted(k, g, doc) /\ doc \in Docs(k)
    BY <1>2, PutRowAbout
  <2> HIDE DEF k, doc
  <2> QED
    BY <2>1 DEF Typed, StoresTyped, Noted
<1>4. TalkTyped' /\ PagesTyped'
  BY <1>1, TalkRests, PagesRest DEF Typed
<1>5. Silent'
  BY <1>1 DEF Typed, Silent, talk, pages
<1> QED
  BY <1>3, <1>4, <1>5 DEF Typed

LEMMA NextTyped ==
  ASSUME StoreInv, Imported, Typed, Next
  PROVE  Typed'
<1>1. CASE StartUp \/ RunStep \/ RecordStep \/ ShapeDone
  <2>1. UNCHANGED vars
    BY <1>1 DEF StartUp, RunStep, RecordStep, ShapeDone
  <2> QED
    BY <2>1, TypedRests DEF vars, disk, spent, Typed, TalkTyped
<1>2. CASE \E k \in Sources : PassOver(k)
  BY <1>2, TypedRests DEF PassOver, disk, spent, Typed, TalkTyped
<1>3. CASE \E k \in Sources : ReadIn(k)
  <2>1. /\ UNCHANGED talk /\ UNCHANGED pages /\ store' = store /\ db' = db /\ up' = up
        /\ said' = said /\ listed' \in {OldList, listed}
    BY <1>3 DEF ReadIn, spent
  <2>2. OldList \subseteq Games
    BY ServerAssumption DEF ServerAssumption
  <2> QED
    BY <2>1, <2>2, TypedRests DEF Typed, TalkTyped
<1>4. CASE \E g \in Games : PutRow(g)
  BY <1>4, PutRowTyped
<1>5. CASE SetAside
  BY <1>5, TypedRests DEF SetAside, disk, Typed, TalkTyped
<1>6. CASE Open
  BY <1>6, OpenTyped
<1>7. CASE Die
  BY <1>7, TypedRests DEF Die, disk, Typed, TalkTyped
<1>8. CASE Down
  BY <1>8, DownTyped
<1>9. CASE Running /\ UNCHANGED boot
  BY <1>9, RunningTyped DEF boot
<1> QED
  BY <1>1, <1>2, <1>3, <1>4, <1>5, <1>6, <1>7, <1>8, <1>9 DEF Next

LEMMA InitTyped ==
  ASSUME Init
  PROVE  Typed
<1>1. PICK r0 \in OldList \X Tables : at = [p \in Readers |-> r0]
  BY DEF Init
<1>2. r0 \in Rooms
  BY ServerAssumption DEF ServerAssumption, Rooms
<1>3. StoresTyped
  BY DEF Init, StoresTyped, About, Fresh
<1>4. TalkTyped
  BY NothingSaid DEF Init, TalkTyped
<1>5. PagesTyped
  BY <1>1, <1>2 DEF Init, PagesTyped
<1>6. Silent
  BY DEF Init, Silent
<1> QED
  BY <1>3, <1>4, <1>5, <1>6 DEF Typed

-----------------------------------------------------------------------------
(* Each message once *)

\* A message of a room that is in memory, in the table or on its way there.
Holds(r, m) ==
  \/ m \in Range(rooms[r])
  \/ \E d : About(store["chat"], db["chat"], r[1], d) /\ m \in Range(d[r[2]])

\* One that is in the old file.
SaidBefore(r, m) ==
  r[1] \in DOMAIN OldDocs["chat"] /\ m \in Range(OldDocs["chat"][r[1]][r[2]])

OnWire(w, r, m) == \E i \in DOMAIN w : w[i][1] = r /\ m \in Range(w[i][2])

Told(r, m) == Holds(r, m) \/ SaidBefore(r, m) \/ \E p \in Readers : OnWire(wire[p], r, m)

\* No two messages of a room share an identity under two numbers, and what a
\* page has drawn is below its watermark.
OneNumber ==
  \A r \in Rooms : \A m, n : Told(r, m) /\ Told(r, n) /\ m.id = n.id => m.seq = n.seq
Used == \A r \in Rooms : \A m : Told(r, m) => m.id <= said
Passed ==
  \A p \in Readers, r \in Rooms : \A m :
    Told(r, m) /\ m.id \in DOMAIN drawn[p][r] => m.seq <= seen[p][r]
DrawnOnce ==
  \A p \in Readers, r \in Rooms : \A d \in DOMAIN drawn[p][r] :
    d \in Int /\ d <= said /\ drawn[p][r][d] = 1

Once == OneNumber /\ Used /\ Passed /\ DrawnOnce

NoMoreHeld == \A r \in Rooms : \A m : Holds(r, m)' => Holds(r, m)
NoMoreTold == \A r \in Rooms : \A m : Told(r, m)' => Told(r, m)
FewerChats == \A g, d : About(store'["chat"], db'["chat"], g, d) => About(store["chat"], db["chat"], g, d)

LEMMA MessageIs ==
  ASSUME NEW ms \in Backlogs, NEW m \in Range(ms)
  PROVE  m \in Message /\ m.seq \in Nat \ {0} /\ m.id \in Int
<1>1. PICK i \in DOMAIN ms : m = ms[i]
  BY DEF Range
<1> QED
  BY <1>1, SeqsAre

LEMMA PayloadIs ==
  ASSUME NEW w \in Seq(Payload), NEW i \in DOMAIN w
  PROVE  w[i][1] \in Rooms /\ w[i][2] \in Backlogs /\ w[i] = <<w[i][1], w[i][2]>>
<1>1. w[i] \in Payload
  OBVIOUS
<1> QED
  BY <1>1 DEF Payload

LEMMA HeldTyped ==
  ASSUME Typed, NEW r \in Rooms, NEW m, Holds(r, m)
  PROVE  m \in Message /\ m.seq \in Nat \ {0} /\ m.id \in Int
<1>1. CASE m \in Range(rooms[r])
  <2>1. rooms[r] \in Backlogs
    BY DEF Typed, TalkTyped
  <2> QED
    BY <1>1, <2>1, MessageIs
<1>2. CASE \E d : About(store["chat"], db["chat"], r[1], d) /\ m \in Range(d[r[2]])
  <2>1. PICK d : About(store["chat"], db["chat"], r[1], d) /\ m \in Range(d[r[2]])
    BY <1>2
  <2>2. d \in Docs("chat")
    BY <2>1 DEF Typed, StoresTyped, Kinds
  <2>3. d[r[2]] \in Backlogs
    BY <2>2, RoomsAre DEF Docs
  <2> QED
    BY <2>1, <2>3, MessageIs
<1> QED
  BY <1>1, <1>2 DEF Holds

LEMMA ToldTyped ==
  ASSUME Typed, NEW r \in Rooms, NEW m, Told(r, m)
  PROVE  m \in Message /\ m.seq \in Nat \ {0} /\ m.id \in Int
<1>1. CASE Holds(r, m)
  BY <1>1, HeldTyped
<1>2. CASE SaidBefore(r, m)
  <2>1. OldDocs["chat"][r[1]] \in Docs("chat")
    BY <1>2, ServerAssumption DEF SaidBefore, ServerAssumption, Kinds
  <2>2. OldDocs["chat"][r[1]][r[2]] \in Backlogs
    BY <2>1, RoomsAre DEF Docs
  <2> QED
    BY <1>2, <2>2, MessageIs DEF SaidBefore
<1>3. CASE \E p \in Readers : OnWire(wire[p], r, m)
  <2>1. PICK p \in Readers : \E i \in DOMAIN wire[p] : m \in Range(wire[p][i][2])
    BY <1>3 DEF OnWire
  <2>2. \A i \in DOMAIN wire[p] : wire[p][i][2] \in Backlogs
    BY PayloadIs DEF Typed, PagesTyped
  <2> QED
    BY <2>1, <2>2, MessageIs
<1> QED
  BY <1>1, <1>2, <1>3 DEF Told

\* One payload more on the wire.
LEMMA SentMore ==
  ASSUME NEW w \in Seq(Payload), NEW r, NEW ms, <<r, ms>> \in Payload, NEW v,
         v = Append(w, <<r, ms>>)
  PROVE  /\ v \in Seq(Payload) /\ DOMAIN v = 1..Len(w) + 1 /\ DOMAIN w = 1..Len(w)
         /\ Len(w) \in Nat /\ v[Len(w) + 1] = <<r, ms>> /\ \A i \in DOMAIN w : v[i] = w[i]
         /\ \A q, m : OnWire(v, q, m) <=> OnWire(w, q, m) \/ (q = r /\ m \in Range(ms))
<1>1. /\ v \in Seq(Payload) /\ DOMAIN v = 1..Len(w) + 1 /\ DOMAIN w = 1..Len(w)
      /\ Len(w) \in Nat /\ v[Len(w) + 1] = <<r, ms>> /\ \A i \in DOMAIN w : v[i] = w[i]
  OBVIOUS
<1>2. DOMAIN v = DOMAIN w \cup {Len(w) + 1} /\ v[Len(w) + 1][1] = r /\ v[Len(w) + 1][2] = ms
  BY <1>1
<1> QED
  BY <1>1, <1>2 DEF OnWire

LEMMA NothingSent ==
  \A q, m : ~OnWire(<<>>, q, m)
BY DEF OnWire

LEMMA OnceRests ==
  ASSUME Once, NoMoreTold, said' = said, seen' = seen, drawn' = drawn
  PROVE  Once'
<1>1. OneNumber'
  BY DEF Once, OneNumber, NoMoreTold
<1>2. Used'
  BY DEF Once, Used, NoMoreTold
<1>3. Passed'
  BY DEF Once, Passed, NoMoreTold
<1>4. DrawnOnce'
  BY DEF Once, DrawnOnce
<1> QED
  BY <1>1, <1>2, <1>3, <1>4 DEF Once

LEMMA HeldNoMore ==
  ASSUME FewerChats, \A r \in Rooms : Range(rooms'[r]) \subseteq Range(rooms[r])
  PROVE  NoMoreHeld
BY DEF NoMoreHeld, FewerChats, Holds

LEMMA ToldNoMore ==
  ASSUME NoMoreHeld,
         \A p \in Readers : \A r, m : OnWire(wire'[p], r, m) => OnWire(wire[p], r, m) \/ Told(r, m)
  PROVE  NoMoreTold
BY DEF NoMoreTold, NoMoreHeld, Told

\* The backlog of a room holds nothing that was not told.
LEMMA BacklogTold ==
  ASSUME Typed, NEW r \in Rooms, NEW w \in Seq(Payload)
  PROVE  \A q, m : OnWire(Append(w, <<r, rooms[r]>>), q, m) => OnWire(w, q, m) \/ Told(q, m)
<1>1. <<r, rooms[r]>> \in Payload
  BY BacklogTyped
<1>2. \A m \in Range(rooms[r]) : Told(r, m)
  BY DEF Told, Holds
<1> DEFINE ms == rooms[r]
           v == Append(w, <<r, ms>>)
<1>3. v = Append(w, <<r, ms>>) /\ <<r, ms>> \in Payload /\ \A m \in Range(ms) : Told(r, m)
  BY <1>1, <1>2
<1> HIDE DEF v, ms
<1>4. \A q, m : OnWire(v, q, m) <=> OnWire(w, q, m) \/ (q = r /\ m \in Range(ms))
  BY <1>3, SentMore
<1>5. \A q, m : OnWire(v, q, m) => OnWire(w, q, m) \/ Told(q, m)
  BY <1>3, <1>4
<1> QED
  BY <1>5 DEF v, ms
\* What is said is the only thing told anew.
OnlySaid(S, new) ==
  \A r \in Rooms : \A m : Holds(r, m)' => Holds(r, m) \/ (r \in S /\ m = new[r])

LEMMA SaidHolds ==
  ASSUME StoreInv, Typed, NEW S, NEW g, Spoken(S, g), NEW new, NEW N, Says(S, g, new, N),
         db' = db, live' = live, up' = up, phase' = phase
  PROVE  /\ OnlySaid(S, new)
         /\ \A r \in Rooms : Range(rooms'[r]) = IF r \in S THEN Range(rooms[r]) \cup {new[r]}
                                                ELSE Range(rooms[r])
         /\ store'["chat"].held =
              With(store["chat"].held, g, [t \in Tables |-> rooms'[<<g, t>>]])
<1> DEFINE doc == [t \in Tables |-> rooms'[<<g, t>>]]
<1>1. /\ Numbers(S, new, N)
      /\ rooms' = [r \in Rooms |-> IF r \in S THEN Append(rooms[r], new[r]) ELSE rooms[r]]
      /\ g \in live /\ up /\ store' = [store EXCEPT !["chat"] = Recorded(store["chat"], g, doc)]
  BY DEF Says
<1>2. \A r \in Rooms : Range(rooms'[r]) = IF r \in S THEN Range(rooms[r]) \cup {new[r]}
                                          ELSE Range(rooms[r])
  <2> SUFFICES ASSUME NEW r \in Rooms, r \in S
               PROVE  Range(rooms'[r]) = Range(rooms[r]) \cup {new[r]}
    BY <1>1
  <2>1. /\ rooms[r] \in Backlogs /\ seq \in Nat
        /\ \A i \in DOMAIN rooms[r] : rooms[r][i].seq <= seq
    BY DEF Typed, TalkTyped
  <2>2. new[r] \in Message /\ new[r].seq > seq /\ rooms'[r] = Append(rooms[r], new[r])
    BY <1>1 DEF Numbers
  <2> QED
    BY <2>1, <2>2, SaidMore
<1>3. \A t \in Tables : doc[t] = rooms'[<<g, t>>]
  OBVIOUS
<1>4. "chat" \in Kinds
  BY DEF Kinds
<1>5. Noted("chat", g, doc) /\ store'["chat"].held = With(store["chat"].held, g, doc)
  <2> HIDE DEF doc
  <2> QED
    BY <1>1, <1>4, NotedInv
<1>6. ASSUME NEW r \in Rooms, NEW m, Holds(r, m)'
      PROVE  Holds(r, m) \/ (r \in S /\ m = new[r])
  <2>1. CASE m \in Range(rooms'[r])
    BY <1>2, <2>1 DEF Holds
  <2>2. CASE \E d : About(store'["chat"], db'["chat"], r[1], d) /\ m \in Range(d[r[2]])
    <3>1. PICK d : About(store'["chat"], db'["chat"], r[1], d) /\ m \in Range(d[r[2]])
      BY <2>2
    <3>2. About(store["chat"], db["chat"], r[1], d) \/ (r[1] = g /\ d = doc)
      BY <1>4, <1>5, <3>1 DEF Noted
    <3>3. CASE About(store["chat"], db["chat"], r[1], d)
      BY <3>1, <3>3 DEF Holds
    <3>4. CASE r[1] = g /\ d = doc
      <4>1. r[2] \in Tables /\ r = <<g, r[2]>>
        BY <3>4, RoomsAre
      <4>2. m \in Range(rooms'[r])
        BY <1>3, <3>1, <3>4, <4>1
      <4> QED
        BY <2>1, <4>2
    <3> QED
      BY <3>2, <3>3, <3>4
  <2> QED
    BY <1>6, <2>1, <2>2 DEF Holds
<1> QED
  BY <1>2, <1>5, <1>6 DEF OnlySaid

LEMMA PostOnce ==
  ASSUME StoreInv, Typed, Once, NEW S, NEW g, Spoken(S, g), Post(S), phase' = phase
  PROVE  Once'
<1>1. PICK new, N : Says(S, g, new, N)
  <2>1. seq \in Nat /\ said \in Nat
    BY DEF Typed, TalkTyped
  <2> QED
    BY <2>1, PostIs
<1>2. /\ db' = db /\ live' = live /\ up' = up /\ seen' = seen /\ drawn' = drawn
  BY DEF Post, disk
<1>3. /\ Numbers(S, new, N) /\ said' = said + N
      /\ wire' = [p \in Readers |-> IF \E r \in S : Listens(p, r)
                                    THEN Append(wire[p], <<at[p], <<new[at[p]]>>>>)
                                    ELSE wire[p]]
  BY <1>1 DEF Says
<1>4. OnlySaid(S, new)
  BY <1>1, <1>2, SaidHolds
<1>5. ASSUME NEW p \in Readers, NEW r, NEW m, OnWire(wire'[p], r, m)
      PROVE  OnWire(wire[p], r, m) \/ (r \in S /\ m = new[r])
  <2>1. CASE \E a \in S : Listens(p, a)
    <3>1. at[p] \in S /\ at[p] \in Rooms
      BY <2>1 DEF Listens, Spoken
    <3> DEFINE b == new[at[p]]
    <3>2. b \in Message
      BY <1>3, <3>1 DEF Numbers
    <3>3. <<at[p], <<b>>>> \in Payload /\ Range(<<b>>) = {b}
      BY <3>1, <3>2, OneMessage DEF Payload
    <3>4. wire[p] \in Seq(Payload) /\ wire'[p] = Append(wire[p], <<at[p], <<b>>>>)
      BY <1>3, <2>1 DEF Typed, PagesTyped
    <3>5. b = new[at[p]]
      OBVIOUS
    <3> HIDE DEF b
    <3> DEFINE a == at[p]
               ms == <<b>>
               w == wire[p]
               v == wire'[p]
    <3>6. w \in Seq(Payload) /\ <<a, ms>> \in Payload /\ v = Append(w, <<a, ms>>)
      BY <3>3, <3>4
    <3> HIDE DEF a, ms, w, v
    <3>7. \A q, n : OnWire(v, q, n) <=> OnWire(w, q, n) \/ (q = a /\ n \in Range(ms))
      BY <3>6, SentMore
    <3> QED
      BY <1>5, <3>1, <3>3, <3>5, <3>7 DEF a, ms, w, v
  <2>2. CASE ~\E a \in S : Listens(p, a)
    BY <1>3, <1>5, <2>2
  <2> QED
    BY <2>1, <2>2
<1>6. \A r \in Rooms : \A m : Told(r, m)' => Told(r, m) \/ (r \in S /\ m = new[r])
  BY <1>4, <1>5 DEF OnlySaid, Told, SaidBefore
<1>7. \A r \in S : new[r].id > said /\ new[r].id <= said + N /\ new[r].id \in Int
  <2>1. \A r \in S : new[r] \in Message
    BY <1>3 DEF Numbers
  <2> QED
    BY <1>3, <2>1 DEF Numbers, Message
<1>8. said \in Nat /\ N \in Nat
  BY <1>3 DEF Typed, TalkTyped, Numbers
<1>9. \A r \in Rooms : \A m : Told(r, m) => m.id <= said /\ m.id \in Int
  BY ToldTyped DEF Once, Used
<1>10. OneNumber'
  <2> SUFFICES ASSUME NEW r \in Rooms, NEW m, NEW n, Told(r, m)', Told(r, n)', m.id = n.id
               PROVE  m.seq = n.seq
    BY DEF OneNumber
  <2>1. (Told(r, m) \/ (r \in S /\ m = new[r])) /\ (Told(r, n) \/ (r \in S /\ n = new[r]))
    BY <1>6
  <2>2. CASE Told(r, m) /\ Told(r, n)
    BY <2>2 DEF Once, OneNumber
  <2>3. CASE ~(Told(r, m) /\ Told(r, n)) /\ m # n
    <3>1. \/ m.id <= said /\ n.id > said /\ m.id \in Int
          \/ n.id <= said /\ m.id > said /\ n.id \in Int
      BY <1>7, <1>9, <2>1, <2>3
    <3> QED
      BY <1>8, <3>1
  <2> QED
    BY <2>2, <2>3
<1>11. Used'
  <2> SUFFICES ASSUME NEW r \in Rooms, NEW m, Told(r, m)'
               PROVE  m.id <= said'
    BY DEF Used
  <2>1. m.id \in Int /\ (m.id <= said \/ m.id <= said + N)
    BY <1>6, <1>7, <1>9
  <2> QED
    BY <1>3, <1>8, <2>1
<1>12. Passed'
  <2> SUFFICES ASSUME NEW p \in Readers, NEW r \in Rooms, NEW m, Told(r, m)',
                      m.id \in DOMAIN drawn[p][r]
               PROVE  m.seq <= seen[p][r]
    BY <1>2 DEF Passed
  <2>1. m.id <= said /\ m.id \in Int
    BY DEF Once, DrawnOnce
  <2>2. ~(r \in S /\ m = new[r])
    BY <1>7, <1>8, <2>1
  <2>3. Told(r, m)
    BY <1>6, <2>2
  <2> QED
    BY <2>3 DEF Once, Passed
<1>13. DrawnOnce'
  <2> SUFFICES ASSUME NEW p \in Readers, NEW r \in Rooms, NEW d \in DOMAIN drawn[p][r]
               PROVE  d \in Int /\ d <= said' /\ drawn[p][r][d] = 1
    BY <1>2 DEF DrawnOnce
  <2>1. d \in Int /\ d <= said /\ drawn[p][r][d] = 1
    BY DEF Once, DrawnOnce
  <2> QED
    BY <1>3, <1>8, <2>1
<1> QED
  BY <1>10, <1>11, <1>12, <1>13 DEF Once

\* Nothing of a room is lost on the way to the page, and none of it is drawn
\* before it arrives.
LEMMA DrawnIs ==
  ASSUME NEW ms \in Backlogs, NEW k \in Nat, NEW I, I = {i \in DOMAIN ms : ms[i].seq > k},
         NEW times, \A d \in DOMAIN times : times[d] = 1,
         \A i \in I : ms[i].id \notin DOMAIN times,
         \A i, j \in DOMAIN ms : ms[i].id = ms[j].id => ms[i].seq = ms[j].seq
  PROVE  LET w == WithDrawn(times, ms, I) IN \A d \in DOMAIN w : w[d] = 1
<1> DEFINE w == WithDrawn(times, ms, I)
           J(d) == {i \in I : ms[i].id = d}
<1>1. DOMAIN w = DOMAIN times \cup {ms[i].id : i \in I}
  BY DEF WithDrawn
<1>2. \A d \in DOMAIN w : w[d] = (IF d \in DOMAIN times THEN times[d] ELSE 0) + Cardinality(J(d))
  BY DEF WithDrawn
<1> HIDE DEF w
<1>3. ASSUME NEW d \in DOMAIN w
      PROVE  w[d] = 1
  <2>1. CASE d \in DOMAIN times
    <3>1. J(d) = {}
      BY <2>1
    <3>2. Cardinality(J(d)) = 0
      BY <3>1, FS_EmptySet
    <3> QED
      BY <1>2, <2>1, <3>2
  <2>2. CASE d \notin DOMAIN times
    <3>1. PICK i \in I : ms[i].id = d
      BY <1>1, <2>2
    <3>2. ASSUME NEW j \in J(d)
          PROVE  j = i
      <4>1. ms[i].seq = ms[j].seq /\ i \in DOMAIN ms /\ j \in DOMAIN ms
        BY <3>1
      <4>2. /\ DOMAIN ms = 1..Len(ms) /\ Len(ms) \in Nat
            /\ \A a \in DOMAIN ms : ms[a].seq \in Nat
        BY SeqsAre
      <4>3. \A a, b \in DOMAIN ms : a < b => ms[a].seq < ms[b].seq
        BY DEF Backlogs
      <4>4. i \in Nat /\ j \in Nat
        BY <4>1, <4>2
      <4>5. ~(i < j) /\ ~(j < i)
        BY <4>1, <4>2, <4>3
      <4> QED
        BY <4>4, <4>5
    <3>3. J(d) = {i}
      BY <3>1, <3>2
    <3>4. Cardinality(J(d)) = 1
      BY <3>3, FS_Singleton
    <3> QED
      BY <1>2, <2>2, <3>4
  <2> QED
    BY <2>1, <2>2
<1> QED
  BY <1>3 DEF w

\* What the page does with the next thing sent to it.
Takes(p, r, ms, I, k) ==
  /\ wire[p] \in Seq(Payload) /\ wire[p] # <<>> /\ Head(wire[p]) = <<r, ms>>
  /\ r \in Rooms /\ ms \in Backlogs
  /\ wire' = [wire EXCEPT ![p] = Tail(wire[p])]
  /\ I = {i \in DOMAIN ms : ms[i].seq > seen[p][r]}
  /\ k \in Nat /\ seen[p][r] \in Nat /\ seen[p][r] <= k /\ \A i \in DOMAIN ms : ms[i].seq <= k
  /\ k = seen[p][r] \/ \E i \in DOMAIN ms : ms[i].seq = k
  /\ seen' = [seen EXCEPT ![p][r] = k]
  /\ drawn' = [drawn EXCEPT ![p][r] = WithDrawn(drawn[p][r], ms, I)]

LEMMA TakeIs ==
  ASSUME Typed, NEW p \in Readers, Take(p)
  PROVE  \E r, ms, I, k : Takes(p, r, ms, I, k)
<1> DEFINE r == Head(wire[p])[1]
           ms == Head(wire[p])[2]
           I == Unseen(p, r, ms)
           k == Max({seen[p][r]} \cup {ms[i].seq : i \in I})
           w == WithDrawn(drawn[p][r], ms, I)
<1>1. /\ wire[p] # <<>> /\ wire' = [wire EXCEPT ![p] = Tail(wire[p])]
      /\ drawn' = [drawn EXCEPT ![p][r] = w] /\ seen' = [seen EXCEPT ![p][r] = k]
  BY DEF Take
<1>2. wire[p] \in Seq(Payload) /\ Head(wire[p]) \in Payload
  BY <1>1 DEF Typed, PagesTyped
<1>3. r \in Rooms /\ ms \in Backlogs /\ Head(wire[p]) = <<r, ms>>
  BY <1>2 DEF Payload
<1>4. seen[p][r] \in Nat
  BY <1>3 DEF Typed, PagesTyped
<1>5. I = {i \in DOMAIN ms : ms[i].seq > seen[p][r]}
  BY DEF Unseen
<1>6. /\ k \in Nat /\ seen[p][r] <= k /\ \A i \in DOMAIN ms : ms[i].seq <= k
      /\ k = seen[p][r] \/ \E i \in DOMAIN ms : ms[i].seq = k
  <2> HIDE DEF I, ms, r
  <2> QED
    BY <1>3, <1>4, <1>5, MarkIs
<1>7. w = WithDrawn(drawn[p][r], ms, I)
  OBVIOUS
<1> HIDE DEF r, ms, I, k, w
<1>8. Takes(p, r, ms, I, k)
  BY <1>1, <1>2, <1>3, <1>4, <1>5, <1>6, <1>7 DEF Takes
<1> QED
  BY <1>8

LEMMA TakesTo ==
  ASSUME PagesTyped, NEW p \in Readers, NEW r, NEW ms, NEW I, NEW k, Takes(p, r, ms, I, k)
  PROVE  /\ seen'[p][r] = k /\ drawn'[p][r] = WithDrawn(drawn[p][r], ms, I)
         /\ \A q \in Readers, a \in Rooms : ~(q = p /\ a = r) =>
              seen'[q][a] = seen[q][a] /\ drawn'[q][a] = drawn[q][a]
         /\ \A q \in Readers \ {p} : wire'[q] = wire[q]
         /\ wire'[p] = Tail(wire[p])
         /\ DOMAIN drawn'[p][r] = DOMAIN drawn[p][r] \cup {ms[i].id : i \in I}
<1> DEFINE w == WithDrawn(drawn[p][r], ms, I)
<1>1. /\ wire' = [wire EXCEPT ![p] = Tail(wire[p])] /\ seen' = [seen EXCEPT ![p][r] = k]
      /\ drawn' = [drawn EXCEPT ![p][r] = w] /\ r \in Rooms
  BY DEF Takes
<1>2. DOMAIN w = DOMAIN drawn[p][r] \cup {ms[i].id : i \in I}
  BY DEF WithDrawn
<1>3. w = WithDrawn(drawn[p][r], ms, I)
  OBVIOUS
<1> HIDE DEF w
<1> DEFINE t == Tail(wire[p])
<1>4. wire' = [wire EXCEPT ![p] = t] /\ t = Tail(wire[p])
  BY <1>1
<1> HIDE DEF t
<1>5. wire'[p] = t /\ \A q \in Readers \ {p} : wire'[q] = wire[q]
  BY <1>4 DEF PagesTyped
<1>6. /\ seen'[p][r] = k
      /\ \A q \in Readers, a \in Rooms : ~(q = p /\ a = r) => seen'[q][a] = seen[q][a]
  BY <1>1 DEF PagesTyped
<1>7. /\ drawn'[p][r] = w
      /\ \A q \in Readers, a \in Rooms : ~(q = p /\ a = r) => drawn'[q][a] = drawn[q][a]
  BY <1>1 DEF PagesTyped
<1> QED
  BY <1>2, <1>3, <1>4, <1>5, <1>6, <1>7

\* The wire without its head.
LEMMA TailIs ==
  ASSUME NEW w \in Seq(Payload), w # <<>>, NEW r, NEW ms, Head(w) = <<r, ms>>
  PROVE  /\ Tail(w) \in Seq(Payload) /\ DOMAIN w = 1..Len(w) /\ DOMAIN Tail(w) = 1..(Len(w) - 1)
         /\ Len(w) \in Nat \ {0} /\ w[1] = <<r, ms>>
         /\ \A i \in DOMAIN Tail(w) : i + 1 \in DOMAIN w /\ Tail(w)[i] = w[i + 1]
         /\ \A q, m : OnWire(Tail(w), q, m) => OnWire(w, q, m)
         /\ \A q, m : OnWire(w, q, m) => OnWire(Tail(w), q, m) \/ (q = r /\ m \in Range(ms))
<1> DEFINE t == Tail(w)
<1>1. /\ t \in Seq(Payload) /\ DOMAIN w = 1..Len(w) /\ DOMAIN t = 1..(Len(w) - 1)
      /\ Len(w) \in Nat \ {0} /\ w[1] = <<r, ms>>
      /\ \A i \in DOMAIN t : i + 1 \in DOMAIN w /\ t[i] = w[i + 1]
  OBVIOUS
<1> HIDE DEF t
<1>2. w[1][1] = r /\ w[1][2] = ms
  BY <1>1
<1>3. \A q, m : OnWire(t, q, m) => OnWire(w, q, m)
  BY <1>1 DEF OnWire
<1>4. ASSUME NEW q, NEW m, OnWire(w, q, m)
      PROVE  OnWire(t, q, m) \/ (q = r /\ m \in Range(ms))
  <2>1. PICK i \in DOMAIN w : w[i][1] = q /\ m \in Range(w[i][2])
    BY <1>4 DEF OnWire
  <2>2. CASE i = 1
    BY <1>2, <2>1, <2>2
  <2>3. CASE i # 1
    <3>1. i - 1 \in DOMAIN t /\ t[i - 1] = w[i]
      BY <1>1, <2>3
    <3> QED
      BY <2>1, <3>1 DEF OnWire
  <2> QED
    BY <2>2, <2>3
<1> QED
  BY <1>1, <1>3, <1>4 DEF t

LEMMA TakeOnce ==
  ASSUME StoreInv, Typed, Once, NEW p \in Readers, Take(p)
  PROVE  Once'
<1>1. PICK r, ms, I, k : Takes(p, r, ms, I, k)
  BY TakeIs
<1>2. /\ wire[p] \in Seq(Payload) /\ wire[p] # <<>> /\ Head(wire[p]) = <<r, ms>>
      /\ r \in Rooms /\ ms \in Backlogs
      /\ I = {i \in DOMAIN ms : ms[i].seq > seen[p][r]}
      /\ k \in Nat /\ seen[p][r] \in Nat /\ seen[p][r] <= k /\ \A i \in DOMAIN ms : ms[i].seq <= k
  BY <1>1 DEF Takes
<1>3. /\ seen'[p][r] = k /\ drawn'[p][r] = WithDrawn(drawn[p][r], ms, I)
      /\ \A q \in Readers, a \in Rooms : ~(q = p /\ a = r) =>
           seen'[q][a] = seen[q][a] /\ drawn'[q][a] = drawn[q][a]
      /\ \A q \in Readers \ {p} : wire'[q] = wire[q]
      /\ wire'[p] = Tail(wire[p])
      /\ DOMAIN drawn'[p][r] = DOMAIN drawn[p][r] \cup {ms[i].id : i \in I}
  BY <1>1, TakesTo DEF Typed
<1>4. store' = store /\ db' = db /\ rooms' = rooms /\ said' = said
  BY DEF Take, talk, disk, spent
<1>5. NoMoreTold
  <2>1. NoMoreHeld
    BY <1>4 DEF NoMoreHeld, Holds
  <2> DEFINE w == wire[p]
  <2>2. w \in Seq(Payload) /\ w # <<>> /\ Head(w) = <<r, ms>>
    BY <1>2
  <2> HIDE DEF w
  <2>3. \A q, m : OnWire(Tail(w), q, m) => OnWire(w, q, m)
    BY <2>2, TailIs
  <2>4. ASSUME NEW q \in Readers, NEW a, NEW m, OnWire(wire'[q], a, m)
        PROVE  OnWire(wire[q], a, m)
    BY <1>3, <2>3, <2>4 DEF w
  <2> QED
    BY <2>1, <2>4, ToldNoMore
<1>6. \A i \in DOMAIN ms : Told(r, ms[i]) /\ ms[i].seq \in Nat /\ ms[i].id \in Int
  <2> SUFFICES ASSUME NEW i \in DOMAIN ms
               PROVE  Told(r, ms[i]) /\ ms[i].seq \in Nat /\ ms[i].id \in Int
    OBVIOUS
  <2> DEFINE w == wire[p]
  <2>1. w \in Seq(Payload) /\ w # <<>> /\ Head(w) = <<r, ms>>
    BY <1>2
  <2> HIDE DEF w
  <2>2. w[1] = <<r, ms>> /\ 1 \in DOMAIN w
    BY <2>1
  <2>3. w[1][1] = r /\ ms[i] \in Range(w[1][2])
    BY <2>2 DEF Range
  <2>4. OnWire(w, r, ms[i])
    BY <2>2, <2>3 DEF OnWire
  <2> QED
    BY <1>2, <2>4, SeqsAre DEF Told, w
<1>7. \A i, j \in DOMAIN ms : ms[i].id = ms[j].id => ms[i].seq = ms[j].seq
  BY <1>2, <1>6 DEF Once, OneNumber
<1>8. \A i \in I : ms[i].id \notin DOMAIN drawn[p][r]
  <2> SUFFICES ASSUME NEW i \in I, ms[i].id \in DOMAIN drawn[p][r]
               PROVE  FALSE
    OBVIOUS
  <2>1. i \in DOMAIN ms /\ ms[i].seq > seen[p][r]
    BY <1>2
  <2>2. ms[i].seq <= seen[p][r]
    BY <1>2, <1>6, <2>1 DEF Once, Passed
  <2> QED
    BY <1>2, <1>6, <2>1, <2>2
<1>9. OneNumber' /\ Used'
  BY <1>4, <1>5 DEF Once, OneNumber, Used, NoMoreTold
<1>10. Passed'
  <2> SUFFICES ASSUME NEW q \in Readers, NEW a \in Rooms, NEW m, Told(a, m),
                      m.id \in DOMAIN drawn'[q][a]
               PROVE  m.seq <= seen'[q][a]
    BY <1>5 DEF Passed, NoMoreTold
  <2>1. CASE q = p /\ a = r
    <3>1. CASE m.id \in DOMAIN drawn[p][r]
      <4>1. m.seq <= seen[p][r] /\ m.seq \in Nat
        BY <2>1, <3>1, ToldTyped DEF Once, Passed
      <4> QED
        BY <1>2, <1>3, <2>1, <4>1
    <3>2. CASE m.id \notin DOMAIN drawn[p][r]
      <4>1. PICK i \in I : m.id = ms[i].id
        BY <1>3, <2>1, <3>2
      <4>2. m.seq = ms[i].seq
        BY <1>2, <1>6, <2>1, <4>1 DEF Once, OneNumber
      <4> QED
        BY <1>2, <1>3, <2>1, <4>1, <4>2
    <3> QED
      BY <3>1, <3>2
  <2>2. CASE ~(q = p /\ a = r)
    BY <1>3, <2>2 DEF Once, Passed
  <2> QED
    BY <2>1, <2>2
<1>11. DrawnOnce'
  <2> SUFFICES ASSUME NEW q \in Readers, NEW a \in Rooms, NEW d \in DOMAIN drawn'[q][a]
               PROVE  d \in Int /\ d <= said /\ drawn'[q][a][d] = 1
    BY <1>4 DEF DrawnOnce
  <2>1. CASE q = p /\ a = r
    <3>1. drawn'[q][a][d] = 1
      <4> DEFINE times == drawn[p][r]
      <4>1. \A e \in DOMAIN times : times[e] = 1
        BY <1>2 DEF Once, DrawnOnce
      <4>2. \A i \in I : ms[i].id \notin DOMAIN times
        BY <1>8
      <4>3. drawn'[q][a] = WithDrawn(times, ms, I)
        BY <1>3, <2>1
      <4> DEFINE n == seen[p][r]
      <4>4. n \in Nat /\ I = {i \in DOMAIN ms : ms[i].seq > n} /\ ms \in Backlogs
        BY <1>2
      <4> HIDE DEF times, n
      <4>5. LET w == WithDrawn(times, ms, I) IN \A e \in DOMAIN w : w[e] = 1
        BY <1>7, <4>1, <4>2, <4>4, DrawnIs
      <4> QED
        BY <4>3, <4>5
    <3>2. CASE d \in DOMAIN drawn[p][r]
      BY <1>2, <3>1, <3>2 DEF Once, DrawnOnce
    <3>3. CASE d \notin DOMAIN drawn[p][r]
      <4>1. PICK i \in I : d = ms[i].id
        BY <1>3, <2>1, <3>3
      <4>2. Told(r, ms[i]) /\ ms[i].id \in Int
        BY <1>2, <1>6
      <4> QED
        BY <1>2, <3>1, <4>1, <4>2 DEF Once, Used
    <3> QED
      BY <3>2, <3>3
  <2>2. CASE ~(q = p /\ a = r)
    BY <1>3, <2>2 DEF Once, DrawnOnce
  <2> QED
    BY <2>1, <2>2
<1> QED
  BY <1>9, <1>10, <1>11 DEF Once

\* The store moves, and neither the rooms nor the pages.
LEMMA StoreOnce ==
  ASSUME Once, FewerChats, UNCHANGED talk, UNCHANGED pages, said' = said
  PROVE  Once'
<1>1. NoMoreHeld
  BY HeldNoMore DEF talk
<1>2. NoMoreTold
  BY <1>1, ToldNoMore DEF pages
<1> QED
  BY <1>2, OnceRests DEF pages

LEMMA ChatRests ==
  ASSUME store' = store, db' = db
  PROVE  FewerChats
BY DEF FewerChats

LEMMA FewerChatsOf ==
  /\ Fewer => FewerChats
  /\ \A g, doc : Noted("history", g, doc) => FewerChats
BY DEF Fewer, Noted, FewerChats, Kinds

\* A backlog is sent to some, and the rooms of a broken table are emptied.
LEMMA BacklogsOnce ==
  ASSUME Typed, Once, store' = store, db' = db, said' = said, seen' = seen, drawn' = drawn,
         \A r \in Rooms : rooms'[r] \in {rooms[r], <<>>},
         \A p \in Readers : \A r, m : OnWire(wire'[p], r, m) => OnWire(wire[p], r, m) \/ Told(r, m)
  PROVE  Once'
<1>1. NoMoreHeld
  BY ChatRests, HeldNoMore, NothingSaid
<1>2. NoMoreTold
  BY <1>1, ToldNoMore
<1> QED
  BY <1>2, OnceRests

LEMMA GoToOnce ==
  ASSUME Typed, Once, NEW p \in Readers, NEW r \in Rooms, GoTo(p, r)
  PROVE  Once'
<1>1. /\ wire' = [wire EXCEPT ![p] = History(wire[p], p, r)]
      /\ rooms' = rooms /\ store' = store /\ db' = db /\ said' = said
      /\ seen' = seen /\ drawn' = drawn
  BY DEF GoTo, talk, disk
<1>2. ASSUME NEW q \in Readers, NEW a, NEW m, OnWire(wire'[q], a, m)
      PROVE  OnWire(wire[q], a, m) \/ Told(a, m)
  <2>1. wire'[q] \in {wire[q], Append(wire[q], <<r, rooms[r]>>)}
    BY <1>1 DEF History, Typed, PagesTyped
  <2>2. wire[q] \in Seq(Payload)
    BY DEF Typed, PagesTyped
  <2> QED
    BY <1>2, <2>1, <2>2, BacklogTold
<1> QED
  BY <1>1, <1>2, BacklogsOnce

LEMMA BreakTableOnce ==
  ASSUME Typed, Once, NEW r \in Rooms, NEW to \in Rooms, BreakTable(r, to)
  PROVE  Once'
<1>1. /\ wire' = [p \in Readers |-> IF at[p] = r /\ p \in Seated
                                    THEN History(wire[p], p, to) ELSE wire[p]]
      /\ rooms' = [rooms EXCEPT ![r] = <<>>] /\ store' = store /\ db' = db /\ said' = said
      /\ seen' = seen /\ drawn' = drawn
  BY DEF BreakTable, disk
<1>2. ASSUME NEW q \in Readers, NEW a, NEW m, OnWire(wire'[q], a, m)
      PROVE  OnWire(wire[q], a, m) \/ Told(a, m)
  <2>1. wire'[q] \in {wire[q], Append(wire[q], <<to, rooms[to]>>)}
    BY <1>1 DEF History
  <2>2. wire[q] \in Seq(Payload)
    BY DEF Typed, PagesTyped
  <2> QED
    BY <1>2, <2>1, <2>2, BacklogTold
<1>3. \A a \in Rooms : rooms'[a] \in {rooms[a], <<>>}
  BY <1>1 DEF Typed, TalkTyped
<1> QED
  BY <1>1, <1>2, <1>3, BacklogsOnce

LEMMA ReturnOnce ==
  ASSUME Typed, Once, NEW p \in Readers, Return(p)
  PROVE  Once'
<1> DEFINE b == <<at[p], rooms[at[p]]>>
<1>1. /\ at[p] # Nowhere /\ rooms' = rooms /\ store' = store /\ db' = db /\ said' = said
      /\ \/ /\ \E missed \in {wire[p], <<>>} : wire' = [wire EXCEPT ![p] = Append(missed, b)]
            /\ seen' = seen /\ drawn' = drawn
         \/ /\ wire' = [wire EXCEPT ![p] = <<b>>]
            /\ seen' = [seen EXCEPT ![p] = [r \in Rooms |-> 0]]
            /\ drawn' = [drawn EXCEPT ![p] = [r \in Rooms |-> [d \in {} |-> 0]]]
  BY DEF Return, talk, disk, spent
<1>2. at[p] \in Rooms /\ wire[p] \in Seq(Payload) /\ <<>> \in Seq(Payload)
  BY <1>1 DEF Typed, PagesTyped
<1>3. <<b>> = Append(<<>>, b)
  OBVIOUS
<1>4. \A missed \in {wire[p], <<>>} : \A a, m :
        OnWire(Append(missed, b), a, m) => OnWire(wire[p], a, m) \/ Told(a, m)
  BY <1>2, BacklogTold, NothingSent
<1> HIDE DEF b
<1>5. ASSUME NEW q \in Readers, NEW a, NEW m, OnWire(wire'[q], a, m)
      PROVE  OnWire(wire[q], a, m) \/ Told(a, m)
  <2>1. \/ wire'[q] = wire[q]
        \/ q = p /\ \E missed \in {wire[p], <<>>} : wire'[q] = Append(missed, b)
    BY <1>1, <1>3 DEF Typed, PagesTyped
  <2> QED
    BY <1>4, <1>5, <2>1
<1>6. CASE seen' = seen /\ drawn' = drawn
  BY <1>1, <1>5, <1>6, BacklogsOnce
<1>7. CASE /\ seen' = [seen EXCEPT ![p] = [r \in Rooms |-> 0]]
           /\ drawn' = [drawn EXCEPT ![p] = [r \in Rooms |-> [d \in {} |-> 0]]]
  <2>1. NoMoreTold
    <3>1. NoMoreHeld
      BY <1>1, ChatRests, HeldNoMore
    <3> QED
      BY <1>5, <3>1, ToldNoMore
  <2>2. OneNumber' /\ Used'
    BY <1>1, <2>1 DEF Once, OneNumber, Used, NoMoreTold
  <2>3. ASSUME NEW q \in Readers, NEW a \in Rooms
        PROVE  \/ seen'[q][a] = seen[q][a] /\ drawn'[q][a] = drawn[q][a]
               \/ DOMAIN drawn'[q][a] = {}
    BY <1>7 DEF Typed, PagesTyped
  <2>4. Passed'
    BY <2>1, <2>3 DEF Once, Passed, NoMoreTold
  <2>5. DrawnOnce'
    BY <1>1, <2>3 DEF Once, DrawnOnce
  <2> QED
    BY <2>2, <2>4, <2>5 DEF Once
<1> QED
  BY <1>1, <1>6, <1>7

LEMMA RemoveGameOnce ==
  ASSUME StoreInv, Typed, Once, NEW g \in Games, RemoveGame(g), phase' = phase
  PROVE  Once'
<1>1. /\ rooms' = [r \in Rooms |-> IF r[1] = g THEN <<>> ELSE rooms[r]]
      /\ wire' = wire /\ seen' = seen /\ drawn' = drawn /\ said' = said
  BY DEF RemoveGame
<1>2. NoMoreHeld
  BY <1>1, RemoveGameInv, FewerChatsOf, HeldNoMore, NothingSaid
<1>3. NoMoreTold
  BY <1>1, <1>2, ToldNoMore
<1> QED
  BY <1>1, <1>3, OnceRests

LEMMA HandKeptChats ==
  ASSUME StoreInv, NEW g, HandKept(g), phase' = phase
  PROVE  /\ FewerChats /\ rooms' = rooms /\ UNCHANGED pages /\ said' = said
         /\ store'["chat"] = store["chat"]
<1>1. /\ up /\ g \in live
      /\ store' = [store EXCEPT !["history"] = Recorded(store["history"], g, hands[g] + 1)]
      /\ db' = db /\ live' = live /\ up' = up /\ rooms' = rooms /\ UNCHANGED pages /\ said' = said
  BY DEF HandKept, disk
<1>2. "history" \in Kinds /\ "chat" \in Kinds \ {"history"}
  BY DEF Kinds
<1>3. store'["chat"] = store["chat"]
  BY <1>1, <1>2, NotedInv
<1>4. FewerChats
  BY <1>1, <1>3 DEF FewerChats
<1> QED
  BY <1>1, <1>3, <1>4

LEMMA RunningOnce ==
  ASSUME StoreInv, Typed, Once, Running, phase' = phase
  PROVE  Once'
<1>2. CASE \E k \in Kinds : Timer(k) \/ \E op \in store[k].batch \cup store[k].stray :
             Land(k, op) \/ Refused(k, op)
  <2>1. Fewer
    BY <1>2, TimerInv, LandInv, RefusedInv
  <2>2. UNCHANGED talk /\ UNCHANGED pages /\ said' = said
    BY <1>2 DEF Timer, Land, Refused, spent
  <2> QED
    BY <2>1, <2>2, FewerChatsOf, StoreOnce
<1>3. CASE \E r \in Rooms : Post({r})
  BY <1>3, SpokenTo, PostOnce
<1>4. CASE \E g \in Games : Post(({g} \X Tables) \ closed)
  BY <1>4, SpokenTo, PostOnce
<1>5. CASE \E g \in Games : RemoveGame(g)
  BY <1>5, RemoveGameOnce
<1>6. CASE \E g \in Games : HandKept(g)
  <2>1. FewerChats /\ rooms' = rooms /\ UNCHANGED pages /\ said' = said
    BY <1>6, HandKeptChats
  <2>2. NoMoreHeld
    BY <2>1, HeldNoMore
  <2>3. NoMoreTold
    BY <2>1, <2>2, ToldNoMore DEF pages
  <2> QED
    BY <2>1, <2>3, OnceRests DEF pages
<1>7. CASE \E p \in Readers : Take(p) \/ Return(p) \/ \E r \in Rooms : GoTo(p, r)
  BY <1>7, TakeOnce, ReturnOnce, GoToOnce
<1>8. CASE \E r \in Rooms, to \in Rooms : BreakTable(r, to)
  BY <1>8, BreakTableOnce
<1>9. CASE ListLands \/ \E p \in Readers : Drop(p)
  <2>1. /\ store' = store /\ db' = db /\ rooms' = rooms /\ wire' = wire /\ said' = said
        /\ seen' = seen /\ drawn' = drawn
    BY <1>9 DEF ListLands, Drop, talk, pages, disk, spent
  <2> QED
    BY <2>1, BacklogsOnce
<1> QED
  BY <1>2, <1>3, <1>4, <1>5, <1>6, <1>7, <1>8, <1>9 DEF Running

\* What the tables keep of a game is held of its rooms.
LEMMA TableHeld ==
  ASSUME NEW r \in Rooms, r[1] \in DOMAIN db["chat"], NEW m \in Range(db["chat"][r[1]][r[2]])
  PROVE  Holds(r, m)
BY DEF Holds, About

LEMMA DownHolds ==
  ASSUME StoreInv, Down
  PROVE  NoMoreHeld
<1>1. up /\ rooms' = [r \in Rooms |-> <<>>]
  BY DEF Down, Crash, Stop, Ended
<1>2. FewerChats
  BY <1>1, EndedAbout DEF StoreInv, FewerChats, Kinds
<1> QED
  BY <1>1, <1>2, HeldNoMore, NothingSaid

\* A boot opens on what the tables keep of the games on the list.
LEMMA OpenHolds ==
  ASSUME Open
  PROVE  /\ NoMoreHeld
         /\ \A r \in Rooms : \A m : Holds(r, m)' =>
              r[1] \in DOMAIN db["chat"] /\ m \in Range(db["chat"][r[1]][r[2]])
<1> DEFINE docs == Restrict(db["chat"], DOMAIN db["chat"] \cap listed)
<1>1. rooms' = [r \in Rooms |-> IF r[1] \in DOMAIN docs THEN docs[r[1]][r[2]] ELSE <<>>]
  BY DEF Open, Boot
<1>2. DOMAIN docs = DOMAIN db["chat"] \cap listed /\ \A g \in DOMAIN docs : docs[g] = db["chat"][g]
  BY DEF Restrict
<1> HIDE DEF docs
<1>3. ASSUME NEW r \in Rooms, NEW m, Holds(r, m)'
      PROVE  r[1] \in DOMAIN db["chat"] /\ m \in Range(db["chat"][r[1]][r[2]])
  <2>1. CASE m \in Range(rooms'[r])
    BY <1>1, <1>2, <2>1, NothingSaid
  <2>2. CASE \E d : About(store'["chat"], db'["chat"], r[1], d) /\ m \in Range(d[r[2]])
    <3>1. PICK d : About(store'["chat"], db'["chat"], r[1], d) /\ m \in Range(d[r[2]])
      BY <2>2
    <3>2. "chat" \in Kinds
      BY DEF Kinds
    <3> QED
      BY <3>1, <3>2, OpenAbout
  <2> QED
    BY <1>3, <2>1, <2>2 DEF Holds
<1> QED
  BY <1>3, TableHeld DEF NoMoreHeld

LEMMA PutRowOnce ==
  ASSUME StoreInv, Imported, Once, NEW g \in Games, PutRow(g)
  PROVE  Once'
<1> DEFINE k == reading[1]
           doc == OldDocs[k][g]
<1>1. UNCHANGED talk /\ UNCHANGED pages /\ said' = said
  BY DEF PutRow, spent
<1>2. k \in Kinds /\ g \in DOMAIN OldDocs[k] /\ Noted(k, g, doc)
  BY PutRowAbout
<1>3. k = "chat" => OldDocs["chat"][g] = doc
  OBVIOUS
<1> HIDE DEF k, doc
<1>4. ASSUME NEW r \in Rooms, NEW m, Holds(r, m)'
      PROVE  Told(r, m)
  <2>1. CASE m \in Range(rooms'[r])
    BY <1>1, <2>1 DEF talk, Holds, Told
  <2>2. CASE \E d : About(store'["chat"], db'["chat"], r[1], d) /\ m \in Range(d[r[2]])
    <3>1. PICK d : About(store'["chat"], db'["chat"], r[1], d) /\ m \in Range(d[r[2]])
      BY <2>2
    <3>2. \/ About(store["chat"], db["chat"], r[1], d)
          \/ k = "chat" /\ r[1] = g /\ d = doc
      BY <1>2, <3>1 DEF Noted, Kinds
    <3> QED
      BY <1>2, <1>3, <3>1, <3>2 DEF Told, Holds, SaidBefore
  <2> QED
    BY <1>4, <2>1, <2>2 DEF Holds
<1>5. NoMoreTold
  BY <1>1, <1>4 DEF NoMoreTold, Told, pages, SaidBefore
<1> QED
  BY <1>1, <1>5, OnceRests DEF pages

LEMMA NextOnce ==
  ASSUME StoreInv, Imported, Typed, Once, Next
  PROVE  Once'
<1>1. CASE StartUp \/ RunStep \/ RecordStep \/ ShapeDone
  <2>1. UNCHANGED vars
    BY <1>1 DEF StartUp, RunStep, RecordStep, ShapeDone
  <2> QED
    BY <2>1, ChatRests, StoreOnce DEF vars, disk, spent
<1>2. CASE (\E k \in Sources : PassOver(k) \/ ReadIn(k)) \/ SetAside \/ Die
  <2>1. UNCHANGED talk /\ UNCHANGED pages /\ said' = said /\ store' = store /\ db' = db
    BY <1>2 DEF PassOver, ReadIn, SetAside, Die, disk, spent
  <2> QED
    BY <2>1, ChatRests, StoreOnce
<1>3. CASE \E g \in Games : PutRow(g)
  BY <1>3, PutRowOnce
<1>4. CASE Open
  <2>1. wire' = wire /\ said' = said /\ seen' = seen /\ drawn' = drawn
    BY <1>4 DEF Open, Boot, spent
  <2>2. NoMoreTold
    BY <1>4, <2>1, OpenHolds, ToldNoMore
  <2> QED
    BY <2>1, <2>2, OnceRests
<1>5. CASE Down
  <2>1. /\ wire' = [p \in Readers |-> <<>>] /\ said' = said /\ seen' = seen /\ drawn' = drawn
    BY <1>5 DEF Down, Crash, Stop, Ended
  <2>2. \A p \in Readers : \A r, m : ~OnWire(wire'[p], r, m)
    BY <2>1, NothingSent
  <2>3. NoMoreTold
    BY <1>5, <2>2, DownHolds, ToldNoMore
  <2> QED
    BY <2>1, <2>3, OnceRests
<1>6. CASE Running /\ UNCHANGED boot
  BY <1>6, RunningOnce DEF boot
<1> QED
  BY <1>1, <1>2, <1>3, <1>4, <1>5, <1>6 DEF Next

LEMMA InitOnce ==
  ASSUME Init
  PROVE  Once
<1>1. /\ rooms = [r \in Rooms |-> <<>>] /\ store = [k \in Kinds |-> Fresh(<<>>)]
      /\ db = [k \in Kinds |-> <<>>] /\ wire = [p \in Readers |-> <<>>] /\ said = 0
      /\ drawn = [p \in Readers |-> [r \in Rooms |-> [d \in {} |-> 0]]]
  BY DEF Init
<1>2. \A r \in Rooms : \A m : ~Holds(r, m)
  <2>1. \A g, d : ~About(store["chat"], db["chat"], g, d)
    BY <1>1 DEF About, Fresh, Kinds
  <2> QED
    BY <1>1, <2>1, NothingSaid DEF Holds
<1>3. \A r \in Rooms : \A m : Told(r, m) => SaidBefore(r, m)
  BY <1>1, <1>2, NothingSent, SMTT(30) DEF Told
<1>4. ASSUME NEW r \in Rooms, NEW m, NEW n, SaidBefore(r, m), SaidBefore(r, n)
      PROVE  m.id <= 0 /\ (m.id = n.id => m.seq = n.seq)
  <2> DEFINE ms == OldDocs["chat"][r[1]][r[2]]
             ids == [i \in DOMAIN ms |-> ms[i].id]
  <2>1. IsInjective(ids) /\ \A i \in DOMAIN ms : ms[i].id <= 0
    BY <1>4, RoomsAre, ServerAssumption DEF ServerAssumption, SaidBefore
  <2>2. PICK i \in DOMAIN ms : m = ms[i]
    BY <1>4 DEF SaidBefore, Range
  <2>3. PICK j \in DOMAIN ms : n = ms[j]
    BY <1>4, SMTT(30) DEF SaidBefore, Range
  <2>4. ids[i] = m.id /\ ids[j] = n.id /\ i \in DOMAIN ids /\ j \in DOMAIN ids
    BY <2>2, <2>3
  <2>5. m.id = n.id => i = j
    <3> HIDE DEF ids
    <3> QED
      BY <2>1, <2>4 DEF IsInjective
  <2> QED
    BY <2>1, <2>2, <2>3, <2>5
<1>5. OneNumber /\ Used
  BY <1>1, <1>3, <1>4 DEF OneNumber, Used
<1>6. Passed /\ DrawnOnce
  BY <1>1 DEF Passed, DrawnOnce
<1> QED
  BY <1>5, <1>6 DEF Once

-----------------------------------------------------------------------------
(* What a page is owed *)

\* What is held of each room, and what a page has drawn there.
Held == [r \in Rooms |-> {m \in Message : Holds(r, m)}]
Drew(p) == [r \in Rooms |-> DOMAIN drawn[p][r]]

\* In the rooms of a game all that is held up to the watermark is drawn.
UpTo(s, D, H, g) ==
  \A r \in Rooms : r[1] = g => \A n \in H[r] : n.seq <= s[r] => n.id \in D[r]

\* What is held with a number no higher than one on the wire is drawn, or
\* comes with it or before it.
InOrder(w, D, H) ==
  \A i \in DOMAIN w : \A m \in Range(w[i][2]) : \A n \in H[w[i][1]] : n.seq <= m.seq =>
    n.id \in D[w[i][1]] \/ \E j \in 1..i : w[j][1] = w[i][1] /\ n \in Range(w[j][2])

Comes(w, D, r, M) == \A n \in M : n.id \in D[r] \/ OnWire(w, r, n)

\* A number no higher than one that is kept of the game.
Reach(table, g, k) ==
  \/ k = 0
  \/ g \in DOMAIN table /\ \E t \in Tables : \E m \in Range(table[g][t]) : k <= m.seq
SentWithin(w, g, table) ==
  \A i \in DOMAIN w : w[i][1][1] = g /\ \A m \in Range(w[i][2]) : Reach(table, g, m.seq)
SeenWithin(s, g, table) == \A r \in Rooms : r[1] = g => Reach(table, g, s[r])

LEMMA UpToFewer ==
  ASSUME NEW s, NEW D, NEW H, NEW H2, NEW g, UpTo(s, D, H, g), \A r \in Rooms : H2[r] \subseteq H[r]
  PROVE  UpTo(s, D, H2, g)
BY DEF UpTo

LEMMA InOrderFewer ==
  ASSUME NEW w \in Seq(Payload), NEW D, NEW H, NEW H2, InOrder(w, D, H),
         \A r \in Rooms : H2[r] \subseteq H[r]
  PROVE  InOrder(w, D, H2)
<1>1. \A i \in DOMAIN w : w[i][1] \in Rooms
  BY PayloadIs
<1> QED
  BY <1>1 DEF InOrder

\* What is held anew has numbers above all that is on the wire.
LEMMA InOrderAbove ==
  ASSUME NEW w \in Seq(Payload), NEW D, NEW H, NEW H2, NEW q \in Int, InOrder(w, D, H),
         \A i \in DOMAIN w : \A m \in Range(w[i][2]) : m.seq <= q,
         \A r \in Rooms : \A n \in H2[r] : n \in H[r] \/ (n.seq \in Int /\ n.seq > q)
  PROVE  InOrder(w, D, H2)
<1> SUFFICES ASSUME NEW i \in DOMAIN w, NEW m \in Range(w[i][2]), NEW n \in H2[w[i][1]],
                    n.seq <= m.seq
             PROVE  n \in H[w[i][1]]
  BY DEF InOrder
<1>1. w[i][1] \in Rooms /\ w[i][2] \in Backlogs
  BY PayloadIs
<1>2. m.seq \in Int /\ m.seq <= q
  BY <1>1, MessageIs
<1>3. n \in H[w[i][1]] \/ (n.seq \in Int /\ n.seq > q)
  BY <1>1
<1>4. ~(n.seq \in Int /\ n.seq > q)
  BY <1>2
<1> QED
  BY <1>3, <1>4

\* One payload more, of a room whose messages are drawn, sent or in it.
LEMMA InOrderMore ==
  ASSUME NEW w \in Seq(Payload), NEW D, NEW H, InOrder(w, D, H), NEW r \in Rooms,
         NEW ms \in Backlogs, NEW v, v = Append(w, <<r, ms>>),
         \A n \in H[r] : n \in Range(ms) \/ n.id \in D[r] \/ OnWire(w, r, n)
  PROVE  InOrder(v, D, H)
<1>1. /\ v \in Seq(Payload) /\ DOMAIN v = 1..Len(w) + 1 /\ DOMAIN w = 1..Len(w)
      /\ Len(w) \in Nat /\ v[Len(w) + 1] = <<r, ms>> /\ \A i \in DOMAIN w : v[i] = w[i]
  BY SentMore DEF Payload
<1> SUFFICES ASSUME NEW i \in DOMAIN v, NEW m \in Range(v[i][2]), NEW n \in H[v[i][1]],
                    n.seq <= m.seq, n.id \notin D[v[i][1]]
             PROVE  \E j \in 1..i : v[j][1] = v[i][1] /\ n \in Range(v[j][2])
  BY DEF InOrder
<1>2. CASE i \in DOMAIN w
  <2>1. PICK j \in 1..i : w[j][1] = w[i][1] /\ n \in Range(w[j][2])
    BY <1>1, <1>2 DEF InOrder
  <2>2. j \in DOMAIN w
    BY <1>1, <1>2
  <2> QED
    BY <1>1, <1>2, <2>1, <2>2
<1>3. CASE i = Len(w) + 1
  <2>1. v[i][1] = r /\ v[i][2] = ms
    BY <1>1, <1>3
  <2>2. CASE n \in Range(ms)
    <3>1. i \in 1..i
      BY <1>1, <1>3
    <3> QED
      BY <2>1, <2>2, <3>1
  <2>3. CASE OnWire(w, r, n)
    <3>1. PICK j \in DOMAIN w : w[j][1] = r /\ n \in Range(w[j][2])
      BY <2>3 DEF OnWire
    <3>2. j \in 1..i /\ v[j] = w[j]
      BY <1>1, <1>3
    <3> QED
      BY <2>1, <3>1, <3>2
  <2> QED
    BY <2>1, <2>2, <2>3
<1> QED
  BY <1>1, <1>2, <1>3, SMTT(30)

\* The backlog of a room that holds all that is held of it.
LEMMA BacklogSent ==
  ASSUME NEW w \in Seq(Payload), NEW D, NEW H, InOrder(w, D, H), NEW r \in Rooms,
         NEW ms \in Backlogs, NEW v, v = Append(w, <<r, ms>>), H[r] \subseteq Range(ms)
  PROVE  InOrder(v, D, H) /\ Comes(v, D, r, Range(ms))
<1>1. InOrder(v, D, H)
  BY InOrderMore
<1>2. <<r, ms>> \in Payload
  BY DEF Payload
<1>3. \A n \in Range(ms) : OnWire(v, r, n)
  BY <1>2, SentMore
<1> QED
  BY <1>1, <1>3 DEF Comes

LEMMA SentWithinMore ==
  ASSUME NEW w \in Seq(Payload), NEW g, NEW table, SentWithin(w, g, table), NEW r \in Rooms,
         NEW ms \in Backlogs, NEW v, v = Append(w, <<r, ms>>), r[1] = g,
         \A m \in Range(ms) : Reach(table, g, m.seq)
  PROVE  SentWithin(v, g, table)
<1>1. /\ DOMAIN v = 1..Len(w) + 1 /\ DOMAIN w = 1..Len(w)
      /\ Len(w) \in Nat /\ v[Len(w) + 1] = <<r, ms>> /\ \A i \in DOMAIN w : v[i] = w[i]
  BY SentMore DEF Payload
<1>2. DOMAIN v = DOMAIN w \cup {Len(w) + 1} /\ v[Len(w) + 1][1] = r /\ v[Len(w) + 1][2] = ms
  BY <1>1
<1> QED
  BY <1>1, <1>2 DEF SentWithin

LEMMA NothingOwed ==
  ASSUME NEW D, NEW H, NEW g, NEW table
  PROVE  InOrder(<<>>, D, H) /\ SentWithin(<<>>, g, table)
BY DEF InOrder, SentWithin

\* What is drawn, and what of a payload is above the watermark.
Added(X, ms, n) == X \cup {ms[i].id : i \in {j \in DOMAIN ms : ms[j].seq > n}}

\* The page draws the next thing sent to it, and its watermark moves.
Draws(w, r, ms, k, D, D2, H, s, s2, g) ==
  /\ w \in Seq(Payload) /\ w # <<>> /\ Head(w) = <<r, ms>> /\ r \in Rooms /\ ms \in Backlogs
  /\ r[1] = g /\ k \in Nat /\ s[r] \in Nat /\ s2[r] = k /\ D2[r] = Added(D[r], ms, s[r])
  /\ \A a \in Rooms \ {r} : s2[a] = s[a] /\ D2[a] = D[a]
  /\ k = s[r] \/ \E i \in DOMAIN ms : ms[i].seq = k
  /\ \A a \in Rooms : \A n \in H[a] : n.seq \in Nat

LEMMA HeadTaken ==
  ASSUME NEW w, NEW r, NEW ms, NEW k, NEW D, NEW D2, NEW H, NEW s, NEW s2, NEW g,
         Draws(w, r, ms, k, D, D2, H, s, s2, g), UpTo(s, D, H, g), InOrder(w, D, H)
  PROVE  /\ UpTo(s2, D2, H, g) /\ InOrder(Tail(w), D2, H)
         /\ \A a \in Rooms : \A M : M \subseteq H[a] /\ Comes(w, D, a, M) => Comes(Tail(w), D2, a, M)
<1>0. /\ w \in Seq(Payload) /\ w # <<>> /\ Head(w) = <<r, ms>> /\ r \in Rooms /\ ms \in Backlogs
      /\ r[1] = g /\ k \in Nat /\ s[r] \in Nat /\ s2[r] = k /\ D2[r] = Added(D[r], ms, s[r])
      /\ \A a \in Rooms \ {r} : s2[a] = s[a] /\ D2[a] = D[a]
      /\ k = s[r] \/ \E i \in DOMAIN ms : ms[i].seq = k
      /\ \A a \in Rooms : \A n \in H[a] : n.seq \in Nat
  BY DEF Draws
<1>1. /\ DOMAIN w = 1..Len(w) /\ DOMAIN Tail(w) = 1..(Len(w) - 1) /\ Len(w) \in Nat \ {0}
      /\ w[1] = <<r, ms>> /\ \A i \in DOMAIN Tail(w) : i + 1 \in DOMAIN w /\ Tail(w)[i] = w[i + 1]
      /\ \A q, m : OnWire(w, q, m) => OnWire(Tail(w), q, m) \/ (q = r /\ m \in Range(ms))
  BY <1>0, TailIs
<1>2. w[1][1] = r /\ w[1][2] = ms /\ 1 \in DOMAIN w
  BY <1>1
<1>3. \A a \in Rooms : D[a] \subseteq D2[a]
  BY <1>0 DEF Added
<1>4. ASSUME NEW n \in H[r], n \in Range(ms)
      PROVE  n.id \in D2[r]
  <2>1. CASE n.seq <= s[r]
    BY <1>0, <1>3, <2>1 DEF UpTo
  <2>2. CASE ~(n.seq <= s[r])
    <3>1. PICK i \in DOMAIN ms : n = ms[i]
      BY <1>4 DEF Range
    <3>2. ms[i].seq > s[r]
      BY <1>0, <2>2, <3>1
    <3> QED
      BY <1>0, <3>1, <3>2 DEF Added
  <2> QED
    BY <2>1, <2>2
<1>5. UpTo(s2, D2, H, g)
  <2> SUFFICES ASSUME NEW a \in Rooms, a[1] = g, NEW n \in H[a], n.seq <= s2[a]
               PROVE  n.id \in D2[a]
    BY DEF UpTo
  <2>1. CASE n.seq <= s[a]
    BY <1>0, <1>3, <2>1 DEF UpTo
  <2>2. CASE a = r /\ ~(n.seq <= s[r])
    <3>1. PICK i \in DOMAIN ms : n.seq <= ms[i].seq
      BY <1>0, <2>2
    <3>2. ms[i] \in Range(w[1][2])
      BY <1>2 DEF Range
    <3>3. n.id \in D[r] \/ \E j \in 1..1 : w[j][1] = r /\ n \in Range(w[j][2])
      BY <1>0, <1>2, <2>2, <3>1, <3>2 DEF InOrder
    <3>4. n.id \in D[r] \/ n \in Range(ms)
      BY <1>2, <3>3
    <3> QED
      BY <1>3, <1>4, <2>2, <3>4
  <2> QED
    BY <1>0, <2>1, <2>2
<1>6. InOrder(Tail(w), D2, H)
  <2> DEFINE t == Tail(w)
  <2>1. /\ DOMAIN t = 1..(Len(w) - 1) /\ \A i \in DOMAIN t : i + 1 \in DOMAIN w /\ t[i] = w[i + 1]
    BY <1>1
  <2> HIDE DEF t
  <2>2. InOrder(t, D2, H)
    <3> SUFFICES ASSUME NEW i \in DOMAIN t, NEW m \in Range(t[i][2]), NEW n \in H[t[i][1]],
                        n.seq <= m.seq, n.id \notin D2[t[i][1]]
                 PROVE  \E j \in 1..i : t[j][1] = t[i][1] /\ n \in Range(t[j][2])
      BY DEF InOrder
    <3>1. i + 1 \in DOMAIN w /\ t[i] = w[i + 1] /\ i \in Nat
      BY <1>1, <2>1
    <3>2. t[i][1] \in Rooms
      BY <1>0, <3>1, PayloadIs
    <3>3. PICK j \in 1..(i + 1) : w[j][1] = t[i][1] /\ n \in Range(w[j][2])
      BY <1>3, <3>1, <3>2 DEF InOrder
    <3>4. j # 1
      BY <1>0, <1>2, <1>4, <3>3
    <3>5. j - 1 \in 1..i /\ j - 1 \in DOMAIN t /\ (j - 1) + 1 = j
      BY <1>1, <2>1, <3>1, <3>3, <3>4
    <3>6. t[j - 1] = w[j]
      BY <2>1, <3>5
    <3> QED
      BY <3>3, <3>5, <3>6
  <2> QED
    BY <2>2 DEF t
<1>7. ASSUME NEW a \in Rooms, NEW M, M \subseteq H[a], Comes(w, D, a, M)
      PROVE  Comes(Tail(w), D2, a, M)
  BY <1>0, <1>1, <1>3, <1>4, <1>7 DEF Comes
<1> QED
  BY <1>5, <1>6, <1>7

\* Nobody reads a closed room, or one of a game that is gone.
Placed ==
  \A p \in Readers : at[p] # Nowhere => at[p] \notin closed /\ (up => at[p][1] \in live)

\* A room that is open holds all that is held of it, and no number that is
\* kept is above the last one given.
Whole ==
  up => \A r \in Rooms \ closed : r[1] \in live => \A m : Holds(r, m) => m \in Range(rooms[r])
Numbered ==
  up => \A g \in DOMAIN store["chat"].held : \A t \in Tables :
          \A m \in Range(store["chat"].held[g][t]) : m.seq <= seq

\* What is in a room is kept in memory.
InMemory ==
  up => \A r \in Rooms : r[1] \in live => \A m \in Range(rooms[r]) :
          r[1] \in DOMAIN store["chat"].held /\ m \in Range(store["chat"].held[r[1]][r[2]])

\* As long as nothing is lost an old file is there only before the first
\* server has answered, and before anybody has read anything.
Clean ==
  ~lost => /\ looked \cap files = {}
           /\ files # {} => ~up /\ \A p \in Readers, r \in Rooms : seen[p][r] = 0

Ready == Placed /\ Whole /\ Numbered /\ InMemory /\ Clean

\* A page at a table has drawn all that is held up to its watermarks, is sent
\* the rest in order, and is above nothing that is kept.
Follows(p) ==
  /\ UpTo(seen[p], Drew(p), Held, at[p][1])
  /\ InOrder(wire[p], Drew(p), Held)
  /\ up /\ p \in connected => Comes(wire[p], Drew(p), at[p], Range(rooms[at[p]]))
  /\ up => /\ SentWithin(wire[p], at[p][1], store["chat"].held)
           /\ SeenWithin(seen[p], at[p][1], store["chat"].held)
  /\ ~up /\ at[p][1] \in listed => SeenWithin(seen[p], at[p][1], db["chat"])

Following == ~lost => \A p \in Seated : at[p] # Nowhere => Follows(p)

LEMMA HeldFewer ==
  ASSUME NoMoreHeld
  PROVE  \A r \in Rooms : Held'[r] \subseteq Held[r]
BY DEF NoMoreHeld, Held

LEMMA HeldIs ==
  ASSUME Typed
  PROVE  /\ \A r \in Rooms : \A m : m \in Held[r] <=> Holds(r, m)
         /\ \A r \in Rooms : \A m \in Held[r] : m.seq \in Nat \ {0}
BY HeldTyped DEF Held

\* Who reads where, and in what room.
LEMMA ReaderIs ==
  ASSUME Typed, NEW p \in Seated
  PROVE  /\ p \in Readers /\ wire[p] \in Seq(Payload) /\ \A r \in Rooms : seen[p][r] \in Nat
         /\ at[p] # Nowhere => at[p] \in Rooms /\ at[p][1] \in Games
BY RoomsAre DEF Readers, Typed, PagesTyped

\* The stores move, the list lands, a connection drops.
LEMMA StoreFollows ==
  ASSUME Typed, Ready, Following, up, up' = up, NoMoreHeld,
         store'["chat"].held = store["chat"].held, live' = live, closed' = closed,
         rooms' = rooms, seq' = seq, at' = at, connected' \subseteq connected, wire' = wire,
         seen' = seen, drawn' = drawn, lost' = lost, files' = files, looked' = looked
  PROVE  Ready' /\ Following'
<1>1. Ready'
  BY DEF Ready, Placed, Whole, Numbered, InMemory, Clean, NoMoreHeld
<1>2. \A r \in Rooms : Held'[r] \subseteq Held[r]
  BY HeldFewer
<1>3. ASSUME NEW p \in Seated, at[p] # Nowhere, Follows(p)
      PROVE  Follows(p)'
  <2>1. Drew(p)' = Drew(p)
    BY DEF Drew
  <2>2. wire[p] \in Seq(Payload)
    BY ReaderIs
  <2> DEFINE D == Drew(p)
             w == wire[p]
             s == seen[p]
             H == Held
             H2 == Held'
             g == at[p][1]
  <2>3. UpTo(s, D, H, g) /\ InOrder(w, D, H) /\ w \in Seq(Payload) /\ \A r \in Rooms : H2[r] \subseteq H[r]
    BY <1>2, <1>3, <2>2 DEF Follows
  <2>4. UpTo(s, D, H2, g) /\ InOrder(w, D, H2)
    <3> HIDE DEF D, w, s, H, H2, g
    <3> QED
      BY <2>3, UpToFewer, InOrderFewer
  <2> QED
    BY <1>3, <2>1, <2>4 DEF Follows
<1> QED
  BY <1>1, <1>3 DEF Following

\* The server is down, and the tables and pages are as they were.
LEMMA BootFollows ==
  ASSUME Typed, Ready, Following, ~up, UNCHANGED talk, UNCHANGED pages, up' = up,
         store' = store, db' = db, listed' = listed, Clean', lost => lost'
  PROVE  Ready' /\ Following'
<1>1. NoMoreHeld
  BY DEF NoMoreHeld, Holds, talk
<1>2. Ready'
  BY DEF Ready, Placed, Whole, Numbered, InMemory, talk, pages
<1>3. \A r \in Rooms : Held'[r] \subseteq Held[r]
  BY <1>1, HeldFewer
<1>4. ASSUME NEW p \in Seated, at[p] # Nowhere, Follows(p)
      PROVE  Follows(p)'
  <2>1. Drew(p)' = Drew(p) /\ wire' = wire /\ seen' = seen /\ at' = at
    BY DEF Drew, pages
  <2>2. wire[p] \in Seq(Payload)
    BY ReaderIs
  <2> DEFINE D == Drew(p)
             w == wire[p]
             s == seen[p]
             H == Held
             H2 == Held'
             g == at[p][1]
  <2>3. UpTo(s, D, H, g) /\ InOrder(w, D, H) /\ w \in Seq(Payload) /\ \A r \in Rooms : H2[r] \subseteq H[r]
    BY <1>3, <1>4, <2>2 DEF Follows
  <2>4. UpTo(s, D, H2, g) /\ InOrder(w, D, H2)
    <3> HIDE DEF D, w, s, H, H2, g
    <3> QED
      BY <2>3, UpToFewer, InOrderFewer
  <2> QED
    BY <1>4, <2>1, <2>4 DEF Follows
<1> QED
  BY <1>2, <1>4 DEF Following, pages

\* The server is down, and nobody has read anything.
LEMMA UnreadFollows ==
  ASSUME Typed', ~up', Placed', Clean', files' # {}
  PROVE  Ready' /\ Following'
<1>1. Ready'
  BY DEF Ready, Whole, Numbered, InMemory
<1>2. ASSUME ~lost', NEW p \in Seated, at'[p] # Nowhere
      PROVE  Follows(p)'
  <2>1. p \in Readers /\ wire'[p] = <<>> /\ \A r \in Rooms : seen'[p][r] = 0
    BY <1>2 DEF Readers, Clean, Typed, Silent
  <2>2. \A r \in Rooms : \A m \in Held'[r] : m.seq \in Nat \ {0}
    BY DEF Held, Message
  <2>3. UpTo(seen[p], Drew(p), Held, at[p][1])'
    BY <2>1, <2>2 DEF UpTo
  <2>4. InOrder(wire[p], Drew(p), Held)'
    BY <2>1 DEF InOrder
  <2>5. SeenWithin(seen[p], at[p][1], db["chat"])'
    BY <2>1 DEF SeenWithin, Reach
  <2> QED
    BY <2>3, <2>4, <2>5 DEF Follows
<1> QED
  BY <1>1, <1>2 DEF Following

\* What is kept is below the last number given.
LEMMA ReachIs ==
  ASSUME StoreInv, Typed, Ready, up, NEW g, NEW k \in Nat, Reach(store["chat"].held, g, k)
  PROVE  k <= seq /\ seq \in Nat
<1>1. seq \in Nat
  BY DEF Typed, TalkTyped
<1>2. CASE k = 0
  BY <1>1, <1>2
<1>3. CASE k # 0
  <2>1. /\ g \in DOMAIN store["chat"].held
        /\ \E t \in Tables : \E m \in Range(store["chat"].held[g][t]) : k <= m.seq
    BY <1>3 DEF Reach
  <2>2. PICK t \in Tables : \E m \in Range(store["chat"].held[g][t]) : k <= m.seq
    BY <2>1
  <2>3. PICK m \in Range(store["chat"].held[g][t]) : k <= m.seq
    BY <2>2
  <2>4. store["chat"].held[g] \in Docs("chat")
    BY <2>1 DEF Typed, StoresTyped, About, Kinds
  <2>5. store["chat"].held[g][t] \in Backlogs
    BY <2>4 DEF Docs
  <2>6. m.seq \in Nat
    BY <2>5, MessageIs
  <2>7. m.seq <= seq
    BY <2>1 DEF Ready, Numbered
  <2> QED
    BY <1>1, <2>3, <2>6, <2>7
<1> QED
  BY <1>2, <1>3

\* Nothing of a reader's page moves, and no more is held.
LEMMA SameReader ==
  ASSUME Typed, NEW p \in Seated, at[p] # Nowhere, Follows(p), NoMoreHeld, up, up',
         at'[p] = at[p], wire'[p] = wire[p], seen'[p] = seen[p],
         \A r \in Rooms : drawn'[p][r] = drawn[p][r], p \in connected' => p \in connected,
         Range(rooms'[at[p]]) \subseteq Range(rooms[at[p]]),
         \A k : Reach(store["chat"].held, at[p][1], k) => Reach(store'["chat"].held, at[p][1], k)
  PROVE  Follows(p)'
<1>1. Drew(p)' = Drew(p)
  BY DEF Drew
<1> DEFINE D == Drew(p)
           w == wire[p]
           s == seen[p]
           H == Held
           H2 == Held'
           g == at[p][1]
<1>2. UpTo(s, D, H, g) /\ InOrder(w, D, H) /\ w \in Seq(Payload) /\ \A r \in Rooms : H2[r] \subseteq H[r]
  BY HeldFewer, ReaderIs DEF Follows
<1>3. UpTo(s, D, H2, g) /\ InOrder(w, D, H2)
  <2> HIDE DEF D, w, s, H, H2, g
  <2> QED
    BY <1>2, UpToFewer, InOrderFewer
<1>4. p \in connected' => Comes(w, D, at[p], Range(rooms'[at[p]]))
  BY DEF Follows, Comes
<1>5. SentWithin(w, g, store'["chat"].held) /\ SeenWithin(s, g, store'["chat"].held)
  BY DEF Follows, SentWithin, SeenWithin
<1> QED
  BY <1>1, <1>3, <1>4, <1>5 DEF Follows

\* A reader is moved to another room of the game and is sent what is in it.
LEMMA MovedReader ==
  ASSUME Typed, NEW p \in Seated, at[p] # Nowhere, Follows(p), NoMoreHeld, up, up',
         NEW to \in Rooms, to[1] = at[p][1], at'[p] = to, wire'[p] = History(wire[p], p, to),
         seen' = seen, drawn' = drawn, connected' = connected, store' = store,
         rooms'[to] = rooms[to], Held[to] \subseteq Range(rooms[to]),
         \A m \in Range(rooms[to]) : Reach(store["chat"].held, to[1], m.seq)
  PROVE  Follows(p)'
<1>1. Drew(p)' = Drew(p)
  BY DEF Drew
<1> DEFINE D == Drew(p)
           w == wire[p]
           v == wire'[p]
           s == seen[p]
           H == Held
           H2 == Held'
           g == to[1]
           ms == rooms[to]
           table == store["chat"].held
<1>2. /\ UpTo(s, D, H, g) /\ InOrder(w, D, H) /\ w \in Seq(Payload)
      /\ \A r \in Rooms : H2[r] \subseteq H[r]
      /\ SentWithin(w, g, table) /\ SeenWithin(s, g, table)
  BY HeldFewer, ReaderIs DEF Follows
<1>3. ms \in Backlogs /\ H[to] \subseteq Range(ms) /\ \A m \in Range(ms) : Reach(table, g, m.seq)
  BY DEF Typed, TalkTyped
<1>4. v = IF p \in connected THEN Append(w, <<to, ms>>) ELSE w
  BY DEF History
<1>5. <<to, ms>> \in Payload
  BY <1>3 DEF Payload
<1>6. g = to[1]
  OBVIOUS
<1> HIDE DEF D, w, v, s, H, H2, g, ms, table
<1>7. /\ v \in Seq(Payload) /\ InOrder(v, D, H) /\ SentWithin(v, g, table)
      /\ p \in connected => Comes(v, D, to, Range(ms))
  <2>1. CASE p \in connected
    <3>1. v = Append(w, <<to, ms>>)
      BY <1>4, <2>1
    <3>2. InOrder(v, D, H) /\ Comes(v, D, to, Range(ms))
      BY <1>2, <1>3, <3>1, BacklogSent
    <3>3. SentWithin(v, g, table)
      BY <1>2, <1>3, <1>6, <3>1, SentWithinMore
    <3>4. v \in Seq(Payload)
      BY <1>2, <1>5, <3>1
    <3> QED
      BY <3>2, <3>3, <3>4
  <2>2. CASE p \notin connected
    BY <1>2, <1>4, <2>2
  <2> QED
    BY <2>1, <2>2
<1>8. UpTo(s, D, H2, g) /\ InOrder(v, D, H2)
  BY <1>2, <1>7, UpToFewer, InOrderFewer
<1> QED
  BY <1>1, <1>2, <1>7, <1>8 DEF Follows, D, w, v, s, H, H2, g, ms, table

LEMMA RoomWhole ==
  ASSUME StoreInv, Typed, Ready, up, NEW r \in Rooms, r \notin closed, r[1] \in live
  PROVE  /\ Held[r] \subseteq Range(rooms[r])
         /\ \A m \in Range(rooms[r]) : Reach(store["chat"].held, r[1], m.seq)
<1>1. Held[r] \subseteq Range(rooms[r])
  BY HeldIs DEF Ready, Whole
<1>2. ASSUME NEW m \in Range(rooms[r])
      PROVE  Reach(store["chat"].held, r[1], m.seq)
  <2>1. r[1] \in DOMAIN store["chat"].held /\ m \in Range(store["chat"].held[r[1]][r[2]])
    BY DEF Ready, InMemory
  <2>2. rooms[r] \in Backlogs
    BY DEF Typed, TalkTyped
  <2>3. m.seq <= m.seq
    BY <2>2, MessageIs
  <2> QED
    BY <2>1, <2>3, RoomsAre DEF Reach
<1> QED
  BY <1>1, <1>2

LEMMA GoToFollows ==
  ASSUME StoreInv, Typed, Ready, Following, up, up' = up, NEW p \in Readers, NEW r \in Rooms,
         GoTo(p, r), UNCHANGED boot
  PROVE  Ready' /\ Following'
<1>1. /\ at' = [at EXCEPT ![p] = r] /\ wire' = [wire EXCEPT ![p] = History(wire[p], p, r)]
      /\ at[p] # Nowhere /\ r[1] = at[p][1] /\ r \notin closed
      /\ live' = live /\ rooms' = rooms /\ closed' = closed /\ seq' = seq
      /\ connected' = connected /\ seen' = seen /\ drawn' = drawn
      /\ store' = store /\ db' = db /\ lost' = lost /\ files' = files /\ looked' = looked
  BY DEF GoTo, talk, disk, boot
<1>2. NoMoreHeld
  BY <1>1, ChatRests, HeldNoMore
<1>3. \A q \in Readers : at'[q] = (IF q = p THEN r ELSE at[q])
  BY <1>1 DEF Typed, PagesTyped
<1>4. r[1] \in live
  BY <1>1 DEF Ready, Placed
<1>5. Ready'
  BY <1>1, <1>2, <1>3, <1>4, SMTT(30) DEF Ready, Placed, Whole, Numbered, InMemory, Clean, NoMoreHeld
<1>6. ASSUME NEW q \in Seated, at'[q] # Nowhere, ~lost
      PROVE  Follows(q)'
  <2>1. q \in Readers
    BY DEF Readers
  <2>2. CASE q = p
    <3>1. Follows(p)
      BY <1>1, <1>6, <2>2 DEF Following
    <3>2. wire'[p] = History(wire[p], p, r) /\ at'[p] = r
      BY <1>1, <1>3 DEF Typed, PagesTyped
    <3>3. /\ Held[r] \subseteq Range(rooms[r])
          /\ \A m \in Range(rooms[r]) : Reach(store["chat"].held, r[1], m.seq)
      BY <1>1, <1>4, RoomWhole
    <3> QED
      BY <1>1, <1>2, <2>2, <3>1, <3>2, <3>3, MovedReader
  <2>3. CASE q # p
    <3>1. at'[q] = at[q] /\ wire'[q] = wire[q]
      BY <1>1, <1>3, <2>1, <2>3 DEF Typed, PagesTyped
    <3>2. Follows(q)
      BY <1>6, <3>1 DEF Following
    <3> QED
      BY <1>1, <1>2, <1>6, <3>1, <3>2, SameReader
  <2> QED
    BY <2>2, <2>3
<1> QED
  BY <1>1, <1>5, <1>6 DEF Following

LEMMA BreakTableFollows ==
  ASSUME StoreInv, Typed, Ready, Following, up, up' = up, NEW r \in Rooms, NEW to \in Rooms,
         BreakTable(r, to), UNCHANGED boot
  PROVE  Ready' /\ Following'
<1>1. /\ r[1] \in live /\ to # r /\ to[1] = r[1] /\ r \notin closed /\ to \notin closed
      /\ at' = [p \in Readers |-> IF at[p] = r THEN to ELSE at[p]]
      /\ wire' = [p \in Readers |-> IF at[p] = r /\ p \in Seated
                                    THEN History(wire[p], p, to) ELSE wire[p]]
      /\ rooms' = [rooms EXCEPT ![r] = <<>>] /\ closed' = closed \cup {r}
      /\ live' = live /\ seq' = seq /\ connected' = connected /\ seen' = seen /\ drawn' = drawn
      /\ store' = store /\ db' = db /\ lost' = lost /\ files' = files /\ looked' = looked
  BY DEF BreakTable, disk, boot
<1>2. rooms'[r] = <<>> /\ \A a \in Rooms \ {r} : rooms'[a] = rooms[a]
  BY <1>1 DEF Typed, TalkTyped
<1>3. NoMoreHeld
  BY <1>1, <1>2, ChatRests, HeldNoMore, NothingSaid
<1>4. Ready'
  <2>1. Placed'
    BY <1>1 DEF Ready, Placed
  <2>2. Whole'
    BY <1>1, <1>2, <1>3 DEF Ready, Whole, NoMoreHeld
  <2>3. Numbered' /\ Clean'
    BY <1>1 DEF Ready, Numbered, Clean
  <2>4. InMemory'
    BY <1>1, <1>2, NothingSaid DEF Ready, InMemory
  <2> QED
    BY <2>1, <2>2, <2>3, <2>4 DEF Ready
<1>5. ASSUME NEW q \in Seated, at'[q] # Nowhere, ~lost
      PROVE  Follows(q)'
  <2>1. q \in Readers
    BY DEF Readers
  <2>2. CASE at[q] = r
    <3>1. at[q] # Nowhere
      BY <2>2, ChatAssumption DEF ChatAssumption, Rooms
    <3>2. Follows(q)
      BY <1>5, <3>1 DEF Following
    <3>3. wire'[q] = History(wire[q], q, to) /\ at'[q] = to
      BY <1>1, <2>1, <2>2
    <3>4. /\ Held[to] \subseteq Range(rooms[to])
          /\ \A m \in Range(rooms[to]) : Reach(store["chat"].held, to[1], m.seq)
      BY <1>1, RoomWhole
    <3>5. rooms'[to] = rooms[to] /\ to[1] = at[q][1]
      BY <1>1, <1>2, <2>2
    <3> QED
      BY <1>1, <1>3, <3>1, <3>2, <3>3, <3>4, <3>5, MovedReader
  <2>3. CASE at[q] # r
    <3>1. at'[q] = at[q] /\ wire'[q] = wire[q]
      BY <1>1, <2>1, <2>3
    <3>2. Follows(q) /\ at[q] \in Rooms
      BY <1>5, <3>1, ReaderIs DEF Following
    <3>3. rooms'[at[q]] = rooms[at[q]]
      BY <1>2, <2>3, <3>2
    <3> QED
      BY <1>1, <1>3, <1>5, <3>1, <3>2, <3>3, SameReader
  <2> QED
    BY <2>2, <2>3
<1> QED
  BY <1>1, <1>4, <1>5 DEF Following

\* A page that comes back is sent the room, after what it missed or anew.
LEMMA ReturnFollows ==
  ASSUME StoreInv, Typed, Ready, Following, up' = up, NEW p \in Readers, Return(p), UNCHANGED boot
  PROVE  Ready' /\ Following'
<1> DEFINE a == at[p]
           ms == rooms[at[p]]
           b == <<a, ms>>
<1>1. /\ up /\ at[p] # Nowhere /\ at' = at
      /\ live' = live /\ rooms' = rooms /\ closed' = closed /\ seq' = seq
      /\ connected' = connected \cup {p}
      /\ store' = store /\ db' = db /\ lost' = lost /\ files' = files /\ looked' = looked
      /\ \/ /\ \E missed \in {wire[p], <<>>} : wire' = [wire EXCEPT ![p] = Append(missed, b)]
            /\ seen' = seen /\ drawn' = drawn
         \/ /\ wire' = [wire EXCEPT ![p] = <<b>>]
            /\ seen' = [seen EXCEPT ![p] = [r \in Rooms |-> 0]]
            /\ drawn' = [drawn EXCEPT ![p] = [r \in Rooms |-> [d \in {} |-> 0]]]
  BY DEF Return, talk, disk, spent, boot
<1>2. NoMoreHeld
  BY <1>1, ChatRests, HeldNoMore
<1>3. Ready'
  <2>1. Clean'
    BY <1>1 DEF Ready, Clean
  <2> QED
    BY <1>1, <1>2, <2>1 DEF Ready, Placed, Whole, Numbered, InMemory, NoMoreHeld
<1>4. a \in Rooms /\ ms \in Backlogs /\ a \notin closed /\ a[1] \in live
  BY <1>1 DEF Typed, PagesTyped, TalkTyped, Ready, Placed
<1>5. /\ Held[a] \subseteq Range(ms)
      /\ \A m \in Range(ms) : Reach(store["chat"].held, a[1], m.seq)
  BY <1>1, <1>4, RoomWhole
<1>6. ASSUME p \in Seated, ~lost
      PROVE  Follows(p)'
  <2> DEFINE D == Drew(p)
             w == wire[p]
             v == wire'[p]
             H == Held
             H2 == Held'
             table == store["chat"].held
  <2>1. Follows(p)
    BY <1>1, <1>6 DEF Following
  <2>2. /\ UpTo(seen[p], D, H, a[1]) /\ InOrder(w, D, H) /\ w \in Seq(Payload)
        /\ \A r \in Rooms : H2[r] \subseteq H[r]
        /\ SentWithin(w, a[1], table) /\ SeenWithin(seen[p], a[1], table)
    BY <1>1, <1>2, <1>6, <2>1, HeldFewer, ReaderIs DEF Follows
  <2>3. <<>> \in Seq(Payload) /\ <<a, ms>> \in Payload
    BY <1>4 DEF Payload
  <2>4. <<b>> = Append(<<>>, b)
    OBVIOUS
  <2>5. ASSUME NEW E, NEW x \in Seq(Payload), InOrder(x, E, H), SentWithin(x, a[1], table),
               v = Append(x, <<a, ms>>)
        PROVE  InOrder(v, E, H2) /\ SentWithin(v, a[1], table) /\ Comes(v, E, a, Range(ms))
    <3> HIDE DEF v, H, H2, table, a, ms
    <3>1. InOrder(v, E, H) /\ Comes(v, E, a, Range(ms))
      BY <1>4, <1>5, <2>5, BacklogSent DEF H
    <3>2. SentWithin(v, a[1], table)
      BY <1>4, <1>5, <2>5, SentWithinMore DEF table
    <3>3. v \in Seq(Payload)
      BY <2>3, <2>5
    <3> QED
      BY <2>2, <3>1, <3>2, <3>3, InOrderFewer
  <2>6. CASE /\ \E missed \in {wire[p], <<>>} : wire' = [wire EXCEPT ![p] = Append(missed, b)]
             /\ seen' = seen /\ drawn' = drawn
    <3>1. PICK missed \in {wire[p], <<>>} : wire' = [wire EXCEPT ![p] = Append(missed, b)]
      BY <2>6
    <3>2. v = Append(missed, <<a, ms>>)
      <4> HIDE DEF a, ms
      <4> QED
        BY <3>1 DEF Typed, PagesTyped
    <3>3. missed \in Seq(Payload) /\ InOrder(missed, D, H) /\ SentWithin(missed, a[1], table)
      BY <2>2, <2>3, NothingOwed
    <3>4. InOrder(v, D, H2) /\ SentWithin(v, a[1], table) /\ Comes(v, D, a, Range(ms))
      BY <2>5, <3>2, <3>3
    <3>5. UpTo(seen[p], D, H2, a[1])
      <4> HIDE DEF D, H, H2, a
      <4> QED
        BY <2>2, UpToFewer
    <3>6. Drew(p)' = D
      BY <2>6 DEF Drew
    <3> QED
      BY <1>1, <2>2, <2>6, <3>4, <3>5, <3>6 DEF Follows
  <2>7. CASE /\ wire' = [wire EXCEPT ![p] = <<b>>]
             /\ seen' = [seen EXCEPT ![p] = [r \in Rooms |-> 0]]
             /\ drawn' = [drawn EXCEPT ![p] = [r \in Rooms |-> [d \in {} |-> 0]]]
    <3> DEFINE E == Drew(p)'
    <3>1. v = Append(<<>>, <<a, ms>>)
      <4> HIDE DEF a, ms
      <4> QED
        BY <2>4, <2>7 DEF Typed, PagesTyped
    <3>2. InOrder(<<>>, E, H) /\ SentWithin(<<>>, a[1], table)
      BY NothingOwed
    <3>3. InOrder(v, E, H2) /\ SentWithin(v, a[1], table) /\ Comes(v, E, a, Range(ms))
      <4> HIDE DEF E, v, H, H2, table, a, ms, b
      <4> QED
        BY <2>3, <2>5, <3>1, <3>2
    <3>4. \A r \in Rooms : seen'[p][r] = 0
      BY <2>7 DEF Typed, PagesTyped
    <3>5. UpTo(seen'[p], E, H2, a[1])
      <4>1. \A r \in Rooms : \A n \in H2[r] : n.seq \in Nat \ {0}
        BY DEF Held, Message
      <4> QED
        BY <3>4, <4>1 DEF UpTo
    <3>6. SeenWithin(seen'[p], a[1], table)
      BY <3>4 DEF SeenWithin, Reach
    <3> QED
      BY <1>1, <3>3, <3>5, <3>6 DEF Follows
  <2> QED
    BY <1>1, <2>6, <2>7
<1>7. ASSUME NEW q \in Seated, at'[q] # Nowhere, ~lost, q # p
      PROVE  Follows(q)'
  <2>1. q \in Readers
    BY DEF Readers
  <2>2. /\ wire'[q] = wire[q] /\ seen'[q] = seen[q] /\ drawn'[q] = drawn[q]
        /\ q \in connected' => q \in connected
    <3> HIDE DEF b
    <3> QED
      BY <1>1, <1>7, <2>1 DEF Typed, PagesTyped
  <2>3. Follows(q)
    BY <1>1, <1>7 DEF Following
  <2> QED
    BY <1>1, <1>2, <1>7, <2>2, <2>3, SameReader
<1> QED
  BY <1>1, <1>3, <1>6, <1>7 DEF Following

LEMMA RemoveGameFollows ==
  ASSUME StoreInv, Typed, Ready, Following, phase' = phase, up' = up, NEW g \in Games, RemoveGame(g),
         UNCHANGED boot
  PROVE  Ready' /\ Following'
<1>1. /\ up /\ live' = live \ {g} /\ closed' = closed /\ seq' = seq
      /\ rooms' = [r \in Rooms |-> IF r[1] = g THEN <<>> ELSE rooms[r]]
      /\ at' = [p \in Readers |-> IF at[p] # Nowhere /\ at[p][1] = g THEN Nowhere ELSE at[p]]
      /\ connected' = connected /\ wire' = wire /\ seen' = seen /\ drawn' = drawn
      /\ lost' = lost /\ files' = files /\ looked' = looked
  BY DEF RemoveGame, boot
<1>2. NoMoreHeld
  BY <1>1, RemoveGameInv, FewerChatsOf, HeldNoMore, NothingSaid
<1>3. /\ \A h \in DOMAIN store'["chat"].held :
           h \in DOMAIN store["chat"].held /\ store'["chat"].held[h] = store["chat"].held[h]
      /\ \A h \in DOMAIN store["chat"].held \ {g} : h \in DOMAIN store'["chat"].held
  BY RemoveGameInv
<1>4. Ready'
  <2>1. Placed' /\ Clean'
    BY <1>1 DEF Ready, Placed, Clean
  <2>2. Whole'
    BY <1>1, <1>2 DEF Ready, Whole, NoMoreHeld
  <2>3. Numbered'
    BY <1>1, <1>3 DEF Ready, Numbered
  <2>4. InMemory'
    BY <1>1, <1>3 DEF Ready, InMemory
  <2> QED
    BY <2>1, <2>2, <2>3, <2>4 DEF Ready
<1>5. ASSUME NEW q \in Seated, at'[q] # Nowhere, ~lost
      PROVE  Follows(q)'
  <2>1. q \in Readers
    BY DEF Readers
  <2>2. at'[q] = at[q] /\ at[q] # Nowhere /\ at[q][1] # g
    BY <1>1, <1>5, <2>1
  <2>3. Follows(q) /\ at[q] \in Rooms
    BY <1>5, <2>2, ReaderIs DEF Following
  <2>4. rooms'[at[q]] = rooms[at[q]]
    BY <1>1, <2>2, <2>3
  <2>5. \A k : Reach(store["chat"].held, at[q][1], k) => Reach(store'["chat"].held, at[q][1], k)
    BY <1>3, <2>2 DEF Reach
  <2> QED
    BY <1>1, <1>2, <2>2, <2>3, <2>4, <2>5, SameReader
<1> QED
  BY <1>1, <1>4, <1>5 DEF Following

LEMMA TakeFollows ==
  ASSUME StoreInv, Typed, Ready, Following, up, up' = up, NEW p \in Readers, Take(p), UNCHANGED boot
  PROVE  Ready' /\ Following'
<1>1. PICK r, ms, I, k : Takes(p, r, ms, I, k)
  BY TakeIs
<1>2. /\ wire[p] \in Seq(Payload) /\ wire[p] # <<>> /\ Head(wire[p]) = <<r, ms>>
      /\ r \in Rooms /\ ms \in Backlogs
      /\ I = {i \in DOMAIN ms : ms[i].seq > seen[p][r]}
      /\ k \in Nat /\ seen[p][r] \in Nat
      /\ k = seen[p][r] \/ \E i \in DOMAIN ms : ms[i].seq = k
  BY <1>1 DEF Takes
<1>3. /\ seen'[p][r] = k
      /\ \A q \in Readers, a \in Rooms : ~(q = p /\ a = r) =>
           seen'[q][a] = seen[q][a] /\ drawn'[q][a] = drawn[q][a]
      /\ \A q \in Readers \ {p} : wire'[q] = wire[q]
      /\ wire'[p] = Tail(wire[p])
      /\ DOMAIN drawn'[p][r] = DOMAIN drawn[p][r] \cup {ms[i].id : i \in I}
  BY <1>1, TakesTo DEF Typed
<1>4. /\ live' = live /\ rooms' = rooms /\ closed' = closed /\ seq' = seq
      /\ at' = at /\ connected' = connected
      /\ store' = store /\ db' = db /\ lost' = lost /\ files' = files /\ looked' = looked
  BY DEF Take, talk, disk, spent, boot
<1>5. NoMoreHeld
  BY <1>4, ChatRests, HeldNoMore
<1>6. Ready'
  <2>1. Clean'
    BY <1>4 DEF Ready, Clean
  <2> QED
    BY <1>4, <1>5, <2>1 DEF Ready, Placed, Whole, Numbered, InMemory, NoMoreHeld
<1>7. Held' = Held
  BY <1>4 DEF Held, Holds
<1>8. ASSUME p \in Seated, at[p] # Nowhere, ~lost
      PROVE  Follows(p)'
  <2> DEFINE D == Drew(p)
             D2 == Drew(p)'
             w == wire[p]
             H == Held
             s == seen[p]
             s2 == seen'[p]
             g == at[p][1]
             table == store["chat"].held
  <2>1. Follows(p)
    BY <1>8 DEF Following
  <2>2. /\ UpTo(s, D, H, g) /\ InOrder(w, D, H) /\ SentWithin(w, g, table) /\ SeenWithin(s, g, table)
        /\ p \in connected => Comes(w, D, at[p], Range(rooms[at[p]]))
    BY <2>1 DEF Follows
  <2>3. w \in Seq(Payload) /\ w # <<>> /\ Head(w) = <<r, ms>> /\ s[r] \in Nat
    BY <1>2
  <2>4. /\ D2[r] = Added(D[r], ms, s[r])
        /\ \A a \in Rooms \ {r} : s2[a] = s[a] /\ D2[a] = D[a]
        /\ s2[r] = k
    BY <1>2, <1>3 DEF Drew, Added
  <2>5. \A a \in Rooms : \A n \in H[a] : n.seq \in Nat
    BY HeldIs
  <2>6. at[p] \in Rooms /\ Range(rooms[at[p]]) \subseteq H[at[p]]
    BY <1>8, HeldIs, ReaderIs DEF Holds
  <2>7. k = s[r] \/ \E i \in DOMAIN ms : ms[i].seq = k
    BY <1>2
  <2>8. wire'[p] = Tail(w)
    BY <1>3
  <2> DEFINE M == Range(rooms[at[p]])
             a0 == at[p]
  <2>9. a0 \in Rooms /\ M \subseteq H[a0] /\ (p \in connected => Comes(w, D, a0, M))
    BY <2>2, <2>6
  <2> HIDE DEF D, D2, w, H, s, s2, g, table, M, a0
  <2>10. /\ DOMAIN w = 1..Len(w) /\ DOMAIN Tail(w) = 1..(Len(w) - 1) /\ Len(w) \in Nat \ {0}
         /\ w[1] = <<r, ms>>
         /\ \A i \in DOMAIN Tail(w) : i + 1 \in DOMAIN w /\ Tail(w)[i] = w[i + 1]
    BY <2>3, TailIs
  <2>11. w[1][1] = r /\ w[1][2] = ms /\ 1 \in DOMAIN w
    BY <2>10
  <2>12. r[1] = g /\ \A i \in DOMAIN ms : Reach(table, g, ms[i].seq)
    BY <2>2, <2>11 DEF SentWithin, Range
  <2>13. /\ UpTo(s2, D2, H, g) /\ InOrder(Tail(w), D2, H)
         /\ \A a \in Rooms : \A N : N \subseteq H[a] /\ Comes(w, D, a, N) => Comes(Tail(w), D2, a, N)
    <3>1. UpTo(s, D, H, g) /\ InOrder(w, D, H) /\ r[1] = g
      BY <2>2, <2>12
    <3>2. Draws(w, r, ms, k, D, D2, H, s, s2, g)
      BY <1>2, <2>3, <2>4, <2>5, <2>7, <3>1 DEF Draws
    <3> QED
      BY <3>1, <3>2, HeadTaken
  <2>14. SentWithin(Tail(w), g, table)
    <3> DEFINE t == Tail(w)
    <3>1. \A i \in DOMAIN t : i + 1 \in DOMAIN w /\ t[i] = w[i + 1]
      BY <2>10
    <3> HIDE DEF t
    <3>2. SentWithin(t, g, table)
      BY <2>2, <3>1 DEF SentWithin
    <3> QED
      BY <3>2 DEF t
  <2>15. SeenWithin(s2, g, table)
    BY <2>2, <2>4, <2>7, <2>12 DEF SeenWithin
  <2>16. p \in connected => Comes(Tail(w), D2, a0, M)
    BY <2>9, <2>13
  <2>17. wire'[p] = Tail(w)
    BY <2>8
  <2> QED
    BY <1>4, <1>7, <2>13, <2>14, <2>15, <2>16, <2>17 DEF Follows, D2, H, s2, g, table, a0, M
<1>9. ASSUME NEW q \in Seated, at'[q] # Nowhere, ~lost, q # p
      PROVE  Follows(q)'
  <2>1. q \in Readers
    BY DEF Readers
  <2>2. wire'[q] = wire[q] /\ \A a \in Rooms : seen'[q][a] = seen[q][a] /\ drawn'[q][a] = drawn[q][a]
    BY <1>3, <1>9, <2>1
  <2>3. Follows(q)
    BY <1>4, <1>9 DEF Following
  <2>4. seen'[q] = seen[q]
    <3>1. seen' = [seen EXCEPT ![p][r] = k]
      BY <1>1 DEF Takes
    <3> QED
      BY <1>9, <2>1, <3>1 DEF Typed, PagesTyped
  <2> QED
    BY <1>4, <1>5, <1>9, <2>2, <2>3, <2>4, SameReader
<1> QED
  BY <1>4, <1>6, <1>8, <1>9 DEF Following

\* What is said is kept at once, above everything there was.
LEMMA SaidReach ==
  ASSUME StoreInv, Typed, Ready, up, up' = up, phase' = phase, db' = db, live' = live,
         NEW S, NEW g, Spoken(S, g), NEW new, NEW N, Says(S, g, new, N)
  PROVE  /\ \A h : \A k \in Nat :
              Reach(store["chat"].held, h, k) => Reach(store'["chat"].held, h, k)
         /\ \A r \in S : Reach(store'["chat"].held, g, new[r].seq)
<1> DEFINE doc == [t \in Tables |-> rooms'[<<g, t>>]]
           held == store["chat"].held
           held2 == store'["chat"].held
<1>0. Numbers(S, new, N) /\ S # {}
  BY DEF Says
<1>1. /\ held2 = With(held, g, doc)
      /\ \A r \in Rooms : Range(rooms'[r]) = IF r \in S THEN Range(rooms[r]) \cup {new[r]}
                                             ELSE Range(rooms[r])
  BY SaidHolds
<1>2. \A r \in S : r \in Rooms /\ r = <<g, r[2]>> /\ r[2] \in Tables
  BY RoomsAre DEF Spoken
<1>3. \A t \in Tables : doc[t] = rooms'[<<g, t>>]
  OBVIOUS
<1> HIDE DEF doc, held, held2
<1>4. g \in DOMAIN held2 /\ held2[g] = doc /\ \A h \in DOMAIN held \ {g} : h \in DOMAIN held2 /\ held2[h] = held[h]
  BY <1>1 DEF With
<1>5. ASSUME NEW r \in S, NEW k \in Nat, k <= new[r].seq
      PROVE  Reach(held2, g, k)
  <2> DEFINE t == r[2]
  <2>1. t \in Tables /\ r \in Rooms /\ r = <<g, t>>
    BY <1>2
  <2> HIDE DEF t
  <2>2. doc[t] = rooms'[r]
    BY <1>3, <2>1
  <2>3. new[r] \in Range(rooms'[r])
    BY <1>1, <2>1
  <2>4. new[r] \in Range(held2[g][t])
    BY <1>4, <2>2, <2>3
  <2> QED
    BY <1>4, <1>5, <2>1, <2>4 DEF Reach
<1>6. ASSUME NEW h, NEW k \in Nat, Reach(held, h, k)
      PROVE  Reach(held2, h, k)
  <2>1. CASE h # g
    BY <1>4, <1>6, <2>1 DEF Reach
  <2>2. CASE h = g
    <3>1. k <= seq /\ seq \in Nat
      BY <1>6, ReachIs DEF held
    <3>2. PICK r \in S : TRUE
      BY <1>0
    <3>3. new[r].seq \in Nat /\ new[r].seq > seq
      BY <1>0 DEF Numbers, Message
    <3>4. k <= new[r].seq
      BY <3>1, <3>3
    <3> QED
      BY <1>5, <2>2, <3>4
  <2> QED
    BY <2>1, <2>2
<1>7. \A r \in S : new[r].seq \in Nat /\ new[r].seq <= new[r].seq
  BY <1>0 DEF Numbers, Message
<1> QED
  BY <1>5, <1>6, <1>7 DEF held, held2

LEMMA PostReady ==
  ASSUME StoreInv, Typed, Ready, phase' = phase, NEW S, NEW g, Spoken(S, g), Post(S), UNCHANGED boot,
         NEW new, NEW N, Says(S, g, new, N)
  PROVE  Ready'
<1> DEFINE doc == [t \in Tables |-> rooms'[<<g, t>>]]
           held == store["chat"].held
           held2 == store'["chat"].held
<1>1. /\ up /\ up' = up /\ live' = live /\ closed' = closed /\ at' = at /\ connected' = connected
      /\ seen' = seen /\ drawn' = drawn /\ db' = db /\ lost' = lost /\ files' = files
      /\ looked' = looked
  BY DEF Post, disk, boot
<1>2. /\ OnlySaid(S, new) /\ held2 = With(held, g, doc)
      /\ \A r \in Rooms : Range(rooms'[r]) = IF r \in S THEN Range(rooms[r]) \cup {new[r]}
                                             ELSE Range(rooms[r])
  BY <1>1, SaidHolds
<1>3. TalkTyped' /\ seq' \in Nat /\ seq' >= seq /\ seq \in Nat
  BY PostTyped, SMTT(30) DEF Says, Numbers, Typed, TalkTyped
<1>4. \A t \in Tables : doc[t] = rooms'[<<g, t>>]
  OBVIOUS
<1> HIDE DEF doc
<1>5. /\ g \in DOMAIN held2 /\ held2[g] = doc /\ DOMAIN held2 = DOMAIN held \cup {g}
      /\ \A h \in DOMAIN held \ {g} : held2[h] = held[h]
  BY <1>2 DEF With
<1>6. Placed'
  BY <1>1 DEF Ready, Placed
<1>7. Whole'
  BY <1>1, <1>2 DEF Ready, Whole, OnlySaid
<1>8. Numbered'
  <2> SUFFICES ASSUME NEW h \in DOMAIN held2, NEW t \in Tables, NEW m \in Range(held2[h][t])
               PROVE  m.seq <= seq'
    BY DEF Numbered
  <2>1. CASE h = g
    <3>1. <<g, t>> \in Rooms /\ m \in Range(rooms'[<<g, t>>])
      BY <1>4, <1>5, <2>1 DEF Rooms, Says, Typed, TalkTyped
    <3> QED
      BY <1>3, <3>1 DEF TalkTyped, Range
  <2>2. CASE h # g
    <3>1. h \in DOMAIN held /\ held2[h] = held[h]
      BY <1>5, <2>2
    <3>2. m.seq <= seq
      BY <1>1, <3>1 DEF Ready, Numbered
    <3>3. held[h] \in Docs("chat")
      BY <3>1 DEF Typed, StoresTyped, About, Kinds
    <3>4. m.seq \in Nat
      BY <3>1, <3>3, MessageIs DEF Docs
    <3> QED
      BY <1>3, <3>2, <3>4
  <2> QED
    BY <2>1, <2>2
<1>9. InMemory'
  <2> SUFFICES ASSUME NEW r \in Rooms, r[1] \in live, NEW m \in Range(rooms'[r])
               PROVE  r[1] \in DOMAIN held2 /\ m \in Range(held2[r[1]][r[2]])
    BY <1>1 DEF InMemory
  <2>1. CASE r[1] = g
    BY <1>4, <1>5, <2>1, RoomsAre
  <2>2. CASE r[1] # g
    <3>1. m \in Range(rooms[r])
      BY <1>2, <2>2 DEF Spoken
    <3>2. r[1] \in DOMAIN held /\ m \in Range(held[r[1]][r[2]])
      BY <1>1, <3>1 DEF Ready, InMemory
    <3> QED
      BY <1>5, <2>2, <3>2
  <2> QED
    BY <2>1, <2>2
<1>10. Clean'
  BY <1>1 DEF Ready, Clean
<1> QED
  BY <1>6, <1>7, <1>8, <1>9, <1>10 DEF Ready

LEMMA PostFollows ==
  ASSUME StoreInv, Typed, Ready, Following, phase' = phase, NEW S, NEW g, Spoken(S, g), Post(S),
         UNCHANGED boot
  PROVE  Ready' /\ Following'
<1>1. PICK new, N : Says(S, g, new, N)
  <2>1. seq \in Nat /\ said \in Nat
    BY DEF Typed, TalkTyped
  <2> QED
    BY <2>1, PostIs
<1>2. /\ up /\ up' = up /\ live' = live /\ closed' = closed /\ at' = at /\ connected' = connected
      /\ seen' = seen /\ drawn' = drawn /\ db' = db /\ lost' = lost
  BY DEF Post, disk
<1>3. Ready'
  BY <1>1, PostReady
<1>4. /\ OnlySaid(S, new)
      /\ \A r \in Rooms : Range(rooms'[r]) = IF r \in S THEN Range(rooms[r]) \cup {new[r]}
                                             ELSE Range(rooms[r])
  BY <1>1, <1>2, SaidHolds
<1>5. /\ \A h : \A k \in Nat :
           Reach(store["chat"].held, h, k) => Reach(store'["chat"].held, h, k)
      /\ \A r \in S : Reach(store'["chat"].held, g, new[r].seq)
  BY <1>1, <1>2, SaidReach
<1>6. /\ \A r \in S : r \in Rooms /\ r[1] = g /\ r \notin closed /\ g \in live
      /\ \A r \in S : new[r] \in Message /\ new[r].seq > seq /\ new[r].seq \in Int
      /\ wire' = [p \in Readers |-> IF \E r \in S : Listens(p, r)
                                    THEN Append(wire[p], <<at[p], <<new[at[p]]>>>>)
                                    ELSE wire[p]]
      /\ seq \in Nat
  BY <1>1 DEF Says, Numbers, Spoken, Message, Typed, TalkTyped
<1>7. ASSUME NEW p \in Seated, at[p] # Nowhere, ~lost
      PROVE  Follows(p)'
  <2> DEFINE D == Drew(p)
             w == wire[p]
             v == wire'[p]
             s == seen[p]
             H == Held
             H2 == Held'
             a == at[p]
             table == store["chat"].held
             table2 == store'["chat"].held
             M == Range(rooms[at[p]])
             M2 == Range(rooms'[at[p]])
             R == Rooms
  <2>1. /\ Follows(p) /\ p \in Readers /\ w \in Seq(Payload) /\ a \in R
        /\ \A r \in R : s[r] \in Nat
    BY <1>7, ReaderIs DEF Following
  <2>2. /\ UpTo(s, D, H, a[1]) /\ InOrder(w, D, H)
        /\ (p \in connected => Comes(w, D, a, M))
        /\ SentWithin(w, a[1], table) /\ SeenWithin(s, a[1], table)
    BY <1>2, <2>1 DEF Follows
  <2>3. \A r \in R : \A n \in H2[r] : n \in H[r] \/ (r \in S /\ n = new[r])
    BY <1>4 DEF OnlySaid, Held
  <2>4. a \notin closed /\ a[1] \in live
    BY <1>2, <1>7, <2>1 DEF Ready, Placed
  <2>5. \A n \in H[a] : n \in M
    BY <1>2, <2>1, <2>4, HeldIs DEF Ready, Whole
  <2>6. /\ \A k \in Nat : Reach(table, a[1], k) => Reach(table2, a[1], k) /\ k <= seq
        /\ a \in S => Reach(table2, a[1], new[a].seq)
    BY <1>2, <1>5, <1>6, ReachIs
  <2>7. M2 = IF a \in S THEN M \cup {new[a]} ELSE M
    BY <1>4, <2>1
  <2>8. v = IF \E r \in S : Listens(p, r) THEN Append(w, <<a, <<new[a]>>>>) ELSE w
    BY <1>6, <2>1
  <2>9. Drew(p)' = D
    BY <1>2 DEF Drew
  <2>10. \A i \in DOMAIN w : \A m \in Range(w[i][2]) : m.seq \in Nat
    <3>1. \A i \in DOMAIN w : w[i][2] \in Backlogs
      BY <2>1, PayloadIs
    <3> QED
      BY <3>1, MessageIs
  <2> HIDE DEF D, w, v, s, H, H2, a, table, table2, M, M2
  <2>11. SentWithin(w, a[1], table2) /\ SeenWithin(s, a[1], table2)
    BY <2>1, <2>2, <2>6, <2>10 DEF SentWithin, SeenWithin
  <2>12. \A i \in DOMAIN w : \A m \in Range(w[i][2]) : m.seq <= seq
    BY <2>2, <2>6, <2>10 DEF SentWithin
  <2>13. UpTo(s, D, H2, a[1])
    <3> SUFFICES ASSUME NEW r \in Rooms, r[1] = a[1], NEW n \in H2[r], n.seq <= s[r]
                 PROVE  n.id \in D[r]
      BY DEF UpTo
    <3>1. s[r] \in Nat /\ s[r] <= seq
      BY <2>1, <2>2, <2>6 DEF SeenWithin
    <3>2. n \in H[r]
      BY <1>6, <2>3, <3>1
    <3> QED
      BY <2>2, <3>2 DEF UpTo
  <2>14. InOrder(w, D, H2)
    <3>1. \A r \in Rooms : \A n \in H2[r] : n \in H[r] \/ (n.seq \in Int /\ n.seq > seq)
      BY <1>6, <2>3
    <3>2. seq \in Int
      BY <1>6
    <3> QED
      BY <2>1, <2>2, <2>12, <3>1, <3>2, InOrderAbove
  <2>15. /\ InOrder(v, D, H2) /\ SentWithin(v, a[1], table2)
         /\ (p \in connected => Comes(v, D, a, M2))
    <3>1. CASE \E r \in S : Listens(p, r)
      <4>1. a \in S /\ p \in connected
        BY <3>1 DEF Listens, a
      <4> DEFINE n == new[a]
                 ms == <<n>>
      <4>2. n \in Message /\ ms \in Backlogs /\ Range(ms) = {n} /\ v = Append(w, <<a, ms>>)
        BY <1>6, <2>8, <3>1, <4>1, OneMessage
      <4> HIDE DEF n, ms
      <4>3. \A m \in H2[a] : m \in Range(ms) \/ m.id \in D[a] \/ OnWire(w, a, m)
        BY <2>1, <2>2, <2>3, <2>5, <4>1, <4>2 DEF Comes, n
      <4>4. InOrder(v, D, H2)
        BY <2>1, <2>14, <4>2, <4>3, InOrderMore
      <4>5. SentWithin(v, a[1], table2)
        <5>1. \A m \in Range(ms) : Reach(table2, a[1], m.seq)
          BY <2>6, <4>1, <4>2 DEF n
        <5> QED
          BY <2>1, <2>11, <4>2, <5>1, SentWithinMore
      <4>6. \A q, m : OnWire(v, q, m) <=> OnWire(w, q, m) \/ (q = a /\ m \in Range(ms))
        <5>1. <<a, ms>> \in Payload
          BY <2>1, <4>2 DEF Payload
        <5> QED
          BY <2>1, <4>2, <5>1, SentMore
      <4>7. Comes(v, D, a, M2)
        BY <2>2, <2>7, <4>1, <4>2, <4>6 DEF Comes, n
      <4> QED
        BY <4>4, <4>5, <4>7
    <3>2. CASE ~\E r \in S : Listens(p, r)
      <4>1. v = w
        BY <2>8, <3>2
      <4>2. p \in connected => a \notin S
        BY <3>2 DEF Listens, a
      <4> QED
        BY <2>2, <2>7, <2>11, <2>14, <4>1, <4>2
    <3> QED
      BY <3>1, <3>2
  <2> QED
    BY <1>2, <2>9, <2>11, <2>13, <2>15 DEF Follows, v, s, H2, a, table2, M2
<1> QED
  BY <1>2, <1>3, <1>7 DEF Following

LEMMA RunningFollows ==
  ASSUME StoreInv, Typed, Ready, Following, Running, UNCHANGED boot
  PROVE  Ready' /\ Following'
<1>1. up /\ up' = up /\ phase' = phase
  BY ZenonT(60) DEF Running, Timer, Land, Refused, Post, HandKept, RemoveGame, Take, Drop, Return,
         GoTo, BreakTable, ListLands, Typed, Silent, boot
<1>2. files' = files /\ looked' = looked
  BY DEF boot
<1>3. CASE \E k \in Kinds : Timer(k) \/ \E op \in store[k].batch \cup store[k].stray :
             Land(k, op) \/ Refused(k, op)
  <2>1. Fewer /\ store'["chat"].held = store["chat"].held
    BY <1>1, <1>3, TimerInv, LandInv, RefusedInv
  <2>2. /\ live' = live /\ closed' = closed /\ rooms' = rooms /\ seq' = seq /\ at' = at
        /\ connected' = connected /\ wire' = wire /\ seen' = seen /\ drawn' = drawn /\ lost' = lost
    BY <1>3 DEF Timer, Land, Refused, talk, pages
  <2>3. NoMoreHeld
    BY <2>1, <2>2, FewerChatsOf, HeldNoMore
  <2> QED
    BY <1>1, <1>2, <2>1, <2>2, <2>3, StoreFollows
<1>4. CASE \E r \in Rooms : Post({r})
  BY <1>1, <1>4, SpokenTo, PostFollows
<1>5. CASE \E g \in Games : Post(({g} \X Tables) \ closed)
  BY <1>1, <1>5, SpokenTo, PostFollows
<1>6. CASE \E g \in Games : HandKept(g)
  <2>1. FewerChats /\ rooms' = rooms /\ UNCHANGED pages /\ store'["chat"] = store["chat"]
    BY <1>1, <1>6, HandKeptChats
  <2>2. live' = live /\ closed' = closed /\ seq' = seq /\ lost' = lost
    BY <1>6 DEF HandKept
  <2>3. NoMoreHeld
    BY <2>1, HeldNoMore
  <2>4. /\ at' = at /\ connected' = connected /\ wire' = wire /\ seen' = seen /\ drawn' = drawn
        /\ store'["chat"].held = store["chat"].held
    BY <2>1 DEF pages
  <2> QED
    BY <1>1, <1>2, <2>1, <2>2, <2>3, <2>4, StoreFollows
<1>7. CASE \E g \in Games : RemoveGame(g)
  BY <1>1, <1>7, RemoveGameFollows
<1>8. CASE \E p \in Readers : Take(p) \/ Return(p) \/ \E r \in Rooms : GoTo(p, r)
  BY <1>1, <1>8, TakeFollows, ReturnFollows, GoToFollows
<1>9. CASE \E r \in Rooms, to \in Rooms : BreakTable(r, to)
  BY <1>1, <1>9, BreakTableFollows
<1>10. CASE ListLands \/ \E p \in Readers : Drop(p)
  <2>1. /\ store' = store /\ db' = db /\ live' = live /\ closed' = closed /\ rooms' = rooms
        /\ seq' = seq /\ at' = at /\ connected' \subseteq connected /\ wire' = wire /\ seen' = seen
        /\ drawn' = drawn /\ lost' = lost
    BY <1>10 DEF ListLands, Drop, talk, pages, disk
  <2>2. NoMoreHeld
    BY <2>1, ChatRests, HeldNoMore
  <2> QED
    BY <1>1, <1>2, <2>1, <2>2, StoreFollows
<1> QED
  BY <1>3, <1>4, <1>5, <1>6, <1>7, <1>8, <1>9, <1>10 DEF Running

\* Of the games on the list the tables hold what was in memory, or a chat is
\* lost.
LEMMA DownFollows ==
  ASSUME StoreInv, Typed, Ready, Following, Down
  PROVE  Ready' /\ Following'
<1>1. PICK tables, onList : Ended(tables, onList)
  BY DEF Down, Crash, Stop
<1>2. /\ up /\ up' = FALSE /\ db' = tables /\ listed' = onList
      /\ lost' = (lost \/ Behind(tables, onList))
      /\ wire' = [p \in Readers |-> <<>>] /\ closed' = closed /\ at' = at
      /\ seen' = seen /\ drawn' = drawn /\ files' = files /\ looked' = looked
  BY <1>1 DEF Ended, Down
<1>3. Ready'
  BY <1>2 DEF Ready, Placed, Whole, Numbered, InMemory, Clean
<1>4. \A r \in Rooms : Held'[r] \subseteq Held[r]
  BY DownHolds, HeldFewer
<1>5. ASSUME NEW p \in Seated, at[p] # Nowhere, ~lost, ~Behind(tables, onList)
      PROVE  Follows(p)'
  <2>1. Follows(p) /\ p \in Readers
    BY <1>5, ReaderIs DEF Following
  <2>2. Drew(p)' = Drew(p) /\ wire'[p] = <<>>
    BY <1>2, <2>1 DEF Drew
  <2>3. UpTo(seen[p], Drew(p), Held', at[p][1])
    <3> DEFINE s == seen[p]
               D == Drew(p)
               H == Held
               H2 == Held'
               g == at[p][1]
    <3>1. UpTo(s, D, H, g) /\ \A r \in Rooms : H2[r] \subseteq H[r]
      BY <1>4, <2>1 DEF Follows
    <3> HIDE DEF s, D, H, H2, g
    <3>2. UpTo(s, D, H2, g)
      BY <3>1, UpToFewer
    <3> QED
      BY <3>2 DEF s, D, H2, g
  <2>4. InOrder(<<>>, Drew(p), Held')
    BY DEF InOrder
  <2>5. ASSUME at[p][1] \in onList
        PROVE  SeenWithin(seen[p], at[p][1], tables["chat"])
    <3>1. at[p][1] \in live /\ SeenWithin(seen[p], at[p][1], store["chat"].held)
      BY <1>2, <1>5, <2>1 DEF Follows, Ready, Placed
    <3>2. at[p][1] \in DOMAIN store["chat"].held =>
            /\ at[p][1] \in DOMAIN tables["chat"]
            /\ tables["chat"][at[p][1]] = store["chat"].held[at[p][1]]
      BY <1>5, <2>5, <3>1 DEF Behind
    <3> QED
      BY <3>1, <3>2 DEF SeenWithin, Reach
  <2> QED
    BY <1>2, <2>2, <2>3, <2>4, <2>5 DEF Follows
<1> QED
  BY <1>2, <1>3, <1>5 DEF Following

\* The stores open on what the tables hold of the games on the list.
LEMMA OpenHeld ==
  ASSUME Open
  PROVE  /\ DOMAIN store'["chat"].held = DOMAIN db["chat"] \cap listed
         /\ \A g \in DOMAIN store'["chat"].held : store'["chat"].held[g] = db["chat"][g]
<1> DEFINE f == Fresh(db["chat"])
           S == DOMAIN db["chat"] \ listed
<1>1. store'["chat"] = SweptAtBoot(f, listed) /\ f.held = db["chat"]
  BY DEF Open, Boot, Fresh
<1>2. Removed(f, S).held = Without(db["chat"], S)
  BY DEF Removed, Fresh
<1>3. /\ DOMAIN Without(db["chat"], S) = DOMAIN db["chat"] \cap listed
      /\ \A g \in DOMAIN db["chat"] \cap listed : Without(db["chat"], S)[g] = db["chat"][g]
  BY DEF Without, Restrict
<1> HIDE DEF f
<1> QED
  BY <1>1, <1>2, <1>3 DEF SweptAtBoot

LEMMA OpenFollows ==
  ASSUME StoreInv, Shaped, Typed, Ready, Following, Open
  PROVE  Ready' /\ Following'
<1> DEFINE docs == Restrict(db["chat"], DOMAIN db["chat"] \cap listed)
           held2 == store'["chat"].held
<1>1. /\ ~up /\ up' = TRUE /\ live' = listed /\ closed' \in {closed, {}}
      /\ rooms' = [r \in Rooms |-> IF r[1] \in DOMAIN docs THEN docs[r[1]][r[2]] ELSE <<>>]
      /\ seq' = SeqAfter(docs)
      /\ at' = [p \in Readers |-> IF at[p] # Nowhere /\ at[p][1] \in listed
                                  THEN at[p] ELSE Nowhere]
      /\ connected' = connected /\ wire' = wire /\ seen' = seen /\ drawn' = drawn
      /\ lost' = lost /\ files' = files /\ looked = Sources /\ looked' = {}
  BY DEF Open, Boot
<1>2. /\ DOMAIN docs = DOMAIN db["chat"] \cap listed
      /\ \A g \in DOMAIN docs : docs[g] = db["chat"][g] /\ g \in Games /\ docs[g] \in Docs("chat")
  BY DEF Restrict, Typed, StoresTyped, About, Kinds
<1>3. DOMAIN held2 = DOMAIN docs /\ \A g \in DOMAIN docs : held2[g] = docs[g]
  BY <1>2, OpenHeld
<1> HIDE DEF docs, held2
<1>4. Placed'
  BY <1>1 DEF Ready, Placed
<1>5. Whole'
  <2> SUFFICES ASSUME NEW r \in Rooms, r[1] \in listed, NEW m, Holds(r, m)'
               PROVE  m \in Range(rooms'[r])
    BY <1>1 DEF Whole
  <2>1. r[1] \in DOMAIN db["chat"] /\ m \in Range(db["chat"][r[1]][r[2]])
    BY OpenHolds
  <2> QED
    BY <1>1, <1>2, <2>1
<1>6. Numbered'
  <2> SUFFICES ASSUME NEW g \in DOMAIN held2, NEW t \in Tables, NEW m \in Range(held2[g][t])
               PROVE  m.seq <= seq'
    BY DEF Numbered, held2
  <2>1. \A i \in DOMAIN docs[g][t] : docs[g][t][i].seq <= SeqAfter(docs)
    BY <1>2, <1>3, SeqAfterIs
  <2> QED
    BY <1>1, <1>3, <2>1 DEF Range
<1>7. InMemory'
  <2> SUFFICES ASSUME NEW r \in Rooms, NEW m \in Range(rooms'[r])
               PROVE  r[1] \in DOMAIN held2 /\ m \in Range(held2[r[1]][r[2]])
    BY DEF InMemory, held2
  <2>1. r[1] \in DOMAIN docs
    BY <1>1, NothingSaid
  <2> QED
    BY <1>1, <1>3, <2>1
<1>8. Clean'
  BY <1>1 DEF Ready, Clean, Shaped
<1>9. Ready'
  BY <1>4, <1>5, <1>6, <1>7, <1>8 DEF Ready
<1>10. \A r \in Rooms : Held'[r] \subseteq Held[r]
  BY OpenHolds, HeldFewer
<1>11. ASSUME NEW p \in Seated, at'[p] # Nowhere, ~lost
       PROVE  Follows(p)'
  <2>1. p \in Readers
    BY DEF Readers
  <2>2. at'[p] = at[p] /\ at[p] # Nowhere /\ at[p][1] \in listed
    BY <1>1, <1>11, <2>1
  <2>3. Follows(p) /\ wire[p] = <<>> /\ connected = {}
    BY <1>1, <1>11, <2>1, <2>2 DEF Following, Typed, Silent
  <2>4. Drew(p)' = Drew(p)
    BY <1>1 DEF Drew
  <2>5. UpTo(seen[p], Drew(p), Held', at[p][1])
    <3> DEFINE s == seen[p]
               D == Drew(p)
               H == Held
               H2 == Held'
               g == at[p][1]
    <3>1. UpTo(s, D, H, g) /\ \A r \in Rooms : H2[r] \subseteq H[r]
      BY <1>10, <2>3 DEF Follows
    <3> HIDE DEF s, D, H, H2, g
    <3>2. UpTo(s, D, H2, g)
      BY <3>1, UpToFewer
    <3> QED
      BY <3>2 DEF s, D, H2, g
  <2>6. InOrder(<<>>, Drew(p), Held') /\ SentWithin(<<>>, at[p][1], held2)
    BY DEF InOrder, SentWithin
  <2>7. SeenWithin(seen[p], at[p][1], held2)
    <3>1. SeenWithin(seen[p], at[p][1], db["chat"])
      BY <1>1, <2>2, <2>3 DEF Follows
    <3>2. at[p][1] \in DOMAIN db["chat"] =>
            at[p][1] \in DOMAIN held2 /\ held2[at[p][1]] = db["chat"][at[p][1]]
      BY <1>2, <1>3, <2>2
    <3> QED
      BY <3>1, <3>2 DEF SeenWithin, Reach
  <2> QED
    BY <1>1, <2>2, <2>3, <2>4, <2>5, <2>6, <2>7 DEF Follows, held2
<1> QED
  BY <1>1, <1>9, <1>11 DEF Following

LEMMA NextFollows ==
  ASSUME StoreInv, Shaped, Imported, Typed, Ready, Following, Next
  PROVE  Ready' /\ Following'
<1>1. Typed'
  BY NextTyped
<1>2. Clean
  BY DEF Ready
<1>3. CASE StartUp \/ RunStep \/ RecordStep \/ ShapeDone
  <2>1. UNCHANGED vars /\ files' = files /\ looked' \in {looked, {}} /\ phase # "up"
    BY <1>3 DEF StartUp, RunStep, RecordStep, ShapeDone
  <2>2. /\ ~up /\ UNCHANGED talk /\ UNCHANGED pages /\ up' = up /\ store' = store /\ db' = db
        /\ listed' = listed /\ lost' = lost /\ seen' = seen
    BY <2>1 DEF vars, disk, pages, StoreInv, Answering
  <2>3. Clean'
    BY <1>2, <2>1, <2>2 DEF Clean
  <2> QED
    BY <2>2, <2>3, BootFollows
<1>4. CASE \E k \in Sources : PassOver(k)
  <2>1. PICK k \in Sources : PassOver(k)
    BY <1>4
  <2>2. /\ ~up /\ UNCHANGED talk /\ UNCHANGED pages /\ up' = up /\ store' = store /\ db' = db
        /\ listed' = listed /\ lost' = (lost \/ k \in files) /\ files' = files
        /\ looked' = looked \cup {k} /\ seen' = seen
    BY <2>1 DEF PassOver, disk, pages, StoreInv, Answering
  <2>3. Clean'
    BY <1>2, <2>2 DEF Clean
  <2> QED
    BY <2>2, <2>3, BootFollows
<1>5. CASE (\E k \in Sources : ReadIn(k)) \/ \E g \in Games : PutRow(g)
  <2>1. /\ ~up /\ up' = up /\ at' = at /\ closed' = closed /\ seen' = seen /\ lost' = lost
        /\ files' = files /\ looked' = looked
    BY <1>5 DEF ReadIn, PutRow, talk, pages, StoreInv, Answering
  <2>2. files # {}
    BY <1>5 DEF ReadIn, PutRow, Wanted, Imported
  <2>3. Placed' /\ Clean'
    BY <1>2, <2>1 DEF Ready, Placed, Clean
  <2> QED
    BY <1>1, <2>1, <2>2, <2>3, UnreadFollows
<1>6. CASE SetAside
  <2>1. /\ ~up /\ UNCHANGED talk /\ UNCHANGED pages /\ up' = up /\ store' = store /\ db' = db
        /\ listed' = listed /\ seen' = seen /\ looked' = looked \cup {reading[1]}
        /\ \/ files' = files \ {reading[1]} /\ lost' = lost
           \/ files' = files /\ lost'
    BY <1>6 DEF SetAside, disk, pages, StoreInv, Answering
  <2>2. Clean'
    BY <1>2, <2>1 DEF Clean
  <2> QED
    BY <2>1, <2>2, BootFollows
<1>7. CASE Open
  BY <1>7, OpenFollows
<1>8. CASE Die
  <2>1. /\ ~up /\ UNCHANGED talk /\ UNCHANGED pages /\ up' = up /\ store' = store /\ db' = db
        /\ listed' = listed /\ seen' = seen /\ looked' = looked /\ files' = files /\ lost' = lost
    BY <1>8 DEF Die, disk, pages, StoreInv, Answering
  <2>2. Clean'
    BY <1>2, <2>1 DEF Clean
  <2> QED
    BY <2>1, <2>2, BootFollows
<1>9. CASE Down
  BY <1>9, DownFollows
<1>10. CASE Running /\ UNCHANGED boot
  BY <1>10, RunningFollows
<1> QED
  BY <1>3, <1>4, <1>5, <1>6, <1>7, <1>8, <1>9, <1>10 DEF Next

\* A stuttering step leaves all of it.
LEMMA RestFollows ==
  ASSUME Typed, Ready, Following, UNCHANGED svars
  PROVE  Typed' /\ Ready' /\ Following'
<1>1. /\ UNCHANGED talk /\ UNCHANGED pages /\ store' = store /\ db' = db /\ up' = up
      /\ said' = said /\ listed' = listed /\ lost' = lost /\ files' = files /\ looked' = looked
  BY DEF svars, vars, boot, disk, spent
<1>2. /\ live' = live /\ rooms' = rooms /\ closed' = closed /\ seq' = seq /\ at' = at
      /\ connected' = connected /\ wire' = wire /\ seen' = seen /\ drawn' = drawn
  BY <1>1 DEF talk, pages
<1>3. Typed'
  BY <1>1, TypedRests DEF Typed, TalkTyped
<1>4. CASE up
  <2>1. NoMoreHeld
    BY <1>1, <1>2, ChatRests, HeldNoMore
  <2> QED
    BY <1>1, <1>2, <1>3, <1>4, <2>1, StoreFollows
<1>5. CASE ~up
  <2>1. Clean'
    BY <1>1, <1>2 DEF Ready, Clean
  <2> QED
    BY <1>1, <1>3, <1>5, <2>1, BootFollows
<1> QED
  BY <1>4, <1>5

LEMMA InitFollows ==
  ASSUME Init
  PROVE  Ready /\ Following
<1>1. /\ up = FALSE /\ closed = {} /\ wire = [p \in Readers |-> <<>>] /\ looked = {}
      /\ seen = [p \in Readers |-> [r \in Rooms |-> 0]]
  BY DEF Init
<1>2. Ready
  BY <1>1 DEF Ready, Placed, Whole, Numbered, InMemory, Clean
<1>3. ASSUME NEW p \in Seated
      PROVE  Follows(p)
  <2>1. wire[p] = <<>> /\ \A r \in Rooms : seen[p][r] = 0
    BY <1>1 DEF Readers
  <2>2. \A r \in Rooms : \A m \in Held[r] : m.seq \in Nat \ {0}
    BY DEF Held, Message
  <2>3. UpTo(seen[p], Drew(p), Held, at[p][1])
    BY <2>1, <2>2 DEF UpTo
  <2>4. InOrder(wire[p], Drew(p), Held)
    BY <2>1 DEF InOrder
  <2>5. SeenWithin(seen[p], at[p][1], db["chat"])
    BY <2>1 DEF SeenWithin, Reach
  <2> QED
    BY <1>1, <2>3, <2>4, <2>5 DEF Follows
<1> QED
  BY <1>2, <1>3 DEF Following

-----------------------------------------------------------------------------
(* The whole *)

IInv ==
  /\ StoreInv /\ Shaped /\ Imported
  /\ Typed /\ Once /\ Ready /\ Following

LEMMA InitInv ==
  ASSUME Init
  PROVE  IInv
<1>1. StoreInv
  BY DEF Init, StoreInv, Answering
<1>2. Shaped
  BY DEF Init, Shaped
<1>3. Imported
  BY DEF Init, Imported
<1> QED
  BY <1>1, <1>2, <1>3, InitTyped, InitOnce, InitFollows DEF IInv

LEMMA NextStores ==
  ASSUME IInv, Next
  PROVE  StoreInv'
<1>1. CASE StartUp \/ RunStep \/ RecordStep \/ ShapeDone
  <2>1. /\ up' = up /\ live' = live /\ store' = store /\ db' = db
        /\ phase # "up" /\ phase' # "up"
    BY <1>1 DEF StartUp, RunStep, RecordStep, ShapeDone, vars, talk, disk
  <2> QED
    BY <2>1 DEF IInv, StoreInv, Answering
<1>2. CASE \E k \in Sources : PassOver(k) \/ ReadIn(k)
  <2>1. /\ up' = up /\ live' = live /\ store' = store /\ db' = db /\ phase' = phase
    BY <1>2 DEF PassOver, ReadIn, talk, disk
  <2> QED
    BY <2>1, StoresRest DEF IInv
<1>3. CASE \E g \in Games : PutRow(g)
  <2>1. PICK T : /\ up' = up /\ store' = store /\ db' = T
                 /\ phase = "files" /\ phase' = "files" /\ T = [k \in Kinds |-> T[k]]
    BY <1>3 DEF PutRow, IInv, StoreInv, Answering
  <2> QED
    BY <2>1 DEF IInv, StoreInv, Answering
<1>4. CASE SetAside
  <2>1. /\ up' = up /\ live' = live /\ store' = store /\ db' = db /\ phase' = phase
    BY <1>4 DEF SetAside, talk, disk
  <2> QED
    BY <2>1, StoresRest DEF IInv
<1>5. CASE Open
  BY <1>5, OpenInv DEF IInv
<1>6. CASE Die
  <2>1. /\ up' = up /\ store' = store /\ db' = db
        /\ phase # "up" /\ phase' # "up"
    BY <1>6 DEF Die, disk
  <2> QED
    BY <2>1 DEF IInv, StoreInv, Answering
<1>7. CASE Down
  BY <1>7, DownInv DEF IInv
<1>8. CASE Running /\ UNCHANGED boot
  BY <1>8, RunningInv DEF IInv, boot
<1> QED
  BY <1>1, <1>2, <1>3, <1>4, <1>5, <1>6, <1>7, <1>8 DEF Next

LEMMA NextInv ==
  ASSUME IInv, [Next]_svars
  PROVE  IInv'
<1>1. CASE Next
  <2>1. StoreInv'
    BY <1>1, NextStores
  <2>2. Shaped' /\ Imported'
    BY <1>1, NextShaped, NextImported DEF IInv
  <2>3. Typed' /\ Once' /\ Ready' /\ Following'
    BY <1>1, NextTyped, NextOnce, NextFollows DEF IInv
  <2> QED
    BY <2>1, <2>2, <2>3 DEF IInv
<1>2. CASE UNCHANGED svars
  <2>1. /\ up' = up /\ live' = live /\ store' = store /\ db' = db /\ listed' = listed
        /\ phase' = phase /\ shape' = shape /\ ledger' = ledger /\ files' = files
        /\ reading' = reading /\ looked' = looked
    BY <1>2 DEF svars, vars, boot, talk, disk
  <2>2. StoreInv' /\ Shaped' /\ Imported'
    BY <2>1, StoresRest, ShapedRests, ImportedRests DEF IInv
  <2>3. Typed' /\ Ready' /\ Following'
    BY <1>2, RestFollows DEF IInv
  <2>4. Once'
    <3>1. /\ UNCHANGED talk /\ UNCHANGED pages /\ said' = said /\ store' = store /\ db' = db
      BY <1>2 DEF svars, vars, disk, spent
    <3> QED
      BY <3>1, ChatRests, StoreOnce DEF IInv
  <2> QED
    BY <2>2, <2>3, <2>4 DEF IInv
<1> QED
  BY <1>1, <1>2

LEMMA Invariant ==
  Spec => []IInv
BY InitInv, NextInv, PTL DEF Spec

\* Whatever a table lacks of what is kept, and what is left in it of a chat
\* whose game is gone, waits to be written or is being written, but for what a
\* refused write gave up: flushAsync(), record() and remove() of the two
\* stores, and sweep() at the boot.
THEOREM NothingForgotten ==
  Spec => []KeptInStep
<1>1. IInv => KeptInStep
  BY StoresInStep DEF IInv
<1> QED
  BY <1>1, Invariant, PTL

\* importFile() renames an old file only over a table that holds all of it.
THEOREM FilesOutliveImports ==
  Spec => FileOutlivesImport
<1> DEFINE Kept == \A k \in files \ files' : FileOf(k) \subseteq Table(k)
<1>1. ASSUME IInv, [Next]_svars
      PROVE  [Kept]_svars
  <2>1. CASE files' = files
    BY <2>1
  <2>2. CASE files' # files
    <3>1. SetAside
      BY <1>1, <2>2 DEF Next, svars, boot, StartUp, RunStep, RecordStep, ShapeDone,
           PassOver, ReadIn, PutRow, SetAside, Open, Die, Down
    <3>2. /\ reading # <<>> /\ reading[2] = {} /\ files \ files' \subseteq {reading[1]}
      BY <3>1 DEF SetAside, SetAsideWhen
    <3>3. FileOf(reading[1]) \subseteq Table(reading[1])
      BY <1>1, <3>2 DEF IInv, Imported
    <3> QED
      BY <3>2, <3>3
  <2> QED
    BY <2>1, <2>2
<1> QED
  BY <1>1, Invariant, PTL DEF Spec, FileOutlivesImport

\* What the room keeps is drawn on every page that follows it, each message
\* once: renderHistory() and render() behind their watermark, post() and the
\* backlog that is sent on a move, a recovery and a break, over the restarts
\* that lost no message.
THEOREM DrawnAsWasSaid ==
  Spec => []DrawnAsSaid
<1>1. IInv => DrawnAsSaid
  <2> SUFFICES ASSUME IInv, NEW p \in Readers
               PROVE  /\ \A r \in Rooms : \A d \in DOMAIN drawn[p][r] : drawn[p][r][d] = 1
                      /\ p \in Seated \cap connected /\ up /\ ~lost /\ wire[p] = <<>> /\ at[p] # Nowhere =>
                           {m.id : m \in Range(rooms[at[p]])} \subseteq DOMAIN drawn[p][at[p]]
    BY DEF DrawnAsSaid
  <2>1. \A r \in Rooms : \A d \in DOMAIN drawn[p][r] : drawn[p][r][d] = 1
    BY DEF IInv, Once, DrawnOnce
  <2>2. ASSUME p \in Seated \cap connected, up, ~lost, wire[p] = <<>>, at[p] # Nowhere,
               NEW m \in Range(rooms[at[p]])
        PROVE  m.id \in DOMAIN drawn[p][at[p]]
    <3>1. at[p] \in Rooms
      BY <2>2, ReaderIs DEF IInv
    <3>2. Comes(<<>>, Drew(p), at[p], Range(rooms[at[p]]))
      BY <2>2 DEF IInv, Following, Follows
    <3>3. m.id \in Drew(p)[at[p]]
      BY <2>2, <3>2, NothingSent DEF Comes
    <3> QED
      BY <3>1, <3>3 DEF Drew
  <2> QED
    BY <2>1, <2>2
<1> QED
  BY <1>1, Invariant, PTL

\* The types of the chat, of its stores and of the boot: what waits in a store
\* is come back to, by a timer or by the write under way; no step is in the
\* ledger of migrate() whose shape the database does not have, and a server
\* that answers has them all.
THEOREM ServerTypes ==
  Spec => []TypeOK
<1>1. ASSUME IInv, NEW k \in Kinds
      PROVE  StoreOK(store[k])
  <2>1. CASE up
    <3>1. Sound(store[k])
      BY <1>1, <2>1 DEF IInv, StoreInv, StoresStand, Stands
    <3>2. DOMAIN store[k].held \subseteq Games
      BY <1>1 DEF IInv, Typed, StoresTyped, About
    <3> QED
      BY <3>1, <3>2 DEF Sound, StoreOK
  <2>2. CASE ~up
    <3>1. store[k] = Fresh(<<>>)
      BY <1>1, <2>2 DEF IInv, Typed, Silent
    <3> QED
      BY <3>1 DEF Fresh, StoreOK, Waits
  <2> QED
    BY <2>1, <2>2
<1>2. IInv => ChatTypeOK
  BY <1>1 DEF IInv, Typed, TalkTyped, PagesTyped, ChatTypeOK
<1>3. IInv => TypeOK
  <2>1. IInv => (phase = "up" <=> up) /\ (up => shape = 1..Steps)
    BY DEF IInv, StoreInv, Answering, Shaped
  <2> QED
    BY <1>2, <2>1 DEF IInv, Shaped, TypeOK
<1> QED
  BY <1>3, Invariant, PTL
=============================================================================
