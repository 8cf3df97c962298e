----------------------------- MODULE AdminProofs -----------------------------
(***************************************************************************)
(* What the run of Admin checks for two administrators and one GameNight,  *)
(* for any number of them: that a restart brings back what was set, that   *)
(* a test of mail settings leaves nothing behind it, that everybody        *)
(* is told what is in force, and that the log is one story.                *)
(*                                                                         *)
(* Of the log LogIsKept speaks of the ring only, and says nothing of the   *)
(* rows a restart brings back. LogInv says it of every row there is, in    *)
(* the ring, waiting, in the write under way and in the table: a row that  *)
(* could be taken for the same visit as a later one is too old for any     *)
(* ring to hold both, or has so many newer rows in the table (Buried) that *)
(* no start finds it; and what the ring holds is not buried.               *)
(***************************************************************************)
EXTENDS Admin, FiniteSetTheorems, SequenceTheorems, TLAPS

\* Every store has its keys and every administrator may be testing.
Shapes ==
  /\ DOMAIN settings = Keys /\ DOMAIN table = Keys /\ DOMAIN writes = Keys
  /\ DOMAIN test = Admins

\* Where mail settings are kept, there are mail settings or nothing.
MayBe == MailSettings \cup {None}
Mails ==
  /\ mail \in MailSettings /\ settings["mail"] \in MayBe /\ table["mail"] \in MayBe
  /\ \A w \in writes["mail"] : w.value \in MayBe
  /\ \A a \in Admins : test[a] \in Tests \cup {None}

\* A key whose writes never overlapped is in the table, or has one statement
\* under way that will put it there.
Through(k) ==
  \/ writes[k] = {} /\ table[k] = settings[k]
  \/ \E w : writes[k] = {w} /\ w.value = settings[k]
Owed == \A k \in Keys \ doubt : Through(k)

\* The mailer, the verifier and the games have what is in force.
InForce ==
  /\ mailer = [told |-> Told(mail), transport |-> mailer.transport]
  /\ mailer.transport \in {None, Told(mail)}
  /\ pairing = settings["gamenight"]
  /\ settings["server"] # None => knobs = settings["server"]

\* What will be in force when the one test under way is over, or is already.
Stands(m) ==
  IF Testing
  THEN \E a \in Admins : /\ test[a] # None /\ test[a].before = m
                         /\ \A b \in Admins : test[b] # None => b = a
  ELSE mail = m

SetMailIs == IF settings["mail"] = None THEN NoMail ELSE settings["mail"]

\* Settings as they were last set, but for a password where none was set.
AsSet(m) ==
  /\ m.mode = SetMailIs.mode /\ m.source = SetMailIs.source
  /\ SetMailIs.pass # "" => m.pass = SetMailIs.pass

PagesOf(m) == [accounts |-> m.mode # "off", gamenight |-> pairing # None, reactions |-> knobs]

Back == "mail" \notin astray => \E m \in MailSettings : Stands(m) /\ AsSet(m)
Pages == astray = {} /\ ~Saving => \E m \in MailSettings : Stands(m) /\ info = PagesOf(m)

Ind == Shapes /\ Mails /\ Owed /\ InForce /\ Back /\ Pages

-----------------------------------------------------------------------------
(* The parts of a step.                                                    *)

LEMMA KeysAre == "mail" \in Keys /\ "gamenight" \in Keys /\ "api" \in Keys /\ "server" \in Keys
  BY DEF Keys

\* Setting a key: the others stay, and one statement is added about it.
LEMMA SetIs ==
  ASSUME Shapes, Owed, NEW k \in Keys, NEW v, NEW by, Set(k, v, by)
  PROVE  /\ DOMAIN settings' = Keys /\ DOMAIN table' = Keys /\ DOMAIN writes' = Keys
         /\ settings'[k] = v /\ table' = table
         /\ \A j \in Keys : j # k => settings'[j] = settings[j] /\ writes'[j] = writes[j]
         /\ \E w : w.value = v /\ w.by = by /\ writes'[k] = writes[k] \cup {w}
         /\ Owed'
<1>. DEFINE w == [value |-> v, by |-> by, n |-> Max({o.n : o \in writes[k]} \cup {0}) + 1]
<1>1. /\ settings' = [settings EXCEPT ![k] = v] /\ UNCHANGED table
      /\ writes' = [writes EXCEPT ![k] = writes[k] \cup {w}]
      /\ doubt' = IF writes[k] # {} THEN doubt \cup {k} ELSE doubt \ {k}
  BY DEF Set, Statements
<1>2. w.value = v /\ w.by = by
  OBVIOUS
<1>. HIDE DEF w
<1>3. /\ DOMAIN settings' = Keys /\ DOMAIN table' = Keys /\ DOMAIN writes' = Keys
      /\ settings'[k] = v /\ table' = table /\ writes'[k] = writes[k] \cup {w}
      /\ \A j \in Keys : j # k => settings'[j] = settings[j] /\ writes'[j] = writes[j]
  BY <1>1 DEF Shapes
<1>4. ASSUME NEW j \in Keys, j \notin doubt'  PROVE Through(j)'
  <2>1. CASE j = k
    <3>1. writes[k] = {}
      BY <1>1, <1>4, <2>1
    <3>2. writes'[j] = {w}
      BY <1>3, <2>1, <3>1
    <3>. QED  BY <1>2, <1>3, <2>1, <3>2 DEF Through
  <2>2. CASE j # k
    <3>1. Through(j)
      BY <1>1, <1>4, <2>2 DEF Owed
    <3>2. writes'[j] = writes[j] /\ settings'[j] = settings[j] /\ table'[j] = table[j]
      BY <1>3, <2>2
    <3>. QED  BY <3>1, <3>2 DEF Through
  <2>. QED  BY <2>1, <2>2
<1>5. Owed'
  BY <1>4 DEF Owed
<1>. QED  BY <1>2, <1>3, <1>5

Pairs == UNCHANGED <<pairing, knobs>>

LEMMA TestingStays ==
  ASSUME UNCHANGED <<mail, test>>, NEW m  PROVE Stands(m)' = Stands(m) /\ Testing' = Testing
  BY DEF Stands, Testing

LEMMA AsSetStays ==
  ASSUME settings'["mail"] = settings["mail"], NEW m  PROVE AsSet(m)' = AsSet(m)
  BY DEF AsSet, SetMailIs

LEMMA BackStays ==
  ASSUME Back, UNCHANGED <<mail, test>>, astray \subseteq astray',
         settings'["mail"] = settings["mail"]
  PROVE  Back'
<1>. SUFFICES ASSUME "mail" \notin astray'  PROVE \E m \in MailSettings : Stands(m)' /\ AsSet(m)'
  BY DEF Back
<1>1. PICK m \in MailSettings : Stands(m) /\ AsSet(m)
  BY DEF Back
<1>. QED  BY <1>1, TestingStays, AsSetStays

LEMMA PagesStay ==
  ASSUME Pages, UNCHANGED <<mail, test, info, pairing, knobs>>, astray \subseteq astray', Saving' = Saving
  PROVE  Pages'
<1>. SUFFICES ASSUME astray' = {}, ~Saving'
     PROVE  \E m \in MailSettings : Stands(m)' /\ info' = PagesOf(m)'
  BY DEF Pages
<1>1. PICK m \in MailSettings : Stands(m) /\ info = PagesOf(m)
  BY DEF Pages
<1>2. PagesOf(m)' = PagesOf(m)
  BY DEF PagesOf
<1>. QED  BY <1>1, <1>2, TestingStays

\* What the pages are told is what is in force; told in the middle of a test
\* it may be put back later, and is astray.
LEMMA Announced ==
  ASSUME Announce, InForce', mail' \in MailSettings, UNCHANGED test
  PROVE  Pages'
<1>. SUFFICES ASSUME astray' = {}
     PROVE  \E m \in MailSettings : Stands(m)' /\ info' = PagesOf(m)'
  BY DEF Pages
<1>1. ~Testing'
  BY DEF Announce, Testing
<1>. PICK m \in MailSettings : m = mail'
  OBVIOUS
<1>2. Stands(m)'
  BY <1>1 DEF Stands
<1>3. mailer'.told = [mode |-> m.mode, pass |-> m.pass]
  BY DEF InForce, Told
<1>4. info' = PagesOf(m)'
  BY <1>3 DEF Announce, Info, PagesOf, Available
<1>. QED  BY <1>2, <1>4

LEMMA Idle ==
  ASSUME Ind, UNCHANGED <<store, mail, mailer, test, astray, pairing, knobs, info>>
  PROVE  Ind'
<1>1. Shapes' /\ Mails' /\ Saving' = Saving
  BY DEF Ind, Shapes, Mails, Saving, store
<1>2. Owed'
  BY DEF Ind, Owed, Through, store
<1>3. InForce'
  BY DEF Ind, InForce, store
<1>4. Back'
  BY BackStays DEF Ind, store
<1>5. Pages'
  BY <1>1, PagesStay DEF Ind
<1>. QED  BY <1>1, <1>2, <1>3, <1>4, <1>5 DEF Ind

\* A setting that is not about mail and not announced.
LEMMA OtherSet ==
  ASSUME Ind, NEW v, Set("api", v, None), UNCHANGED <<mail, mailer, test, astray, pairing, knobs, info>>
  PROVE  Ind'
<1>1. /\ DOMAIN settings' = Keys /\ DOMAIN table' = Keys /\ DOMAIN writes' = Keys
      /\ table' = table /\ Owed'
      /\ \A j \in Keys : j # "api" => settings'[j] = settings[j] /\ writes'[j] = writes[j]
  BY KeysAre, SetIs DEF Ind
<1>2. /\ settings'["mail"] = settings["mail"] /\ writes'["mail"] = writes["mail"]
      /\ settings'["server"] = settings["server"] /\ settings'["gamenight"] = settings["gamenight"]
  BY <1>1, KeysAre
<1>3. Shapes' /\ Mails' /\ Saving' = Saving
  BY <1>1, <1>2 DEF Ind, Shapes, Mails, Saving
<1>4. InForce'
  BY <1>2 DEF Ind, InForce
<1>5. Back'
  BY <1>2, BackStays DEF Ind
<1>6. Pages'
  BY <1>3, PagesStay DEF Ind
<1>. QED  BY <1>1, <1>3, <1>4, <1>5, <1>6 DEF Ind

\* A setting that is not about mail and is announced.
LEMMA AnnouncedSet ==
  ASSUME Ind, NEW k \in {"gamenight", "server"}, NEW v, Set(k, v, None), Announce,
         UNCHANGED <<mail, mailer, test>>,
         IF k = "server" THEN knobs' = v /\ pairing' = pairing ELSE pairing' = v /\ knobs' = knobs
  PROVE  Ind'
<1>1. /\ DOMAIN settings' = Keys /\ DOMAIN table' = Keys /\ DOMAIN writes' = Keys
      /\ table' = table /\ Owed' /\ settings'[k] = v
      /\ \A j \in Keys : j # k => settings'[j] = settings[j] /\ writes'[j] = writes[j]
  <2>1. k \in Keys
    BY DEF Keys
  <2>. QED  BY <2>1, SetIs DEF Ind
<1>2. settings'["mail"] = settings["mail"] /\ writes'["mail"] = writes["mail"]
  BY <1>1, KeysAre
<1>3. Shapes' /\ Mails'
  BY <1>1, <1>2 DEF Ind, Shapes, Mails
<1>4. InForce'
  BY <1>1, KeysAre DEF Ind, InForce
<1>5. Back'
  BY <1>2, BackStays DEF Ind, Announce
<1>6. Pages'
  BY <1>3, <1>4, Announced DEF Mails
<1>. QED  BY <1>1, <1>3, <1>4, <1>5, <1>6 DEF Ind

-----------------------------------------------------------------------------
(* The steps.                                                              *)

LEMMA SettingsAre ==
  ASSUME NEW m \in Modes, NEW p \in Passwords, NEW s \in {"none", "env", "gui"}
  PROVE  [mode |-> m, source |-> s, pass |-> p] \in MailSettings
  BY DEF MailSettings

LEMMA MergedIs ==
  ASSUME mail \in MailSettings, NEW f, f.mode \in Modes, f.pass \in Passwords,
         f.clear \in BOOLEAN, NEW s \in {"none", "env", "gui"}
  PROVE  /\ Merged(f, s) \in MailSettings
         /\ Merged(f, s).mode = f.mode /\ Merged(f, s).source = s
         /\ ~f.clear /\ f.pass # "" => Merged(f, s).pass = f.pass
<1>. DEFINE p == IF f.clear THEN "" ELSE IF f.pass # "" THEN f.pass ELSE mail.pass
<1>1. p \in Passwords /\ (~f.clear /\ f.pass # "" => p = f.pass)
  <2>1. "" \in Passwords /\ mail.pass \in Passwords
    BY AdminAssumption DEF MailSettings
  <2>. QED  BY <2>1
<1>2. Merged(f, s) = [mode |-> f.mode, source |-> s, pass |-> p]
  BY DEF Merged
<1>. HIDE DEF p
<1>3. Merged(f, s).mode = f.mode /\ Merged(f, s).source = s /\ Merged(f, s).pass = p
  BY <1>2
<1>4. Merged(f, s) \in MailSettings
  BY Zenon, <1>1, <1>2, SettingsAre
<1>. QED  BY <1>1, <1>3, <1>4

LEMMA SetMailKeeps ==
  ASSUME Ind, NEW a \in Admins, NEW f \in Forms, SetMail(a, f)  PROVE Ind'
<1>1. /\ mail' = Merged(f, "gui") /\ mailer' = Configured(mail') /\ Set("mail", mail', a)
      /\ astray' = (IF Testing THEN {"mail", "pages"} ELSE {})
      /\ UNCHANGED <<test, pairing, knobs, info>>
  BY DEF SetMail, Apply, gamenight
<1>2. mail' \in MailSettings /\ mail' # None
  BY <1>1, MergedIs, AdminAssumption DEF Ind, Mails
<1>3. /\ DOMAIN settings' = Keys /\ DOMAIN table' = Keys /\ DOMAIN writes' = Keys
      /\ table' = table /\ Owed' /\ settings'["mail"] = mail'
      /\ \A j \in Keys : j # "mail" => settings'[j] = settings[j] /\ writes'[j] = writes[j]
  BY <1>1, KeysAre, SetIs DEF Ind
<1>4. PICK w : w.value = mail' /\ w.by = a /\ writes'["mail"] = writes["mail"] \cup {w}
  BY <1>1, KeysAre, SetIs DEF Ind
<1>5. Shapes' /\ Mails'
  BY <1>1, <1>2, <1>3, <1>4 DEF Ind, Shapes, Mails, MayBe
<1>6. Saving'
  BY <1>4, AdminAssumption DEF Saving
<1>7. InForce'
  BY <1>1, <1>3, KeysAre DEF Ind, InForce, Configured
<1>8. Back'
  <2>. SUFFICES ASSUME ~Testing
       PROVE  \E m \in MailSettings : Stands(m)' /\ AsSet(m)'
    BY <1>1 DEF Back
  <2>1. ~Testing'
    BY <1>1 DEF Testing
  <2>. PICK m \in MailSettings : m = mail'
    BY <1>2
  <2>2. Stands(m)'
    BY <2>1 DEF Stands
  <2>3. AsSet(m)'
    BY <1>2, <1>3 DEF AsSet, SetMailIs
  <2>. QED  BY <2>2, <2>3
<1>9. Pages'
  BY <1>6 DEF Pages
<1>. QED  BY <1>3, <1>5, <1>7, <1>8, <1>9 DEF Ind

LEMMA TransportIs ==
  ASSUME NEW mr, NEW t, mr = [told |-> t, transport |-> mr.transport], mr.transport \in {None, t}
  PROVE  /\ Transport(mr) = [told |-> t, transport |-> Transport(mr).transport]
         /\ Transport(mr).transport \in {None, t}
  BY DEF Transport

LEMMA TestMailKeeps ==
  ASSUME Ind, NEW a \in Admins, NEW f \in Forms, NEW send \in BOOLEAN, TestMail(a, f, send)
  PROVE  Ind'
<1>. DEFINE t == [before |-> mail, send |-> send, tried |-> FALSE]
<1>1. /\ test[a] = None /\ test' = [test EXCEPT ![a] = t]
      /\ mail' = Merged(AsTyped(f), "gui") /\ mailer' = Transport(Configured(mail'))
      /\ astray' = astray \cup (IF Testing THEN {"mail", "pages"} ELSE {})
      /\ UNCHANGED <<store, pairing, knobs, info>>
  BY DEF TestMail, gamenight
<1>2. t \in Tests /\ t # None /\ t.before = mail
  <2>1. mail \in MailSettings
    BY DEF Ind, Mails
  <2>2. t \in Tests /\ t.before = mail
    BY <2>1 DEF Tests
  <2>. HIDE DEF t
  <2>. QED  BY <2>2, AdminAssumption
<1>. HIDE DEF t
<1>3. mail' \in MailSettings
  <2>1. f.mode \in Modes /\ f.pass \in Passwords /\ f.clear \in BOOLEAN /\ mail.pass \in Passwords
    BY AdminAssumption DEF Ind, Mails, MailSettings
  <2>2. AsTyped(f).mode \in Modes /\ AsTyped(f).pass \in Passwords /\ AsTyped(f).clear \in BOOLEAN
    BY <2>1 DEF AsTyped
  <2>. QED  BY <1>1, <2>2, MergedIs DEF Ind, Mails
<1>4. test'[a] = t /\ DOMAIN test' = Admins /\ \A b \in Admins \ {a} : test'[b] = test[b]
  BY <1>1 DEF Ind, Shapes
<1>5. Shapes' /\ Mails' /\ Saving' = Saving
  BY <1>1, <1>2, <1>3, <1>4 DEF Ind, Shapes, Mails, Saving, store
<1>6. Owed'
  BY <1>1 DEF Ind, Owed, Through, store
<1>7. InForce'
  <2>. DEFINE c == Configured(mail')
  <2>1. c = [told |-> Told(mail'), transport |-> c.transport] /\ c.transport \in {None, Told(mail')}
    BY DEF Configured
  <2>. HIDE DEF c
  <2>2. /\ Transport(c) = [told |-> Told(mail'), transport |-> Transport(c).transport]
        /\ Transport(c).transport \in {None, Told(mail')}
    BY <2>1, TransportIs
  <2>3. mailer' = Transport(c)
    BY <1>1 DEF c
  <2>4. settings' = settings
    BY <1>1 DEF store
  <2>. HIDE DEF c
  <2>. QED  BY <1>1, <2>2, <2>3, <2>4 DEF Ind, InForce, Told
<1>8. ASSUME ~Testing, NEW m, Stands(m)  PROVE Stands(m)'
  <2>1. m = mail /\ \A b \in Admins : test[b] = None
    BY <1>8 DEF Stands, Testing
  <2>2. \A b \in Admins : test'[b] # None => b = a
    BY <1>4, <2>1
  <2>. QED  BY <1>2, <1>4, <2>1, <2>2 DEF Stands, Testing
<1>9. Back'
  <2>. SUFFICES ASSUME "mail" \notin astray'
       PROVE  \E m \in MailSettings : Stands(m)' /\ AsSet(m)'
    BY DEF Back
  <2>1. ~Testing /\ "mail" \notin astray
    BY <1>1
  <2>2. PICK m \in MailSettings : Stands(m) /\ AsSet(m)
    BY <2>1 DEF Ind, Back
  <2>3. AsSet(m)'
    BY <1>1, <2>2, AsSetStays DEF store
  <2>. QED  BY <1>8, <2>1, <2>2, <2>3
<1>10. Pages'
  <2>. SUFFICES ASSUME astray' = {}, ~Saving'
       PROVE  \E m \in MailSettings : Stands(m)' /\ info' = PagesOf(m)'
    BY DEF Pages
  <2>1. ~Testing /\ astray = {} /\ ~Saving
    BY <1>1, <1>5
  <2>2. PICK m \in MailSettings : Stands(m) /\ info = PagesOf(m)
    BY <2>1 DEF Ind, Pages
  <2>3. info' = PagesOf(m)'
    BY <1>1, <2>2 DEF PagesOf
  <2>. QED  BY <1>8, <2>1, <2>2, <2>3
<1>. QED  BY <1>5, <1>6, <1>7, <1>9, <1>10 DEF Ind

\* A message goes through a transport: only the mailer's changes.
LEMMA OnlyTransport ==
  ASSUME Ind, mailer' = Transport(mailer), UNCHANGED <<store, mail, astray, pairing, knobs, info>>,
         DOMAIN test' = Admins, \A a \in Admins : test'[a] \in Tests \cup {None},
         \A a \in Admins : (test'[a] = None <=> test[a] = None)
                           /\ (test[a] # None => test'[a].before = test[a].before)
  PROVE  Ind'
<1>1. Shapes' /\ Mails' /\ Saving' = Saving
  BY DEF Ind, Shapes, Mails, Saving, store
<1>2. Owed'
  BY DEF Ind, Owed, Through, store
<1>3. InForce'
  <2>1. mailer = [told |-> Told(mail), transport |-> mailer.transport]
        /\ mailer.transport \in {None, Told(mail)}
    BY DEF Ind, InForce
  <2>2. /\ Transport(mailer) = [told |-> Told(mail), transport |-> Transport(mailer).transport]
        /\ Transport(mailer).transport \in {None, Told(mail)}
    BY <2>1, TransportIs
  <2>. QED  BY <2>2 DEF Ind, InForce, store, Told
<1>4. ASSUME NEW m, Stands(m)  PROVE Stands(m)'
  BY <1>4 DEF Stands, Testing
<1>5. Back'
  <2>1. \A m : AsSet(m)' = AsSet(m)
    BY AsSetStays DEF store
  <2>. QED  BY <1>4, <2>1 DEF Ind, Back
<1>6. Pages'
  <2>1. \A m : PagesOf(m)' = PagesOf(m)
    BY DEF PagesOf
  <2>. QED  BY <1>1, <1>4, <2>1 DEF Ind, Pages
<1>. QED  BY <1>1, <1>2, <1>3, <1>5, <1>6 DEF Ind

LEMMA MailTriedKeeps ==
  ASSUME Ind, NEW a \in Admins, NEW good \in BOOLEAN, MailTried(a, good)  PROVE Ind'
<1>1. test[a] # None /\ test[a] \in Tests /\ UNCHANGED <<store, astray, pairing, knobs, info>>
  BY DEF MailTried, Ind, Mails, gamenight
<1>2. CASE good /\ test[a].send /\ ~test[a].tried
  <2>. DEFINE t == [test[a] EXCEPT !.tried = TRUE]
  <2>1. test' = [test EXCEPT ![a] = t] /\ mailer' = Transport(mailer) /\ UNCHANGED mail
    BY <1>2 DEF MailTried, Ind, Shapes
  <2>2. t \in Tests /\ t.before = test[a].before
    BY <1>1 DEF Tests
  <2>. HIDE DEF t
  <2>3. t # None
    BY <2>2, AdminAssumption
  <2>4. DOMAIN test' = Admins /\ test'[a] = t /\ \A b \in Admins \ {a} : test'[b] = test[b]
    BY <2>1 DEF Ind, Shapes
  <2>5. \A b \in Admins : test'[b] \in Tests \cup {None}
    BY <2>2, <2>4 DEF Ind, Mails
  <2>6. \A b \in Admins : (test'[b] = None <=> test[b] = None)
                          /\ (test[b] # None => test'[b].before = test[b].before)
    BY <1>1, <2>2, <2>3, <2>4
  <2>. QED  BY <1>1, <2>1, <2>4, <2>5, <2>6, OnlyTransport
<1>3. CASE ~(good /\ test[a].send /\ ~test[a].tried)
  <2>. DEFINE b == test[a].before
  <2>1. /\ test' = [test EXCEPT ![a] = None]
        /\ mail' = Merged(AsForm(b), b.source) /\ mailer' = Configured(mail')
    BY <1>3 DEF MailTried, Apply, PutBack
  <2>2. b \in MailSettings
    BY <1>1 DEF Tests
  <2>. HIDE DEF b
  <2>3. /\ mail' \in MailSettings /\ mail'.mode = b.mode /\ mail'.source = b.source
        /\ b.pass # "" => mail'.pass = b.pass
    <3>1. /\ AsForm(b).mode = b.mode /\ AsForm(b).pass = b.pass /\ AsForm(b).clear = FALSE
          /\ b.mode \in Modes /\ b.pass \in Passwords /\ b.source \in {"none", "env", "gui"}
      BY <2>2 DEF AsForm, MailSettings
    <3>. QED  BY <2>1, <3>1, MergedIs DEF Ind, Mails
  <2>4. DOMAIN test' = Admins /\ test'[a] = None /\ \A o \in Admins \ {a} : test'[o] = test[o]
    BY <2>1 DEF Ind, Shapes
  <2>5. Shapes' /\ Mails' /\ Saving' = Saving
    BY <1>1, <2>3, <2>4 DEF Ind, Shapes, Mails, Saving, store
  <2>6. Owed'
    BY <1>1 DEF Ind, Owed, Through, store
  <2>7. InForce'
    BY <1>1, <2>1 DEF Ind, InForce, store, Configured
  <2>8. ASSUME NEW m, Stands(m)  PROVE m = b /\ Stands(mail)'
    <3>1. m = b /\ \A o \in Admins : test[o] # None => o = a
      BY <1>1, <2>8 DEF Stands, Testing, b
    <3>2. ~Testing'
      BY <2>4, <3>1 DEF Testing
    <3>. QED  BY <3>1, <3>2 DEF Stands
  <2>9. Back'
    <3>. SUFFICES ASSUME "mail" \notin astray'
         PROVE  \E m \in MailSettings : Stands(m)' /\ AsSet(m)'
      BY DEF Back
    <3>1. PICK m \in MailSettings : Stands(m) /\ AsSet(m)
      BY <1>1 DEF Ind, Back
    <3>. PICK n \in MailSettings : n = mail'
      BY <2>3
    <3>2. AsSet(b)
      BY <2>8, <3>1
    <3>3. AsSet(n)
      BY <2>3, <3>2 DEF AsSet
    <3>4. AsSet(n)'
      BY <1>1, <3>3, AsSetStays DEF store
    <3>5. Stands(n)'
      BY <2>8, <3>1 DEF Stands
    <3>. QED  BY <3>4, <3>5
  <2>10. Pages'
    <3>. SUFFICES ASSUME astray' = {}, ~Saving'
         PROVE  \E m \in MailSettings : Stands(m)' /\ info' = PagesOf(m)'
      BY DEF Pages
    <3>1. PICK m \in MailSettings : Stands(m) /\ info = PagesOf(m)
      BY <1>1, <2>5 DEF Ind, Pages
    <3>. PICK n \in MailSettings : n = mail'
      BY <2>3
    <3>2. info' = PagesOf(n)'
      BY <1>1, <2>3, <2>8, <3>1 DEF PagesOf
    <3>3. Stands(n)'
      BY <2>8, <3>1 DEF Stands
    <3>. QED  BY <3>2, <3>3
  <2>. QED  BY <2>5, <2>6, <2>7, <2>9, <2>10 DEF Ind
<1>. QED  BY <1>2, <1>3

LEMMA SendLinkKeeps ==
  ASSUME Ind, SendLink  PROVE Ind'
<1>1. DOMAIN test' = Admins /\ \A a \in Admins : test'[a] \in Tests \cup {None} /\ test'[a] = test[a]
  BY DEF SendLink, Ind, Shapes, Mails
<1>2. mailer' = Transport(mailer) /\ UNCHANGED <<store, mail, astray, pairing, knobs, info>>
  BY DEF SendLink, gamenight
<1>. QED  BY <1>1, <1>2, OnlyTransport

LEMMA PairedKeeps ==
  ASSUME Ind, NEW h, PairWith(h), UNCHANGED test  PROVE Ind'
<1>1. /\ pairing' = h /\ Set("gamenight", h, None) /\ Announce
      /\ UNCHANGED <<mail, mailer, knobs>>
  BY DEF PairWith
<1>. QED  BY <1>1, AnnouncedSet

LEMMA SetServerKeeps ==
  ASSUME Ind, NEW on, SetServer(on)  PROVE Ind'
<1>1. /\ knobs' = on /\ Set("server", on, None) /\ Announce
      /\ UNCHANGED <<mail, mailer, pairing, test>>
  BY DEF SetServer
<1>. QED  BY <1>1, AnnouncedSet

LEMMA KeysKeep ==
  ASSUME Ind, MakeKey \/ RevokeKey \/ \E k \in 1..made : Call(k)  PROVE Ind'
<1>1. UNCHANGED <<mail, mailer, test, astray, pairing, knobs, info>>
  BY DEF MakeKey, RevokeKey, Call, sending, gamenight
<1>2. UNCHANGED store \/ \E v : Set("api", v, None)
  BY DEF MakeKey, RevokeKey, Call
<1>. QED  BY <1>1, <1>2, Idle, OtherSet

LEMMA LandsKeeps ==
  ASSUME Ind, NEW k \in Keys, NEW w \in writes[k], Lands(k, w)  PROVE Ind'
<1>1. /\ table' = [table EXCEPT ![k] = w.value] /\ writes' = [writes EXCEPT ![k] = writes[k] \ {w}]
      /\ UNCHANGED <<settings, doubt, mail, mailer, test, pairing, knobs>>
  BY DEF Lands
<1>2. \/ w.by # None /\ Announce
      \/ w.by = None /\ UNCHANGED <<info, astray>>
  BY DEF Lands
<1>3. /\ DOMAIN table' = Keys /\ table'[k] = w.value /\ \A j \in Keys \ {k} : table'[j] = table[j]
      /\ DOMAIN writes' = Keys /\ writes'[k] = writes[k] \ {w} /\ \A j \in Keys \ {k} : writes'[j] = writes[j]
  BY <1>1 DEF Ind, Shapes
<1>4. Shapes' /\ Mails'
  BY <1>1, <1>3, KeysAre DEF Ind, Shapes, Mails
<1>5. Owed'
  <2>. SUFFICES ASSUME NEW j \in Keys, j \notin doubt'  PROVE Through(j)'
    BY DEF Owed
  <2>1. Through(j)
    BY <1>1 DEF Ind, Owed
  <2>2. CASE j = k
    <3>1. PICK v : writes[k] = {v} /\ v.value = settings[k]
      BY <2>1, <2>2 DEF Through
    <3>2. w = v
      BY <3>1
    <3>3. writes'[k] = {} /\ table'[k] = settings'[k]
      BY <1>1, <1>3, <3>1, <3>2
    <3>. QED  BY <2>2, <3>3 DEF Through
  <2>3. CASE j # k
    BY <1>1, <1>3, <2>1, <2>3 DEF Through
  <2>. QED  BY <2>2, <2>3
<1>6. InForce'
  BY <1>1 DEF Ind, InForce
<1>7. Back'
  BY <1>1, <1>2, BackStays DEF Ind, Announce
<1>8. CASE w.by # None /\ Announce
  <2>1. Pages'
    BY <1>1, <1>4, <1>6, <1>8, Announced DEF Mails
  <2>. QED  BY <1>4, <1>5, <1>6, <1>7, <2>1 DEF Ind
<1>9. CASE w.by = None /\ UNCHANGED <<info, astray>>
  <2>1. Saving' = Saving
    BY <1>3, <1>9, KeysAre DEF Saving
  <2>2. Pages'
    BY <1>1, <1>9, <2>1, PagesStay DEF Ind
  <2>. QED  BY <1>4, <1>5, <1>6, <1>7, <2>2 DEF Ind
<1>. QED  BY <1>2, <1>8, <1>9

LEMMA RefusedKeeps ==
  ASSUME Ind, NEW k \in Keys, NEW w \in writes[k], Refused(k, w)  PROVE Ind'
<1>1. /\ writes' = [writes EXCEPT ![k] = writes[k] \ {w}] /\ doubt' = doubt \cup {k}
      /\ astray' = astray \cup (IF w.by # None THEN {"pages"} ELSE {})
      /\ UNCHANGED <<settings, table, mail, mailer, test, pairing, knobs, info>>
  BY DEF Refused, gamenight
<1>3. /\ DOMAIN writes' = Keys /\ writes'[k] = writes[k] \ {w} /\ \A j \in Keys \ {k} : writes'[j] = writes[j]
  BY <1>1 DEF Ind, Shapes
<1>4. Shapes' /\ Mails'
  BY <1>1, <1>3, KeysAre DEF Ind, Shapes, Mails
<1>5. Owed'
  BY <1>1, <1>3 DEF Ind, Owed, Through
<1>6. InForce'
  BY <1>1 DEF Ind, InForce
<1>7. Back'
  BY <1>1, BackStays DEF Ind
<1>8. Pages'
  <2>1. CASE w.by # None
    BY <1>1, <2>1 DEF Pages
  <2>2. CASE w.by = None
    <3>1. Saving' = Saving
      BY <1>3, <2>2, KeysAre DEF Saving
    <3>. QED  BY <1>1, <3>1, PagesStay DEF Ind
  <2>. QED  BY <2>1, <2>2
<1>. QED  BY <1>4, <1>5, <1>6, <1>7, <1>8 DEF Ind

\* What a start of the server does with what the table holds.
LEMMA SeedIs ==
  ASSUME NEW k \in Keys, NEW v
  PROVE  \/ SeedWrites(k, v) = {} /\ Seeded(k, v) = v
         \/ \E w : SeedWrites(k, v) = {w} /\ w.value = Seeded(k, v) /\ w.by = None
<1>. DEFINE w == [value |-> Seeded(k, v), by |-> None, n |-> 1]
<1>1. CASE v = None /\ Seeded(k, v) # None
  <2>1. SeedWrites(k, v) = {w} /\ w.value = Seeded(k, v) /\ w.by = None
    BY <1>1 DEF SeedWrites
  <2>. QED  BY <2>1
<1>2. CASE ~(v = None /\ Seeded(k, v) # None)
  BY <1>2 DEF SeedWrites, Seeded
<1>. QED  BY <1>1, <1>2

LEMMA SeedMail ==
  ASSUME NEW v \in MayBe  PROVE Seeded("mail", v) \in MayBe
  BY AdminAssumption DEF Seeded, MayBe

\* The server as it stands when everything that reads a setting has read it.
Booted(kept) ==
  /\ DOMAIN kept = Keys /\ kept["mail"] \in MayBe
  /\ table = kept /\ settings = [k \in Keys |-> Seeded(k, kept[k])]
  /\ writes = [k \in Keys |-> SeedWrites(k, kept[k])]
  /\ mail = IF settings["mail"] = None THEN NoMail ELSE settings["mail"]
  /\ mailer = [told |-> Told(mail), transport |-> None]
  /\ test = [a \in Admins |-> None] /\ astray = {}
  /\ pairing = settings["gamenight"]
  /\ knobs = (IF kept["server"] = None THEN EnvKnobs ELSE kept["server"])
  /\ info = Info(mailer, pairing, knobs)

LEMMA BootedInd ==
  ASSUME NEW kept, Booted(kept)  PROVE Ind
<1>1. /\ table = kept /\ settings = [k \in Keys |-> Seeded(k, kept[k])]
      /\ writes = [k \in Keys |-> SeedWrites(k, kept[k])] /\ test = [a \in Admins |-> None]
      /\ DOMAIN kept = Keys /\ kept["mail"] \in MayBe
  BY DEF Booted
<1>2. \A k \in Keys : settings[k] = Seeded(k, kept[k]) /\ writes[k] = SeedWrites(k, kept[k])
  BY <1>1
<1>3. Shapes
  BY <1>1 DEF Shapes
<1>4. settings["mail"] \in MayBe
  BY <1>1, <1>2, KeysAre, SeedMail
<1>5. mail = SetMailIs /\ mail \in MailSettings
  <2>1. mail = SetMailIs
    BY DEF Booted, SetMailIs
  <2>2. NoMail \in MailSettings
    BY AdminAssumption DEF NoMail, MailSettings, Modes
  <2>. QED  BY <1>4, <2>1, <2>2 DEF SetMailIs, MayBe
<1>6. \A w \in writes["mail"] : w.value \in MayBe
  <2>1. \/ writes["mail"] = {}
        \/ \E w : writes["mail"] = {w} /\ w.value = settings["mail"]
    BY <1>2, KeysAre, SeedIs
  <2>. QED  BY <1>4, <2>1
<1>7. Mails
  BY <1>1, <1>4, <1>5, <1>6 DEF Mails
<1>8. Owed
  <2>. SUFFICES ASSUME NEW k \in Keys  PROVE Through(k)
    BY DEF Owed
  <2>1. \/ SeedWrites(k, kept[k]) = {} /\ Seeded(k, kept[k]) = kept[k]
        \/ \E w : SeedWrites(k, kept[k]) = {w} /\ w.value = Seeded(k, kept[k])
    BY SeedIs
  <2>. QED  BY <1>1, <1>2, <2>1 DEF Through
<1>9. InForce
  <2>1. settings["server"] = kept["server"]
    BY <1>2, KeysAre DEF Seeded
  <2>. QED  BY <2>1 DEF Booted, InForce
<1>10. Stands(mail)
  BY <1>1 DEF Stands, Testing
<1>11. Back
  BY <1>5, <1>10 DEF Back, AsSet
<1>12. Pages
  <2>1. info = Info(mailer, pairing, knobs) /\ mailer = [told |-> Told(mail), transport |-> None]
    BY DEF Booted
  <2>2. info = PagesOf(mail)
    BY <2>1 DEF Info, PagesOf, Available, Told
  <2>. QED  BY <1>5, <1>10, <2>2 DEF Pages
<1>. QED  BY <1>3, <1>7, <1>8, <1>9, <1>11, <1>12 DEF Ind

AnyBoot == \E kept : Booted(kept)

LEMMA BootInd == AnyBoot => Ind
  BY BootedInd DEF AnyBoot

LEMMA BootIndNext == AnyBoot' => Ind'
  BY BootInd, PTL

LEMMA InitInd == Init => Ind
<1>. SUFFICES ASSUME Init  PROVE Ind
  OBVIOUS
<1>. DEFINE kept == [k \in Keys |-> None]
<1>1. /\ table = kept /\ settings = [k \in Keys |-> Seeded(k, None)]
      /\ writes = [k \in Keys |-> SeedWrites(k, None)]
      /\ mail = (IF EnvMail = None THEN NoMail ELSE EnvMail)
      /\ mailer = [told |-> Told(mail), transport |-> None]
      /\ test = [a \in Admins |-> None] /\ astray = {}
      /\ pairing = EnvPaired /\ knobs = EnvKnobs /\ info = Info(mailer, pairing, knobs)
  BY DEF Init
<1>2. DOMAIN kept = Keys /\ \A k \in Keys : kept[k] = None
  OBVIOUS
<1>. HIDE DEF kept
<1>3. settings = [k \in Keys |-> Seeded(k, kept[k])] /\ writes = [k \in Keys |-> SeedWrites(k, kept[k])]
  BY <1>1, <1>2
<1>4. settings["mail"] = EnvMail /\ settings["gamenight"] = EnvPaired
  BY <1>1, KeysAre DEF Seeded
<1>5. Booted(kept)
  BY <1>1, <1>2, <1>3, <1>4, KeysAre DEF Booted, MayBe
<1>. QED  BY <1>5, BootedInd

LEMMA RestartKeeps ==
  ASSUME Ind, Restart  PROVE Ind'
<1>1. PICK m \in Left("mail"), g \in Left("gamenight"), i \in Left("api"), s \in Left("server") :
        Boot([k \in Keys |-> CASE k = "mail" -> m [] k = "gamenight" -> g
                              [] k = "api" -> i [] k = "server" -> s])
  BY DEF Restart
<1>. DEFINE K == [k \in Keys |-> CASE k = "mail" -> m [] k = "gamenight" -> g
                                [] k = "api" -> i [] k = "server" -> s]
<1>2. Boot(K)
  BY <1>1
<1>3. DOMAIN K = Keys /\ K["mail"] = m
  BY KeysAre
<1>4. m \in MayBe
  BY DEF Left, Ind, Mails
<1>. HIDE DEF K
<1>5. PICK kept : kept = K
  OBVIOUS
<1>6. /\ table' = kept /\ settings' = [k \in Keys |-> Seeded(k, kept[k])]
      /\ writes' = [k \in Keys |-> SeedWrites(k, kept[k])]
      /\ mail' = (IF settings'["mail"] = None THEN NoMail ELSE settings'["mail"])
      /\ mailer' = Configured(mail')
      /\ test' = [a \in Admins |-> None] /\ astray' = {}
      /\ pairing' = settings'["gamenight"]
      /\ knobs' = (IF kept["server"] = None THEN EnvKnobs ELSE kept["server"])
      /\ info' = Info(mailer', pairing', knobs')
  BY <1>2, <1>5 DEF Boot
<1>7. Booted(kept)'
  BY <1>3, <1>4, <1>5, <1>6 DEF Booted, Configured
<1>. QED  BY <1>7, BootIndNext DEF AnyBoot

LEMMA StepKeeps ==
  ASSUME Ind, [Next]_vars  PROVE Ind'
<1>1. CASE UNCHANGED vars
  BY <1>1, Idle DEF vars, sending, gamenight
<1>2. ASSUME NEW a \in Admins, \E f \in Forms : SetMail(a, f) \/ \E send \in BOOLEAN : TestMail(a, f, send)
      PROVE  Ind'
  BY <1>2, SetMailKeeps, TestMailKeeps
<1>3. ASSUME NEW a \in Admins, \E good \in BOOLEAN : MailTried(a, good)  PROVE Ind'
  BY <1>3, MailTriedKeeps
<1>4. ASSUME NEW a \in Admins,
             (\E h \in Hosts : Pair(a, h)) \/ Refresh(a) \/ KeyNotFetched(a)
      PROVE  Ind'
  <2>1. UNCHANGED <<store, sending, pairing, knobs, info>>
    BY <1>4 DEF Pair, Refresh, KeyNotFetched
  <2>. QED  BY <2>1, Idle DEF sending
<1>5. ASSUME NEW a \in Admins, KeyFetched(a)  PROVE Ind'
  BY <1>5, PairedKeeps DEF KeyFetched
<1>6. CASE Unpair
  BY <1>6, PairedKeeps DEF Unpair
<1>7. CASE MakeKey \/ RevokeKey \/ \E k \in 1..made : Call(k)
  BY <1>7, KeysKeep
<1>8. ASSUME NEW on, SetServer(on)  PROVE Ind'
  BY <1>8, SetServerKeeps
<1>9. CASE SendLink
  BY <1>9, SendLinkKeeps
<1>10. ASSUME NEW t, SignIn(t) \/ Identify(Holder[t])  PROVE Ind'
  <2>1. UNCHANGED <<store, sending, pairing, knobs, info>>
    BY <1>10 DEF SignIn, Identify, gamenight
  <2>. QED  BY <2>1, Idle DEF sending
<1>11. ASSUME NEW k \in Keys, NEW w \in writes[k], Lands(k, w) \/ Refused(k, w)  PROVE Ind'
  BY <1>11, LandsKeeps, RefusedKeeps
<1>12. CASE \/ OfLog /\ UNCHANGED <<store, sending, gamenight, knobs, made, info, spent>>
            \/ LogRefused /\ Fault /\ UNCHANGED <<store, sending, gamenight, knobs, made, info>>
            \/ HourPasses
  <2>1. UNCHANGED <<store, sending, gamenight, knobs, info>>
    BY <1>12 DEF HourPasses
  <2>. QED  BY <2>1, Idle DEF sending, gamenight
<1>13. CASE Restart
  BY <1>13, RestartKeeps
<1>. QED  BY <1>1, <1>2, <1>3, <1>4, <1>5, <1>6, <1>7, <1>8, <1>9, <1>10, <1>11, <1>12, <1>13 DEF Next

LEMMA IndHolds == Spec => []Ind
<1>1. Ind /\ [Next]_vars => Ind'
  BY StepKeeps
<1>. QED  BY <1>1, InitInd, PTL DEF Spec

-----------------------------------------------------------------------------
(* The log: what holds of it between steps.                                *)

\* The rows there are: in the ring, waiting to be written, in the write under
\* way, in the table.
Whos == {Holder[t] : t \in Tokens} \cup {Nobody}
LogRow == [id : Nat, at : Nat, who : Whos]
Rows(l, f, T) == Range(l.rows) \cup Range(l.unwritten) \cup Range(f.batch) \cup T

LogTyped(l, f, T) ==
  /\ l = [rows |-> l.rows, nextId |-> l.nextId, visits |-> l.visits, unwritten |-> l.unwritten,
          prunedTo |-> l.prunedTo, timer |-> l.timer, queued |-> l.queued]
  /\ f = [on |-> f.on, batch |-> f.batch, cutoff |-> f.cutoff]
  /\ l.rows \in Seq(LogRow) /\ l.unwritten \in Seq(LogRow) /\ f.batch \in Seq(LogRow)
  /\ T \in SUBSET LogRow /\ IsFiniteSet(T)
  /\ l.nextId \in Nat /\ l.prunedTo \in Int /\ f.cutoff \in Int
  /\ \A p \in DOMAIN l.visits : l.visits[p] \in Nat
  /\ f.batch # <<>> => f.on = TRUE

\* A later id is a later hour, and an id is one row's.
OneStory(A) ==
  \A r, q \in A : (r.id = q.id => r = q) /\ (r.id < q.id => r.at <= q.at)

Climbs(rs) == \A i, j \in DOMAIN rs : i < j => rs[i].id < rs[j].id

\* Rows go to the table in their order.
InLine(l, f, T) ==
  /\ Climbs(l.rows) /\ Climbs(l.unwritten) /\ Climbs(f.batch)
  /\ \A r \in T : \A q \in Range(f.batch) \cup Range(l.unwritten) : r.id < q.id
  /\ \A r \in Range(f.batch) : \A q \in Range(l.unwritten) : r.id < q.id

\* The ring is the end of the story, and the bounds cut nothing of it.
RingIs(l, f, T) ==
  /\ Len(l.rows) <= MaxRows
  /\ \A r \in Range(l.rows) :
       /\ r.at >= l.prunedTo /\ r.at >= f.cutoff
       /\ \A q \in Rows(l, f, T) : (r.id < q.id => q \in Range(l.rows)) /\ q.at - r.at <= MaxAge

Reached(l, f, T, lostIds) ==
  \A r \in Range(l.rows) :
    r \in T \/ r.id \in lostIds \cup Ids(l.unwritten) \cup Ids(f.batch)

\* The table holds so many newer rows that nothing brings a row back.
Buried(r, T) == Cardinality({q \in T : Newer(q, r)}) >= MaxRows

Apart(A, T) ==
  \A r, q \in A : r.who # Nobody /\ r.who = q.who /\ r.id < q.id =>
    q.at - r.at >= Gap \/ q.at - r.at > MaxAge \/ Buried(r, T)

Visited(l, A, T, h) ==
  \A r \in A : r.who # Nobody =>
    \/ r.who \in DOMAIN l.visits /\ r.at <= l.visits[r.who]
    \/ h - r.at > MaxAge
    \/ Buried(r, T)

\* No row, no bound and no visit is of a time to come.
Past(l, f, T, h) ==
  /\ h \in Nat /\ l.prunedTo <= h /\ f.cutoff <= h
  /\ \A r \in Rows(l, f, T) : r.id < l.nextId /\ r.at <= h

LogStands(l, f, T, lostIds, h) ==
  /\ LogTyped(l, f, T) /\ OneStory(Rows(l, f, T)) /\ InLine(l, f, T) /\ RingIs(l, f, T)
  /\ Reached(l, f, T, lostIds) /\ Past(l, f, T, h)
  /\ Apart(Rows(l, f, T), T) /\ Visited(l, Rows(l, f, T), T, h)

LogInv ==
  /\ LogStands(log, flush, logTable, refused, now)
  /\ log.unwritten # <<>> => log.timer = TRUE \/ flush.on = TRUE

-----------------------------------------------------------------------------
(* Counting how many of a set come no later gives each of it a number.     *)

LEMMA Numbers ==
  ASSUME NEW K, IsFiniteSet(K), NEW D \in [K -> SUBSET K], \A i \in K : i \in D[i],
         \A i, j \in K : i # j => \/ D[i] \subseteq D[j] /\ j \notin D[i]
                                  \/ D[j] \subseteq D[i] /\ i \notin D[j]
  PROVE  /\ Cardinality(K) \in Nat
         /\ \A i \in K : Cardinality(D[i]) \in 1..Cardinality(K)
         /\ \A k \in 1..Cardinality(K) : \E i \in K : Cardinality(D[i]) = k
         /\ \A i, j \in K : Cardinality(D[i]) < Cardinality(D[j]) => i \in D[j] /\ i # j
         /\ \A i, j \in K : Cardinality(D[i]) = Cardinality(D[j]) => i = j
<1> DEFINE n == Cardinality(K)
           rank == [i \in K |-> Cardinality(D[i])]
<1>1. n \in Nat
  BY FS_CardinalityType
<1>2. \A i \in K : IsFiniteSet(D[i]) /\ Cardinality(D[i]) \in Nat /\ Cardinality(D[i]) <= n
  BY FS_Subset, FS_CardinalityType
<1>3. \A i \in K : Cardinality(D[i]) \in 1..n
  <2> TAKE i \in K
  <2>1. Cardinality(D[i]) # 0
    BY <1>2, FS_EmptySet
  <2> QED
    BY <1>1, <1>2, <2>1
<1>4. \A i, j \in K : D[i] \subseteq D[j] /\ j \notin D[i] => Cardinality(D[i]) < Cardinality(D[j])
  <2> SUFFICES ASSUME NEW i \in K, NEW j \in K, D[i] \subseteq D[j], j \notin D[i]
               PROVE  Cardinality(D[i]) < Cardinality(D[j])
    OBVIOUS
  <2>1. Cardinality(D[i]) <= Cardinality(D[j])
    BY <1>2, FS_Subset
  <2>2. Cardinality(D[j]) # Cardinality(D[i])
    BY <1>2, FS_Subset
  <2> QED
    BY <1>2, <2>1, <2>2
<1>5. \A i, j \in K : Cardinality(D[i]) < Cardinality(D[j]) => i \in D[j] /\ i # j
  <2> SUFFICES ASSUME NEW i \in K, NEW j \in K, Cardinality(D[i]) < Cardinality(D[j])
               PROVE  i \in D[j] /\ i # j
    OBVIOUS
  <2>1. i # j
    BY <1>2
  <2>2. ~(D[j] \subseteq D[i] /\ i \notin D[j])
    <3>1. Cardinality(D[j]) < Cardinality(D[i]) => FALSE
      BY <1>2
    <3> QED
      BY <1>4, <3>1
  <2> QED
    BY <2>1, <2>2
<1>6. \A i, j \in K : Cardinality(D[i]) = Cardinality(D[j]) => i = j
  <2> SUFFICES ASSUME NEW i \in K, NEW j \in K, Cardinality(D[i]) = Cardinality(D[j]), i # j
               PROVE  FALSE
    OBVIOUS
  <2>1. Cardinality(D[i]) < Cardinality(D[j]) \/ Cardinality(D[j]) < Cardinality(D[i])
    BY <1>4
  <2> QED
    BY <1>2, <2>1
<1>7. rank \in Injection(K, 1..n)
  BY <1>3, <1>6 DEF Injection, IsInjective
<1>8. IsFiniteSet(1..n) /\ Cardinality(1..n) = n
  BY <1>1, FS_Interval
<1> HIDE DEF rank
<1>9. rank \in Surjection(K, 1..n)
  BY <1>7, <1>8, FS_Injection
<1>10. \A k \in 1..n : \E i \in K : rank[i] = k
  BY <1>9 DEF Surjection
<1>11. \A k \in 1..n : \E i \in K : Cardinality(D[i]) = k
  BY <1>10 DEF rank
<1> QED
  BY <1>1, <1>3, <1>5, <1>6, <1>11

\* What Bounded keeps.
Young(rs, c) == {i \in DOMAIN rs : rs[i].at >= c}
Kept(rs, c) == {i \in Young(rs, c) : Cardinality({j \in Young(rs, c) : j > i}) < MaxRows}

LEMMA BoundedIs ==
  ASSUME NEW S, NEW rs \in Seq(S), NEW c
  PROVE  /\ Bounded(rs, c) \in Seq(S)
         /\ Len(Bounded(rs, c)) <= MaxRows
         /\ Range(Bounded(rs, c)) = {rs[i] : i \in Kept(rs, c)}
         /\ Climbs(rs) => Climbs(Bounded(rs, c))
<1> DEFINE K == Kept(rs, c)
           Y == Young(rs, c)
           n == Cardinality(K)
           b == Bounded(rs, c)
           upTo(i) == {j \in K : j <= i}
           nth(k) == CHOOSE i \in K : Cardinality(upTo(i)) = k
           D == [i \in K |-> upTo(i)]
<1>1. Len(rs) \in Nat /\ DOMAIN rs = 1..Len(rs) /\ \A i \in DOMAIN rs : rs[i] \in S
  BY LenProperties, ElementOfSeq
<1>2. K \subseteq Y /\ Y \subseteq 1..Len(rs) /\ IsFiniteSet(K) /\ IsFiniteSet(Y)
  <2>1. K \subseteq Y /\ Y \subseteq 1..Len(rs)
    BY <1>1 DEF Kept, Young
  <2> HIDE DEF K, Y
  <2>2. IsFiniteSet(1..Len(rs))
    BY <1>1, FS_Interval
  <2>3. IsFiniteSet(Y)
    BY <2>1, <2>2, FS_Subset
  <2> QED
    BY <2>1, <2>3, FS_Subset
<1>3. b = [k \in 1..n |-> rs[nth(k)]]
  BY DEF Bounded, Kept, Young
<1>4. \A i \in K : i \in Int
  BY <1>1, <1>2
<1>5. /\ n \in Nat
      /\ \A i \in K : Cardinality(D[i]) \in 1..n
      /\ \A k \in 1..n : \E i \in K : Cardinality(D[i]) = k
      /\ \A i, j \in K : Cardinality(D[i]) < Cardinality(D[j]) => i \in D[j] /\ i # j
      /\ \A i, j \in K : Cardinality(D[i]) = Cardinality(D[j]) => i = j
  <2>1. D \in [K -> SUBSET K] /\ \A i \in K : i \in D[i]
    BY <1>4
  <2>2. \A i, j \in K : i # j => \/ D[i] \subseteq D[j] /\ j \notin D[i]
                                 \/ D[j] \subseteq D[i] /\ i \notin D[j]
    BY <1>4
  <2> HIDE DEF D, n, K
  <2>3. IsFiniteSet(K)
    BY <1>2
  <2> QED
    BY <2>1, <2>2, <2>3, Numbers DEF n
<1>6. \A i \in K : D[i] = upTo(i)
  OBVIOUS
<1>7. \A k \in 1..n : nth(k) \in K /\ Cardinality(upTo(nth(k))) = k
  <2> HIDE DEF upTo
  <2> TAKE k \in 1..n
  <2>1. \E i \in K : Cardinality(upTo(i)) = k
    BY <1>5, <1>6
  <2> QED
    BY <2>1
<1>8. \A i \in K : \E k \in 1..n : nth(k) = i
  <2> TAKE i \in K
  <2>1. Cardinality(upTo(i)) \in 1..n
    BY <1>5, <1>6
  <2>2. Cardinality(upTo(nth(Cardinality(upTo(i))))) = Cardinality(upTo(i)) /\ nth(Cardinality(upTo(i))) \in K
    BY <1>7, <2>1
  <2>3. nth(Cardinality(upTo(i))) = i
    BY <1>5, <1>6, <2>2
  <2> QED
    BY <2>1, <2>3
<1>9. \A k, l \in 1..n : k < l => nth(k) < nth(l)
  <2> SUFFICES ASSUME NEW k \in 1..n, NEW l \in 1..n, k < l
               PROVE  nth(k) < nth(l)
    OBVIOUS
  <2> HIDE DEF nth, upTo, D, K, n
  <2>0. nth(k) \in K /\ nth(l) \in K /\ Cardinality(D[nth(k)]) = k /\ Cardinality(D[nth(l)]) = l
    BY <1>6, <1>7
  <2>1. nth(k) \in D[nth(l)] /\ nth(k) # nth(l)
    BY <1>5, <2>0
  <2>2. nth(k) \in upTo(nth(l)) /\ nth(k) \in Int /\ nth(l) \in Int
    BY <1>4, <1>6, <2>0, <2>1
  <2> QED
    BY <2>1, <2>2 DEF upTo
<1>10. Len(b) = n /\ DOMAIN b = 1..n /\ b \in Seq(S)
  <2> HIDE DEF nth, n, K
  <2>1. \A k \in 1..n : rs[nth(k)] \in S
    BY <1>1, <1>2, <1>7
  <2>2. [k \in 1..n |-> rs[nth(k)]] \in Seq(S)
    BY <1>5, <2>1, IsASeq
  <2>3. b \in Seq(S) /\ DOMAIN b = 1..n
    BY <1>3, <2>2
  <2> HIDE DEF b
  <2> QED
    BY <1>5, <2>3, LenProperties
<1>11. n <= MaxRows
  <2> CASE n = 0
    BY AdminLogAssumption DEF AdminLogAssumption
  <2> CASE n # 0
    <3>1. 1 \in 1..n
      BY <1>5
    <3> DEFINE m == nth(1)
    <3>2. m \in K
      BY <1>7, <3>1
    <3>3. \A i \in K : i # m => i > m
      <4> TAKE i \in K
      <4>1. PICK k \in 1..n : nth(k) = i
        BY <1>8
      <4>2. k = 1 \/ k > 1
        BY <1>5
      <4>3. k > 1 => nth(1) < nth(k)
        BY <1>9, <3>1
      <4> QED
        BY <4>1, <4>2, <4>3
    <3> HIDE DEF m
    <3>4. Cardinality({j \in Y : j > m}) < MaxRows
      BY <3>2 DEF Kept
    <3>5. K \ {m} \subseteq {j \in Y : j > m} /\ IsFiniteSet({j \in Y : j > m})
      BY <1>2, <3>3, FS_Subset
    <3>6. Cardinality(K \ {m}) <= Cardinality({j \in Y : j > m}) /\ Cardinality({j \in Y : j > m}) \in Nat
      BY <3>5, FS_Subset, FS_CardinalityType
    <3>7. Cardinality(K \ {m}) = n - 1
      BY <1>2, <3>2, FS_RemoveElement
    <3> QED
      BY <1>5, <3>4, <3>6, <3>7, AdminLogAssumption DEF AdminLogAssumption
  <2> QED
    OBVIOUS
<1>12. Range(b) = {rs[i] : i \in K}
  <2> HIDE DEF nth, n, K, b
  <2>1. Range(b) = {rs[nth(k)] : k \in 1..n}
    BY <1>3, <1>10 DEF Range
  <2> QED
    BY <1>7, <1>8, <2>1
<1>13. ASSUME Climbs(rs)
       PROVE  Climbs(b)
  <2> SUFFICES ASSUME NEW k \in 1..n, NEW l \in 1..n, k < l
               PROVE  b[k].id < b[l].id
    BY <1>10 DEF Climbs
  <2> HIDE DEF nth, n, K
  <2>1. nth(k) < nth(l) /\ nth(k) \in DOMAIN rs /\ nth(l) \in DOMAIN rs
    BY <1>1, <1>2, <1>7, <1>9
  <2>2. b[k] = rs[nth(k)] /\ b[l] = rs[nth(l)]
    BY <1>3
  <2> QED
    BY <1>13, <2>1, <2>2 DEF Climbs
<1> QED
  BY <1>10, <1>11, <1>12, <1>13

-----------------------------------------------------------------------------
(* The rows and their order.                                               *)

LEMMA RowIs ==
  ASSUME NEW r \in LogRow
  PROVE  r.id \in Nat /\ r.at \in Nat /\ r.who \in Whos
BY DEF LogRow

LEMMA NewerIs ==
  ASSUME NEW A \in SUBSET LogRow, OneStory(A), NEW r \in A, NEW q \in A
  PROVE  Newer(r, q) <=> r.id > q.id
<1>1. /\ r.id \in Nat /\ q.id \in Nat /\ r.at \in Nat /\ q.at \in Nat
      /\ (r.id = q.id => r = q) /\ (r.id < q.id => r.at <= q.at) /\ (q.id < r.id => q.at <= r.at)
  BY RowIs DEF OneStory
<1>2. CASE r.id = q.id
  BY <1>1, <1>2 DEF Newer
<1>3. CASE r.id < q.id
  BY <1>1, <1>3 DEF Newer
<1>4. CASE q.id < r.id
  BY <1>1, <1>4 DEF Newer
<1> QED
  BY <1>1, <1>2, <1>3, <1>4

LEMMA InTurnIs ==
  ASSUME NEW S \in SUBSET LogRow, IsFiniteSet(S), OneStory(S)
  PROVE  InTurn(S) \in Seq(LogRow) /\ Range(InTurn(S)) = S /\ Climbs(InTurn(S))
<1> DEFINE n == Cardinality(S)
           b == InTurn(S)
           upTo(r) == {q \in S : ~Newer(q, r)}
           nth(k) == CHOOSE r \in S : Cardinality(upTo(r)) = k
           D == [r \in S |-> upTo(r)]
<1>1. b = [k \in 1..n |-> nth(k)]
  BY DEF InTurn
<1>2. \A r \in S : upTo(r) = {q \in S : q.id <= r.id}
  <2> TAKE r \in S
  <2>1. \A q \in S : ~Newer(q, r) <=> q.id <= r.id
    BY NewerIs, RowIs
  <2> QED
    BY <2>1
<1>3. \A r \in S : r.id \in Nat
  BY RowIs
<1>4. \A r, q \in S : r.id = q.id => r = q
  BY DEF OneStory
<1>5. /\ n \in Nat
      /\ \A i \in S : Cardinality(D[i]) \in 1..n
      /\ \A k \in 1..n : \E i \in S : Cardinality(D[i]) = k
      /\ \A i, j \in S : Cardinality(D[i]) < Cardinality(D[j]) => i \in D[j] /\ i # j
      /\ \A i, j \in S : Cardinality(D[i]) = Cardinality(D[j]) => i = j
  <2>0. \A i \in S : D[i] = {q \in S : q.id <= i.id}
    BY <1>2
  <2>1. D \in [S -> SUBSET S] /\ \A i \in S : i \in D[i]
    <3>1. D \in [S -> SUBSET S]
      OBVIOUS
    <3> QED
      BY <1>3, <2>0, <3>1
  <2>2. \A i, j \in S : i # j => \/ D[i] \subseteq D[j] /\ j \notin D[i]
                                 \/ D[j] \subseteq D[i] /\ i \notin D[j]
    <3> HIDE DEF D
    <3> SUFFICES ASSUME NEW i \in S, NEW j \in S, i # j
                 PROVE  \/ D[i] \subseteq D[j] /\ j \notin D[i]
                        \/ D[j] \subseteq D[i] /\ i \notin D[j]
      OBVIOUS
    <3>1. i.id < j.id \/ j.id < i.id
      BY <1>3, <1>4
    <3> QED
      BY <1>3, <2>0, <3>1
  <2> HIDE DEF D, n
  <2> QED
    BY <2>1, <2>2, Numbers DEF n
<1>6. \A i \in S : D[i] = upTo(i)
  OBVIOUS
<1>7. \A k \in 1..n : nth(k) \in S /\ Cardinality(upTo(nth(k))) = k
  <2> HIDE DEF upTo
  <2> TAKE k \in 1..n
  <2>1. \E i \in S : Cardinality(upTo(i)) = k
    BY <1>5, <1>6
  <2> QED
    BY <2>1
<1>8. \A i \in S : \E k \in 1..n : nth(k) = i
  <2> TAKE i \in S
  <2>1. Cardinality(upTo(i)) \in 1..n
    BY <1>5, <1>6
  <2>2. Cardinality(upTo(nth(Cardinality(upTo(i))))) = Cardinality(upTo(i)) /\ nth(Cardinality(upTo(i))) \in S
    BY <1>7, <2>1
  <2>3. nth(Cardinality(upTo(i))) = i
    BY <1>5, <1>6, <2>2
  <2> QED
    BY <2>1, <2>3
<1>9. \A k, l \in 1..n : k < l => nth(k).id < nth(l).id
  <2> SUFFICES ASSUME NEW k \in 1..n, NEW l \in 1..n, k < l
               PROVE  nth(k).id < nth(l).id
    OBVIOUS
  <2> HIDE DEF nth, upTo, D, n
  <2>0. nth(k) \in S /\ nth(l) \in S /\ Cardinality(D[nth(k)]) = k /\ Cardinality(D[nth(l)]) = l
    BY <1>6, <1>7
  <2>1. nth(k) \in D[nth(l)] /\ nth(k) # nth(l)
    BY <1>5, <2>0
  <2>2. nth(k).id <= nth(l).id
    BY <1>2, <1>6, <2>0, <2>1
  <2> QED
    BY <1>3, <1>4, <2>0, <2>1, <2>2
<1>10. DOMAIN b = 1..n /\ b \in Seq(LogRow) /\ \A k \in 1..n : b[k] = nth(k)
  <2> HIDE DEF nth, n
  <2>1. \A k \in 1..n : nth(k) \in LogRow
    BY <1>7
  <2>2. [k \in 1..n |-> nth(k)] \in Seq(LogRow)
    BY <1>5, <2>1, IsASeq
  <2> QED
    BY <1>1, <2>2
<1>11. Range(b) = S
  <2> HIDE DEF nth, n, b
  <2>1. Range(b) = {nth(k) : k \in 1..n}
    BY <1>10 DEF Range
  <2> QED
    BY <1>7, <1>8, <2>1
<1>12. Climbs(b)
  <2> HIDE DEF nth, n, b
  <2> QED
    BY <1>9, <1>10 DEF Climbs
<1> QED
  BY <1>10, <1>11, <1>12

LEMMA RangeIs ==
  ASSUME NEW S, NEW s \in Seq(S)
  PROVE  /\ Range(s) \subseteq S /\ DOMAIN s = 1..Len(s) /\ Len(s) \in Nat
         /\ \A x : x \in Range(s) <=> \E i \in 1..Len(s) : x = s[i]
<1>1. DOMAIN s = 1..Len(s) /\ Len(s) \in Nat /\ \A i \in 1..Len(s) : s[i] \in S
  BY LenProperties, ElementOfSeq
<1> QED
  BY <1>1 DEF Range

LEMMA RangeFinite ==
  ASSUME NEW S, NEW s \in Seq(S)
  PROVE  IsFiniteSet(Range(s)) /\ Cardinality(Range(s)) <= Len(s) /\ Cardinality(Range(s)) \in Nat
<1>1. DOMAIN s = 1..Len(s) /\ Len(s) \in Nat
  BY LenProperties
<1>2. s \in [1..Len(s) -> Range(s)] /\ \A x \in Range(s) : \E i \in 1..Len(s) : s[i] = x
  <2>1. s \in [1..Len(s) -> S]
    BY LenProperties
  <2> QED
    BY <1>1, <2>1 DEF Range
<1>3. s \in Surjection(1..Len(s), Range(s))
  BY <1>2 DEF Surjection
<1>4. IsFiniteSet(1..Len(s)) /\ Cardinality(1..Len(s)) = Len(s)
  BY <1>1, FS_Interval
<1> QED
  BY <1>3, <1>4, FS_Surjection, FS_CardinalityType

LEMMA AppendedIs ==
  ASSUME NEW s \in Seq(LogRow), NEW r \in LogRow
  PROVE  /\ Append(s, r) \in Seq(LogRow) /\ Append(s, r) # <<>>
         /\ Range(Append(s, r)) = Range(s) \cup {r}
         /\ Climbs(s) /\ (\A q \in Range(s) : q.id < r.id) => Climbs(Append(s, r))
         /\ Ids(Append(s, r)) = Ids(s) \cup {r.id}
<1> DEFINE t == Append(s, r)
<1>1. /\ t \in Seq(LogRow) /\ Len(t) = Len(s) + 1 /\ Len(s) \in Nat
      /\ \A i \in 1..Len(s) : t[i] = s[i]
      /\ t[Len(s) + 1] = r
  OBVIOUS
<1>2. DOMAIN s = 1..Len(s) /\ DOMAIN t = 1..(Len(s) + 1)
  BY <1>1, LenProperties
<1> HIDE DEF t
<1>3. \A i \in DOMAIN t : i \in DOMAIN s \/ i = Len(s) + 1
  BY <1>1, <1>2
<1>4. Range(t) = Range(s) \cup {r}
  BY <1>1, <1>2, <1>3 DEF Range
<1>5. Ids(t) = Ids(s) \cup {r.id}
  BY <1>1, <1>2, <1>3 DEF Ids
<1>6. ASSUME Climbs(s), \A q \in Range(s) : q.id < r.id
      PROVE  Climbs(t)
  <2> SUFFICES ASSUME NEW i \in DOMAIN t, NEW j \in DOMAIN t, i < j
               PROVE  t[i].id < t[j].id
    BY DEF Climbs
  <2>1. i \in DOMAIN s
    BY <1>1, <1>2, <1>3
  <2>2. CASE j \in DOMAIN s
    BY <1>1, <1>2, <1>6, <2>1, <2>2 DEF Climbs
  <2>3. CASE j = Len(s) + 1
    <3>1. s[i] \in Range(s)
      BY <2>1 DEF Range
    <3> QED
      BY <1>1, <1>2, <1>6, <2>1, <2>3, <3>1
  <2> QED
    BY <1>3, <2>2, <2>3
<1>7. t # <<>>
  BY <1>1
<1> QED
  BY <1>1, <1>4, <1>5, <1>6, <1>7 DEF t

LEMMA HeadTailIs ==
  ASSUME NEW s \in Seq(LogRow), s # <<>>
  PROVE  /\ Head(s) \in LogRow /\ Tail(s) \in Seq(LogRow)
         /\ Range(s) = {Head(s)} \cup Range(Tail(s))
         /\ Ids(s) = {Head(s).id} \cup Ids(Tail(s))
         /\ Climbs(s) => Climbs(Tail(s)) /\ \A q \in Range(Tail(s)) : Head(s).id < q.id
<1> DEFINE t == Tail(s)
<1>1. /\ Head(s) \in LogRow /\ t \in Seq(LogRow) /\ Len(t) = Len(s) - 1 /\ Len(s) \in Nat /\ Len(s) >= 1
      /\ \A i \in 1..Len(t) : t[i] = s[i + 1]
      /\ Head(s) = s[1]
  BY HeadTailProperties, EmptySeq, LenProperties
<1> HIDE DEF t
<1>2. DOMAIN s = 1..Len(s) /\ DOMAIN t = 1..(Len(s) - 1)
  BY <1>1, LenProperties
<1>3. \A i \in DOMAIN s : i = 1 \/ (i - 1 \in DOMAIN t /\ s[i] = t[i - 1])
  BY <1>1, <1>2
<1>4. \A i \in DOMAIN t : i + 1 \in DOMAIN s /\ t[i] = s[i + 1]
  BY <1>1, <1>2
<1>5. 1 \in DOMAIN s
  BY <1>1, <1>2
<1>6. Range(s) = {Head(s)} \cup Range(t)
  <2>1. \A i \in DOMAIN s : s[i] = Head(s) \/ \E j \in DOMAIN t : s[i] = t[j]
    BY <1>1, <1>3
  <2>2. Head(s) = s[1] /\ \A j \in DOMAIN t : \E i \in DOMAIN s : t[j] = s[i]
    BY <1>1, <1>4
  <2> QED
    BY <1>5, <2>1, <2>2 DEF Range
<1>7. Ids(s) = {Head(s).id} \cup Ids(t)
  <2>1. Ids(s) = {r.id : r \in Range(s)} /\ Ids(t) = {r.id : r \in Range(t)}
    BY DEF Ids, Range
  <2> QED
    BY <1>6, <2>1
<1>8. ASSUME Climbs(s)
      PROVE  Climbs(t) /\ \A q \in Range(t) : Head(s).id < q.id
  <2>1. Climbs(t)
    <3> SUFFICES ASSUME NEW i \in DOMAIN t, NEW j \in DOMAIN t, i < j
                 PROVE  t[i].id < t[j].id
      BY DEF Climbs
    <3>1. i + 1 \in DOMAIN s /\ j + 1 \in DOMAIN s /\ i + 1 < j + 1
      BY <1>1, <1>2, <1>4
    <3> QED
      BY <1>4, <1>8, <3>1 DEF Climbs
  <2>2. ASSUME NEW q \in Range(t)
        PROVE  Head(s).id < q.id
    <3>1. PICK i \in DOMAIN t : q = t[i]
      BY <2>2 DEF Range
    <3>2. 1 < i + 1 /\ i + 1 \in DOMAIN s /\ q = s[i + 1]
      BY <1>1, <1>2, <1>4, <3>1
    <3> QED
      BY <1>1, <1>5, <1>8, <3>2 DEF Climbs
  <2> QED
    BY <2>1, <2>2
<1> QED
  BY <1>1, <1>6, <1>7, <1>8 DEF t

LEMMA RowsTyped ==
  ASSUME NEW l, NEW f, NEW T, LogTyped(l, f, T)
  PROVE  Rows(l, f, T) \in SUBSET LogRow
<1>1. Range(l.rows) \subseteq LogRow /\ Range(l.unwritten) \subseteq LogRow /\ Range(f.batch) \subseteq LogRow
  BY RangeIs DEF LogTyped
<1> QED
  BY <1>1 DEF Rows, LogTyped

-----------------------------------------------------------------------------
(* Rows that are buried stay so, and are in the table only.                *)

LEMMA BuriedGrows ==
  ASSUME NEW T, NEW T2, IsFiniteSet(T2), T \subseteq T2, NEW r, Buried(r, T)
  PROVE  Buried(r, T2)
<1> DEFINE N == {q \in T : Newer(q, r)}
           M == {q \in T2 : Newer(q, r)}
<1>1. N \subseteq M /\ M \subseteq T2 /\ IsFiniteSet(M) /\ IsFiniteSet(N)
  BY FS_Subset
<1>2. Cardinality(N) <= Cardinality(M) /\ Cardinality(N) \in Nat /\ Cardinality(M) \in Nat
  BY <1>1, FS_Subset, FS_CardinalityType
<1> QED
  BY <1>2, AdminLogAssumption DEF Buried, AdminLogAssumption

LEMMA PrunedIs ==
  ASSUME NEW T \in SUBSET LogRow, IsFiniteSet(T), OneStory(T), NEW c \in Int
  PROVE  /\ Pruned(T, c) \subseteq T /\ IsFiniteSet(Pruned(T, c))
         /\ \A r \in Pruned(T, c) : r.at >= c /\ ~Buried(r, T)
         /\ \A r \in T : r \notin Pruned(T, c) => r.at < c \/ Buried(r, T)
<1> DEFINE Y == {r \in T : r.at >= c}
           N(r) == {q \in Y : Newer(q, r)}
           M(r) == {q \in T : Newer(q, r)}
<1>1. Pruned(T, c) = {r \in Y : Cardinality(N(r)) < MaxRows}
  BY DEF Pruned
<1>2. \A r \in T : IsFiniteSet(M(r)) /\ Cardinality(M(r)) \in Nat /\ N(r) \subseteq M(r)
                   /\ Cardinality(N(r)) <= Cardinality(M(r)) /\ Cardinality(N(r)) \in Nat
  <2> TAKE r \in T
  <2>1. N(r) \subseteq M(r) /\ M(r) \subseteq T
    OBVIOUS
  <2>2. IsFiniteSet(M(r)) /\ IsFiniteSet(N(r))
    BY <2>1, FS_Subset
  <2> QED
    BY <2>1, <2>2, FS_Subset, FS_CardinalityType
<1>3. \A r \in Y : M(r) \subseteq N(r)
  <2> SUFFICES ASSUME NEW r \in Y, NEW q \in T, Newer(q, r)
               PROVE  q \in Y
    OBVIOUS
  <2>1. q.at \in Nat /\ r.at \in Nat /\ q.at >= r.at
    BY RowIs DEF Newer
  <2> QED
    BY <2>1
<1>4. \A r \in T : r.at \in Nat
  BY RowIs
<1>5. \A r \in T : Buried(r, T) <=> Cardinality(M(r)) >= MaxRows
  BY DEF Buried
<1>6. MaxRows \in Nat
  BY AdminLogAssumption DEF AdminLogAssumption
<1>7. \A r \in Y : N(r) = M(r)
  BY <1>2, <1>3
<1> HIDE DEF N, M
<1>8. IsFiniteSet(Pruned(T, c))
  BY <1>1, FS_Subset
<1> QED
  BY <1>1, <1>2, <1>4, <1>5, <1>6, <1>7, <1>8


LEMMA IdsAre ==
  ASSUME NEW s
  PROVE  Ids(s) = {r.id : r \in Range(s)}
BY DEF Ids, Range

\* What the bounds leave of the ring is the end of it; what they cut is old or
\* has enough behind it.
LEMMA BoundedRows ==
  ASSUME NEW rs \in Seq(LogRow), Climbs(rs), OneStory(Range(rs)), NEW c \in Int
  PROVE  LET b == Bounded(rs, c) IN
         /\ b \in Seq(LogRow) /\ Len(b) <= MaxRows /\ Climbs(b) /\ Range(b) \subseteq Range(rs)
         /\ \A r \in Range(b) : r.at >= c
         /\ \A r \in Range(b) : \A q \in Range(rs) : r.id < q.id => q \in Range(b)
         /\ \A r \in Range(rs) : r \notin Range(b) => r.at < c \/ Buried(r, Range(rs))
<1> DEFINE b == Bounded(rs, c)
           K == Kept(rs, c)
           Y == Young(rs, c)
           above(i) == {j \in Y : j > i}
<1>1. b \in Seq(LogRow) /\ Len(b) <= MaxRows /\ Climbs(b) /\ Range(b) = {rs[i] : i \in K}
  BY BoundedIs
<1>2. /\ DOMAIN rs = 1..Len(rs) /\ Len(rs) \in Nat /\ Range(rs) \in SUBSET LogRow
      /\ \A i \in DOMAIN rs : rs[i] \in LogRow /\ rs[i] \in Range(rs) /\ i \in Nat
  BY RangeIs DEF Range
<1>3. \A i \in DOMAIN rs : rs[i].at \in Nat /\ rs[i].id \in Nat
  BY <1>2, RowIs
<1>4. Y = {i \in DOMAIN rs : rs[i].at >= c} /\ K = {i \in Y : Cardinality(above(i)) < MaxRows}
  BY DEF Kept, Young
<1>5. IsFiniteSet(Y)
  <2>1. IsFiniteSet(DOMAIN rs)
    BY <1>2, FS_Interval
  <2> QED
    BY <1>4, <2>1, FS_Subset
<1>6. \A i \in Y : IsFiniteSet(above(i)) /\ Cardinality(above(i)) \in Nat
  BY <1>5, FS_Subset, FS_CardinalityType
<1>7. MaxRows \in Nat
  BY AdminLogAssumption DEF AdminLogAssumption
<1>8. \A i, j \in DOMAIN rs : rs[i].id < rs[j].id => i < j /\ rs[i].at <= rs[j].at
  <2> SUFFICES ASSUME NEW i \in DOMAIN rs, NEW j \in DOMAIN rs, rs[i].id < rs[j].id
               PROVE  i < j /\ rs[i].at <= rs[j].at
    OBVIOUS
  <2>1. i # j /\ ~(j < i)
    BY <1>3 DEF Climbs
  <2>2. rs[i].at <= rs[j].at
    BY <1>2 DEF OneStory
  <2> QED
    BY <1>2, <2>1, <2>2
<1> HIDE DEF K, Y, b
<1>9. ASSUME NEW i \in K, NEW j \in DOMAIN rs, rs[i].id < rs[j].id
      PROVE  j \in K
  <2>1. i \in Y /\ i \in DOMAIN rs /\ rs[i].at >= c /\ Cardinality(above(i)) < MaxRows
    BY <1>4
  <2>2. i < j /\ rs[i].at <= rs[j].at
    BY <1>8, <1>9, <2>1
  <2>3. j \in Y
    BY <1>3, <1>4, <2>1, <2>2
  <2>4. above(j) \subseteq above(i)
    BY <1>2, <1>4, <2>1, <2>2
  <2>5. Cardinality(above(j)) <= Cardinality(above(i))
    BY <1>6, <2>1, <2>4, FS_Subset
  <2> HIDE DEF above
  <2>6. Cardinality(above(j)) < MaxRows
    BY <1>6, <1>7, <2>1, <2>3, <2>5
  <2> QED
    BY <1>4, <2>3, <2>6
<1>10. \A r \in Range(b) : \A q \in Range(rs) : r.id < q.id => q \in Range(b)
  <2> SUFFICES ASSUME NEW r \in Range(b), NEW q \in Range(rs), r.id < q.id
               PROVE  q \in Range(b)
    OBVIOUS
  <2>1. PICK i \in K : r = rs[i]
    BY <1>1
  <2>2. PICK j \in DOMAIN rs : q = rs[j]
    BY DEF Range
  <2>3. j \in K
    BY <1>9, <2>1, <2>2
  <2> QED
    BY <1>1, <2>2, <2>3
<1>11. \A r \in Range(rs) : r \notin Range(b) => r.at < c \/ Buried(r, Range(rs))
  <2> SUFFICES ASSUME NEW i \in DOMAIN rs, i \notin K, rs[i].at >= c
               PROVE  Buried(rs[i], Range(rs))
    <3> SUFFICES ASSUME NEW r \in Range(rs), r \notin Range(b), ~(r.at < c)
                 PROVE  Buried(r, Range(rs))
      OBVIOUS
    <3>1. PICK i \in DOMAIN rs : r = rs[i]
      BY DEF Range
    <3>2. i \notin K /\ rs[i].at >= c
      BY <1>1, <1>3, <3>1
    <3> QED
      BY <3>1, <3>2
  <2>1. i \in Y
    BY <1>4
  <2>2. Cardinality(above(i)) >= MaxRows
    <3> HIDE DEF above
    <3> QED
      BY <1>4, <1>6, <1>7, <2>1
  <2> DEFINE N == {x \in Range(rs) : Newer(x, rs[i])}
             g == [j \in above(i) |-> rs[j]]
  <2>3. \A j \in above(i) : j \in DOMAIN rs /\ rs[j] \in N /\ rs[i].id < rs[j].id
    <3> TAKE j \in above(i)
    <3>1. j \in DOMAIN rs /\ i < j
      BY <1>2, <1>4, <2>1
    <3>2. rs[i].id < rs[j].id
      BY <3>1 DEF Climbs
    <3>3. Newer(rs[j], rs[i])
      BY <1>2, <1>3, <3>1, <3>2, NewerIs
    <3> QED
      BY <1>2, <3>1, <3>2, <3>3
  <2>4. \A j, k \in above(i) : rs[j] = rs[k] => j = k
    <3> SUFFICES ASSUME NEW j \in above(i), NEW k \in above(i), rs[j] = rs[k], j # k
                 PROVE  FALSE
      OBVIOUS
    <3>1. j \in DOMAIN rs /\ k \in DOMAIN rs
      BY <2>3
    <3>2. j < k \/ k < j
      BY <1>2, <3>1
    <3> QED
      BY <1>3, <3>1, <3>2 DEF Climbs
  <2>5. g \in Injection(above(i), N)
    <3>1. g \in [above(i) -> N]
      BY <2>3
    <3>2. \A j, k \in above(i) : g[j] = g[k] => j = k
      BY <2>4
    <3> HIDE DEF g
    <3> QED
      BY <3>1, <3>2 DEF Injection, IsInjective
  <2>6. IsFiniteSet(N) /\ Cardinality(N) \in Nat
    BY RangeFinite, FS_Subset, FS_CardinalityType
  <2>7. Cardinality(above(i)) <= Cardinality(N)
    <3> HIDE DEF N, g, above
    <3> QED
      BY <2>5, <2>6, FS_Injection
  <2>8. Cardinality(N) >= MaxRows
    <3> HIDE DEF N, above
    <3> QED
      BY <1>6, <1>7, <2>1, <2>2, <2>6, <2>7
  <2> QED
    BY <2>8 DEF Buried
<1>12. Range(b) \subseteq Range(rs) /\ \A r \in Range(b) : r.at >= c
  <2>1. \A i \in K : i \in DOMAIN rs /\ rs[i].at >= c
    BY <1>4
  <2> QED
    BY <1>1, <1>2, <2>1
<1> QED
  BY <1>1, <1>10, <1>11, <1>12 DEF b

\* Nothing in the ring or on its way to the table is buried in it.
LEMMA NotBuried ==
  ASSUME NEW l, NEW f, NEW T, LogTyped(l, f, T), OneStory(Rows(l, f, T)),
         InLine(l, f, T), RingIs(l, f, T),
         NEW r \in Range(l.rows) \cup Range(l.unwritten) \cup Range(f.batch)
  PROVE  ~Buried(r, T)
<1> DEFINE N == {q \in T : Newer(q, r)}
<1>1. Rows(l, f, T) \in SUBSET LogRow /\ T \subseteq Rows(l, f, T) /\ r \in Rows(l, f, T)
  BY RowsTyped DEF Rows
<1>2. \A q \in T : Newer(q, r) => q.id > r.id
  BY <1>1, NewerIs
<1>3. MaxRows \in Nat \ {0}
  BY AdminLogAssumption DEF AdminLogAssumption
<1>4. Cardinality(N) < MaxRows /\ Cardinality(N) \in Nat
  <2>1. CASE r \in Range(l.rows)
    <3>1. N \subseteq Range(l.rows) \ {r}
      <4> SUFFICES ASSUME NEW q \in T, Newer(q, r)
                   PROVE  q \in Range(l.rows) /\ q # r
        OBVIOUS
      <4>1. q.id > r.id /\ q \in Rows(l, f, T) /\ q.id \in Nat /\ r.id \in Nat
        BY <1>1, <1>2, RowIs
      <4> QED
        BY <2>1, <4>1 DEF RingIs
    <3>2. l.rows \in Seq(LogRow)
      BY DEF LogTyped
    <3>3. IsFiniteSet(Range(l.rows)) /\ Cardinality(Range(l.rows)) <= Len(l.rows) /\ Cardinality(Range(l.rows)) \in Nat
      BY <3>2, RangeFinite
    <3>4. IsFiniteSet(Range(l.rows) \ {r}) /\ Cardinality(Range(l.rows) \ {r}) = Cardinality(Range(l.rows)) - 1
      BY <2>1, <3>3, FS_RemoveElement
    <3>5. IsFiniteSet(N) /\ Cardinality(N) <= Cardinality(Range(l.rows) \ {r}) /\ Cardinality(N) \in Nat
      BY <3>1, <3>4, FS_Subset, FS_CardinalityType
    <3>6. Len(l.rows) <= MaxRows /\ Len(l.rows) \in Nat
      BY <3>2, LenProperties DEF RingIs
    <3> HIDE DEF N
    <3> QED
      BY <1>3, <3>3, <3>4, <3>5, <3>6
  <2>2. CASE r \in Range(l.unwritten) \cup Range(f.batch)
    <3>1. \A q \in T : q.id < r.id /\ q.id \in Nat /\ r.id \in Nat
      BY <1>1, <2>2, RowIs DEF InLine
    <3>2. N = {}
      BY <1>2, <3>1
    <3> QED
      BY <1>3, <3>2, FS_EmptySet
  <2> QED
    BY <2>1, <2>2
<1> HIDE DEF N
<1>5. ~(Cardinality(N) >= MaxRows)
  BY <1>3, <1>4
<1> QED
  BY <1>5 DEF Buried, N

\* The bounds of the log are numbers from 1 on.
LEMMA BoundsAre == MaxRows \in Nat \ {0} /\ MaxAge \in Nat \ {0} /\ Gap \in Nat
BY AdminLogAssumption DEF AdminLogAssumption

\* Nothing said of the log is of its timer or of a write that waits.
LEMMA SameLog ==
  ASSUME NEW l, NEW k, NEW f, NEW T, NEW ref, NEW h, LogStands(l, f, T, ref, h),
         NEW b, NEW c, k = [l EXCEPT !.timer = b, !.queued = c]
  PROVE  LogStands(k, f, T, ref, h)
<1>1. k = [rows |-> l.rows, nextId |-> l.nextId, visits |-> l.visits, unwritten |-> l.unwritten,
           prunedTo |-> l.prunedTo, timer |-> b, queued |-> c]
  BY DEF LogStands, LogTyped
<1>2. /\ k.rows = l.rows /\ k.nextId = l.nextId /\ k.visits = l.visits
      /\ k.unwritten = l.unwritten /\ k.prunedTo = l.prunedTo /\ k.timer = b /\ k.queued = c
  BY <1>1
<1>3. Rows(k, f, T) = Rows(l, f, T)
  BY <1>2 DEF Rows
<1>4. LogTyped(k, f, T)
  BY <1>1, <1>2 DEF LogStands, LogTyped
<1>5. InLine(k, f, T) /\ RingIs(k, f, T) /\ Reached(k, f, T, ref) /\ Past(k, f, T, h)
  BY <1>2, <1>3 DEF LogStands, InLine, RingIs, Reached, Past
<1>6. Visited(k, Rows(l, f, T), T, h)
  BY <1>2 DEF LogStands, Visited
<1> QED
  BY <1>3, <1>4, <1>5, <1>6 DEF LogStands

-----------------------------------------------------------------------------
(* A row more.                                                             *)

RowOf(l, who, h) == [id |-> l.nextId, at |-> h, who |-> who]

\* Nobody's row, or of somebody whose every row is another visit.
NewVisit(l, f, T, h, who) ==
  who # Nobody =>
    /\ who \in DOMAIN l.visits /\ l.visits[who] = h
    /\ \A r \in Rows(l, f, T) : r.who = who =>
         h - r.at >= Gap \/ h - r.at > MaxAge \/ Buried(r, T)

LEMMA PushedIs ==
  ASSUME NEW l, NEW f, NEW T, LogTyped(l, f, T), NEW who
  PROVE  LET k == Pushed(l, who) IN
         /\ k = [rows |-> k.rows, nextId |-> k.nextId, visits |-> k.visits, unwritten |-> k.unwritten,
                 prunedTo |-> k.prunedTo, timer |-> k.timer, queued |-> k.queued]
         /\ k.rows = Bounded(Append(l.rows, RowOf(l, who, now)), now - MaxAge)
         /\ k.nextId = l.nextId + 1 /\ k.visits = l.visits
         /\ k.unwritten = Append(l.unwritten, RowOf(l, who, now))
         /\ k.prunedTo = now - MaxAge /\ k.timer = TRUE /\ k.queued = l.queued
<1> DEFINE b == Bounded(Append(l.rows, RowOf(l, who, now)), now - MaxAge)
           u == Append(l.unwritten, RowOf(l, who, now))
<1>1. Pushed(l, who) = [l EXCEPT !.rows = b, !.nextId = l.nextId + 1, !.unwritten = u,
                                 !.prunedTo = now - MaxAge, !.timer = TRUE]
  BY DEF Pushed, RowOf
<1> HIDE DEF b, u
<1>2. l = [rows |-> l.rows, nextId |-> l.nextId, visits |-> l.visits, unwritten |-> l.unwritten,
           prunedTo |-> l.prunedTo, timer |-> l.timer, queued |-> l.queued]
  BY DEF LogTyped
<1>3. Pushed(l, who) = [rows |-> b, nextId |-> l.nextId + 1, visits |-> l.visits, unwritten |-> u,
                        prunedTo |-> now - MaxAge, timer |-> TRUE, queued |-> l.queued]
  BY <1>1, <1>2
<1> QED
  BY <1>3 DEF b, u

LEMMA PushedStands ==
  ASSUME NEW l, NEW f, NEW T, NEW ref, LogStands(l, f, T, ref, now),
         NEW who \in Whos, NewVisit(l, f, T, now, who)
  PROVE  LogStands(Pushed(l, who), f, T, ref, now) /\ Pushed(l, who).timer = TRUE
<1> DEFINE k == Pushed(l, who)
           row == RowOf(l, who, now)
           long == Append(l.rows, row)
           c == now - MaxAge
           A == Rows(l, f, T)
           B == Rows(k, f, T)
<1>1. /\ k = [rows |-> k.rows, nextId |-> k.nextId, visits |-> k.visits, unwritten |-> k.unwritten,
              prunedTo |-> k.prunedTo, timer |-> k.timer, queued |-> k.queued]
      /\ k.rows = Bounded(long, c)
      /\ k.nextId = l.nextId + 1 /\ k.visits = l.visits
      /\ k.unwritten = Append(l.unwritten, row)
      /\ k.prunedTo = c /\ k.timer = TRUE
  BY PushedIs DEF LogStands
<1> HIDE DEF k
<1>2. /\ LogTyped(l, f, T) /\ OneStory(A) /\ InLine(l, f, T) /\ RingIs(l, f, T)
      /\ Reached(l, f, T, ref) /\ Past(l, f, T, now) /\ Apart(A, T) /\ Visited(l, A, T, now)
  BY DEF LogStands
<1>3. l.nextId \in Nat /\ now \in Nat /\ c \in Int /\ MaxAge \in Nat
  BY <1>2, BoundsAre DEF LogTyped, Past
<1>4. row \in LogRow /\ row.id = l.nextId /\ row.at = now /\ row.who = who
  BY <1>3 DEF RowOf, LogRow
<1> HIDE DEF row, c
<1>5. A \in SUBSET LogRow /\ \A r \in A : r.id \in Nat /\ r.at \in Nat /\ r.id < l.nextId /\ r.at <= now
  BY <1>2, RowsTyped, RowIs DEF Past
<1>6. Range(l.rows) \subseteq A /\ Range(l.unwritten) \subseteq A /\ Range(f.batch) \subseteq A /\ T \subseteq A
  BY DEF Rows
<1> HIDE DEF A
<1>7. OneStory(A \cup {row})
  BY <1>2, <1>3, <1>4, <1>5 DEF OneStory
<1>8. l.rows \in Seq(LogRow) /\ l.unwritten \in Seq(LogRow) /\ Climbs(l.rows) /\ Climbs(l.unwritten)
  BY <1>2 DEF LogTyped, InLine
<1>9. /\ long \in Seq(LogRow) /\ Range(long) = Range(l.rows) \cup {row} /\ Climbs(long)
  BY <1>4, <1>5, <1>6, <1>8, AppendedIs
<1>10. /\ k.unwritten \in Seq(LogRow) /\ Range(k.unwritten) = Range(l.unwritten) \cup {row}
       /\ Climbs(k.unwritten) /\ Ids(k.unwritten) = Ids(l.unwritten) \cup {row.id}
  BY <1>1, <1>4, <1>5, <1>6, <1>8, AppendedIs
<1> HIDE DEF long
<1>11. OneStory(Range(long))
  BY <1>6, <1>7, <1>9 DEF OneStory
<1>12. /\ k.rows \in Seq(LogRow) /\ Len(k.rows) <= MaxRows /\ Climbs(k.rows)
       /\ Range(k.rows) \subseteq Range(long)
       /\ \A r \in Range(k.rows) : r.at >= c
       /\ \A r \in Range(k.rows) : \A q \in Range(long) : r.id < q.id => q \in Range(k.rows)
  BY <1>1, <1>3, <1>9, <1>11, BoundedRows
<1>13. B \subseteq A \cup {row}
  BY <1>6, <1>9, <1>10, <1>12 DEF Rows
<1> HIDE DEF B
<1>14. LogTyped(k, f, T)
  BY <1>1, <1>2, <1>3, <1>10, <1>12 DEF LogTyped
<1>15. OneStory(B)
  BY <1>7, <1>13 DEF OneStory
<1>16. InLine(k, f, T)
  BY <1>2, <1>4, <1>5, <1>6, <1>10, <1>12 DEF InLine
<1>17. RingIs(k, f, T)
  <2> SUFFICES ASSUME NEW r \in Range(k.rows)
               PROVE  /\ r.at >= k.prunedTo /\ r.at >= f.cutoff
                      /\ \A q \in B : (r.id < q.id => q \in Range(k.rows)) /\ q.at - r.at <= MaxAge
    BY <1>12 DEF RingIs, B
  <2>1. r \in Range(l.rows) \/ r = row
    BY <1>9, <1>12
  <2>2. r.at >= k.prunedTo
    BY <1>1, <1>12
  <2>3. r.at >= f.cutoff
    BY <1>2, <1>4, <2>1 DEF RingIs, Past
  <2>4. ASSUME NEW q \in B, r.id < q.id
        PROVE  q \in Range(k.rows)
    <3>1. q \in A \/ q = row
      BY <1>13
    <3>2. q \in Range(long)
      <4>1. CASE q = row
        BY <1>9, <4>1
      <4>2. CASE q \in A
        <5>1. r # row
          BY <1>3, <1>4, <1>5, <2>4, <4>2
        <5>2. q \in Range(l.rows)
          BY <1>2, <2>1, <2>4, <4>2, <5>1 DEF RingIs, A
        <5> QED
          BY <1>9, <5>2
      <4> QED
        BY <3>1, <4>1, <4>2
    <3> QED
      BY <1>12, <2>4, <3>2
  <2>5. ASSUME NEW q \in B
        PROVE  q.at - r.at <= MaxAge
    <3>1. q.at \in Nat /\ q.at <= now
      BY <1>3, <1>4, <1>5, <1>13
    <3>2. r.at \in Nat /\ r.at >= now - MaxAge
      BY <1>3, <1>4, <1>5, <1>6, <1>12, <2>1 DEF c
    <3> QED
      BY <1>3, <3>1, <3>2
  <2> QED
    BY <2>2, <2>3, <2>4, <2>5
<1>18. Reached(k, f, T, ref)
  <2> SUFFICES ASSUME NEW r \in Range(k.rows)
               PROVE  r \in T \/ r.id \in ref \cup Ids(k.unwritten) \cup Ids(f.batch)
    BY DEF Reached
  <2>1. r \in Range(l.rows) \/ r = row
    BY <1>9, <1>12
  <2> QED
    BY <1>2, <1>10, <2>1 DEF Reached
<1>19. Past(k, f, T, now)
  <2>1. \A r \in B : r.id < l.nextId + 1 /\ r.at <= now
    BY <1>3, <1>4, <1>5, <1>13
  <2>2. c <= now
    BY <1>3 DEF c
  <2> QED
    BY <1>1, <1>2, <2>1, <2>2 DEF Past, B
<1>20. Apart(B, T)
  <2> SUFFICES ASSUME NEW r \in B, NEW q \in B, r.who # Nobody, r.who = q.who, r.id < q.id
               PROVE  q.at - r.at >= Gap \/ q.at - r.at > MaxAge \/ Buried(r, T)
    BY DEF Apart
  <2>1. r \in A
    BY <1>3, <1>4, <1>5, <1>13
  <2>2. CASE q \in A
    BY <1>2, <2>1, <2>2 DEF Apart
  <2>3. CASE q = row
    BY <1>4, <2>1, <2>3 DEF NewVisit, A
  <2> QED
    BY <1>13, <2>2, <2>3
<1>21. Visited(k, B, T, now)
  <2> SUFFICES ASSUME NEW r \in B, r.who # Nobody
               PROVE  \/ r.who \in DOMAIN k.visits /\ r.at <= k.visits[r.who]
                      \/ now - r.at > MaxAge
                      \/ Buried(r, T)
    BY DEF Visited
  <2>1. CASE r \in A
    BY <1>1, <1>2, <2>1 DEF Visited
  <2>2. CASE r = row
    BY <1>1, <1>3, <1>4, <2>2 DEF NewVisit
  <2> QED
    BY <1>13, <2>1, <2>2
<1> QED
  BY <1>1, <1>14, <1>15, <1>16, <1>17, <1>18, <1>19, <1>20, <1>21 DEF LogStands, k, B

\* Somebody's hello, told apart from those before it or not written down.
LEMMA SignInStands ==
  ASSUME NEW l, NEW f, NEW T, NEW ref, LogStands(l, f, T, ref, now), NEW who \in Whos
  PROVE  LET k == SignInRecorded(l, who) IN
         LogStands(k, f, T, ref, now) /\ (k = l \/ k.timer = TRUE)
<1> DEFINE v == [p \in DOMAIN l.visits \cup {who} |-> IF p = who THEN now ELSE l.visits[p]]
           m == [l EXCEPT !.visits = v]
           A == Rows(l, f, T)
<1>1. CASE who \in DOMAIN l.visits /\ now - l.visits[who] < Gap
  BY <1>1 DEF SignInRecorded
<1>2. CASE ~(who \in DOMAIN l.visits /\ now - l.visits[who] < Gap)
  <2>1. SignInRecorded(l, who) = Pushed(m, who)
    BY <1>2 DEF SignInRecorded
  <2>2. /\ DOMAIN v = DOMAIN l.visits \cup {who} /\ v[who] = now
        /\ \A p \in DOMAIN l.visits : p # who => v[p] = l.visits[p]
    OBVIOUS
  <2> HIDE DEF v
  <2>3. m = [rows |-> l.rows, nextId |-> l.nextId, visits |-> v, unwritten |-> l.unwritten,
             prunedTo |-> l.prunedTo, timer |-> l.timer, queued |-> l.queued]
    BY DEF LogStands, LogTyped
  <2> HIDE DEF m
  <2>4. /\ m.rows = l.rows /\ m.nextId = l.nextId /\ m.visits = v
        /\ m.unwritten = l.unwritten /\ m.prunedTo = l.prunedTo /\ m.timer = l.timer
        /\ m.queued = l.queued
    BY <2>3
  <2>5. Rows(m, f, T) = A
    BY <2>4 DEF Rows
  <2>6. now \in Nat /\ Gap \in Nat /\ \A p \in DOMAIN l.visits : l.visits[p] \in Nat
    BY BoundsAre DEF LogStands, LogTyped, Past
  <2>7. LogTyped(m, f, T)
    <3>1. \A p \in DOMAIN v : v[p] \in Nat
      BY <2>2, <2>6
    <3> QED
      BY <2>3, <2>4, <3>1 DEF LogStands, LogTyped
  <2>8. InLine(m, f, T) /\ RingIs(m, f, T) /\ Reached(m, f, T, ref) /\ Past(m, f, T, now)
    BY <2>4, <2>5 DEF LogStands, InLine, RingIs, Reached, Past
  <2>9. \A r \in A : r.at \in Nat /\ r.at <= now
    BY RowsTyped, RowIs DEF LogStands, Past
  <2>10. Visited(m, A, T, now)
    <3> SUFFICES ASSUME NEW r \in A, r.who # Nobody
                 PROVE  \/ r.who \in DOMAIN m.visits /\ r.at <= m.visits[r.who]
                        \/ now - r.at > MaxAge
                        \/ Buried(r, T)
      BY DEF Visited
    <3>1. CASE r.who = who
      BY <2>2, <2>4, <2>9, <3>1
    <3>2. CASE r.who # who
      BY <2>2, <2>4, <3>2 DEF LogStands, Visited
    <3> QED
      BY <3>1, <3>2
  <2>11. LogStands(m, f, T, ref, now)
    BY <2>5, <2>7, <2>8, <2>10 DEF LogStands
  <2>12. NewVisit(m, f, T, now, who)
    <3> SUFFICES ASSUME who # Nobody
                 PROVE  \A r \in A : r.who = who =>
                          now - r.at >= Gap \/ now - r.at > MaxAge \/ Buried(r, T)
      BY <2>2, <2>4, <2>5 DEF NewVisit
    <3> SUFFICES ASSUME NEW r \in A, r.who = who
                 PROVE  now - r.at >= Gap \/ now - r.at > MaxAge \/ Buried(r, T)
      OBVIOUS
    <3>1. \/ who \in DOMAIN l.visits /\ r.at <= l.visits[who]
          \/ now - r.at > MaxAge
          \/ Buried(r, T)
      BY DEF LogStands, Visited
    <3>2. CASE who \in DOMAIN l.visits /\ r.at <= l.visits[who]
      <4>1. now - l.visits[who] >= Gap /\ l.visits[who] \in Nat
        BY <1>2, <2>6, <3>2
      <4> QED
        BY <2>6, <2>9, <3>2, <4>1
    <3> QED
      BY <3>1, <3>2
  <2> QED
    BY <2>1, <2>11, <2>12, PushedStands
<1> QED
  BY <1>1, <1>2

-----------------------------------------------------------------------------
(* A start on what there is in the table.                                  *)

\* A finite set of numbers has a greatest.
LEMMA MaxIs ==
  ASSUME NEW S, S \subseteq Nat, IsFiniteSet(S), S # {}
  PROVE  Max(S) \in S /\ \A y \in S : Max(S) >= y
<1> DEFINE D == [i \in S |-> {j \in S : j <= i}]
           n == Cardinality(S)
<1>1. D \in [S -> SUBSET S] /\ \A i \in S : i \in D[i]
  OBVIOUS
<1>2. \A i, j \in S : i # j => \/ D[i] \subseteq D[j] /\ j \notin D[i]
                               \/ D[j] \subseteq D[i] /\ i \notin D[j]
  <2>0. \A i \in S : D[i] = {j \in S : j <= i}
    OBVIOUS
  <2> HIDE DEF D
  <2>1. ASSUME NEW i \in S, NEW j \in S, i < j
        PROVE  D[i] \subseteq D[j] /\ j \notin D[i]
    <3>1. i \in Nat /\ j \in Nat /\ \A k \in S : k \in Nat
      OBVIOUS
    <3>2. \A k \in D[i] : k \in S /\ k <= i
      BY <2>0
    <3>3. \A k \in S : k <= j => k \in D[j]
      BY <2>0
    <3>4. D[i] \subseteq D[j]
      <4> SUFFICES ASSUME NEW k \in D[i]
                   PROVE  k \in D[j]
        OBVIOUS
      <4>1. k \in S /\ k <= i /\ k \in Nat
        BY <3>1, <3>2
      <4>2. k <= j
        BY <2>1, <3>1, <4>1
      <4> QED
        BY <3>3, <4>1, <4>2
    <3>5. j \notin D[i]
      BY <2>1, <3>1, <3>2
    <3> QED
      BY <3>4, <3>5
  <2>2. \A i, j \in S : i # j => i < j \/ j < i
    OBVIOUS
  <2> QED
    BY <2>1, <2>2
<1>3. \A i \in S : D[i] = {j \in S : j <= i}
  OBVIOUS
<1> HIDE DEF D
<1>4. n \in Nat /\ \A k \in 1..n : \E i \in S : Cardinality(D[i]) = k
  BY <1>1, <1>2, Numbers
<1>5. n # 0
  BY FS_EmptySet
<1>6. PICK m \in S : Cardinality(D[m]) = n
  BY <1>4, <1>5
<1>7. D[m] = S
  <2>1. D[m] \subseteq S
    BY <1>1
  <2> QED
    BY <1>6, <2>1, FS_Subset
<1>8. \A y \in S : m >= y
  BY <1>3, <1>7
<1> QED
  BY <1>8 DEF Max

\* What the visits are after a start.
LEMMA VisitsAre ==
  ASSUME NEW rs \in Seq(LogRow)
  PROVE  /\ \A p \in DOMAIN VisitsIn(rs) : VisitsIn(rs)[p] \in Nat
         /\ \A r \in Range(rs) : r.who # Nobody =>
              r.who \in DOMAIN VisitsIn(rs) /\ r.at <= VisitsIn(rs)[r.who]
<1> DEFINE D == {rs[i].who : i \in DOMAIN rs} \ {Nobody}
           hours(p) == {rs[i].at : i \in {j \in DOMAIN rs : rs[j].who = p}}
<1>1. /\ DOMAIN VisitsIn(rs) = D
      /\ \A p \in D : VisitsIn(rs)[p] = Max(hours(p))
  BY DEF VisitsIn
<1>2. /\ DOMAIN rs = 1..Len(rs) /\ Len(rs) \in Nat
      /\ \A i \in DOMAIN rs : rs[i] \in LogRow /\ rs[i].at \in Nat
  <2>1. DOMAIN rs = 1..Len(rs) /\ Len(rs) \in Nat /\ \A i \in DOMAIN rs : rs[i] \in LogRow
    BY LenProperties, ElementOfSeq
  <2> QED
    BY <2>1, RowIs
<1>3. ASSUME NEW p \in D
      PROVE  Max(hours(p)) \in hours(p) /\ hours(p) \subseteq Nat /\ \A y \in hours(p) : Max(hours(p)) >= y
  <2>1. hours(p) # {} /\ hours(p) \subseteq Nat
    BY <1>2
  <2>2. IsFiniteSet(hours(p))
    <3> DEFINE J == {j \in DOMAIN rs : rs[j].who = p}
    <3>1. IsFiniteSet(J)
      <4>1. IsFiniteSet(DOMAIN rs)
        BY <1>2, FS_Interval
      <4> QED
        BY <4>1, FS_Subset
    <3>2. hours(p) = {rs[i].at : i \in J}
      OBVIOUS
    <3> HIDE DEF J
    <3> DEFINE g == [i \in J |-> rs[i].at]
    <3>3. g \in Surjection(J, hours(p))
      BY <3>2 DEF Surjection
    <3> HIDE DEF g
    <3> QED
      BY <3>1, <3>3, FS_Surjection
  <2> QED
    BY <2>1, <2>2, MaxIs
<1> HIDE DEF hours
<1>4. ASSUME NEW r \in Range(rs), r.who # Nobody
      PROVE  r.who \in D /\ r.at \in hours(r.who)
  <2>1. PICK i \in DOMAIN rs : r = rs[i]
    BY DEF Range
  <2> QED
    BY <1>4, <2>1 DEF hours
<1> HIDE DEF D
<1>5. \A p \in D : VisitsIn(rs)[p] \in Nat
  BY <1>1, <1>3
<1>6. ASSUME NEW r \in Range(rs), r.who # Nobody
      PROVE  r.who \in D /\ r.at <= VisitsIn(rs)[r.who]
  <2>1. r.who \in D /\ r.at \in hours(r.who)
    BY <1>4, <1>6
  <2>2. Max(hours(r.who)) >= r.at /\ r.at \in Nat /\ Max(hours(r.who)) \in Nat
    BY <1>3, <2>1
  <2> QED
    BY <1>1, <2>1, <2>2
<1> QED
  BY <1>1, <1>5, <1>6

\* A row above one that is not buried is not.
LEMMA NewerUnburied ==
  ASSUME NEW T \in SUBSET LogRow, IsFiniteSet(T), OneStory(T),
         NEW r \in T, NEW q \in T, r.id < q.id, Buried(q, T)
  PROVE  Buried(r, T)
<1> DEFINE M(x) == {y \in T : Newer(y, x)}
<1>1. M(q) \subseteq M(r)
  <2> SUFFICES ASSUME NEW y \in T, Newer(y, q)
               PROVE  Newer(y, r)
    OBVIOUS
  <2>1. y.id > q.id /\ y.id \in Nat /\ q.id \in Nat /\ r.id \in Nat
    BY NewerIs, RowIs
  <2> QED
    BY <2>1, NewerIs
<1>2. IsFiniteSet(M(r)) /\ IsFiniteSet(M(q))
  BY FS_Subset
<1>3. Cardinality(M(q)) <= Cardinality(M(r)) /\ Cardinality(M(q)) \in Nat /\ Cardinality(M(r)) \in Nat
  BY <1>1, <1>2, FS_Subset, FS_CardinalityType
<1> QED
  BY <1>3, BoundsAre DEF Buried

\* A table the log may come up on.
FitTable(T, h) ==
  /\ T \in SUBSET LogRow /\ IsFiniteSet(T) /\ OneStory(T) /\ Apart(T, T)
  /\ \A r \in T : r.at <= h

LEMMA LoadedIs ==
  ASSUME NEW T
  PROVE  LET l == Loaded(T) IN
         /\ l = [rows |-> l.rows, nextId |-> l.nextId, visits |-> l.visits, unwritten |-> l.unwritten,
                 prunedTo |-> l.prunedTo, timer |-> l.timer, queued |-> l.queued]
         /\ l.rows = Bounded(InTurn(Pruned(T, 0)), now - MaxAge)
         /\ l.nextId = Max({r.id : r \in Pruned(T, 0)} \cup {0}) + 1
         /\ l.visits = VisitsIn(l.rows) /\ l.unwritten = <<>> /\ l.prunedTo = now - MaxAge
<1> DEFINE rs == Bounded(InTurn(Pruned(T, 0)), now - MaxAge)
           n == Max({r.id : r \in Pruned(T, 0)} \cup {0}) + 1
           v == VisitsIn(rs)
<1>1. Loaded(T) = [rows |-> rs, nextId |-> n, visits |-> v, unwritten |-> <<>>,
                   prunedTo |-> now - MaxAge, timer |-> FALSE, queued |-> FALSE]
  BY DEF Loaded
<1> HIDE DEF rs, n, v
<1> QED
  BY <1>1 DEF rs, n, v

LEMMA NoRows == <<>> \in Seq(LogRow) /\ Range(<<>>) = {} /\ Ids(<<>>) = {} /\ Climbs(<<>>)
  BY DEF Range, Ids, Climbs

LEMMA LoadedStands ==
  ASSUME NEW T, now \in Nat, FitTable(T, now)
  PROVE  LogStands(Loaded(T), NotWriting, T, {}, now)
<1> DEFINE l == Loaded(T)
           P == Pruned(T, 0)
           c == now - MaxAge
           f == NotWriting
<1>1. /\ l = [rows |-> l.rows, nextId |-> l.nextId, visits |-> l.visits, unwritten |-> l.unwritten,
              prunedTo |-> l.prunedTo, timer |-> l.timer, queued |-> l.queued]
      /\ l.rows = Bounded(InTurn(P), c)
      /\ l.nextId = Max({r.id : r \in P} \cup {0}) + 1
      /\ l.visits = VisitsIn(l.rows) /\ l.unwritten = <<>> /\ l.prunedTo = c
  BY LoadedIs
<1> HIDE DEF l
<1>2. /\ f = [on |-> f.on, batch |-> f.batch, cutoff |-> f.cutoff]
      /\ f.batch = <<>> /\ f.cutoff = 0
  BY DEF NotWriting
<1> HIDE DEF f
<1>3. /\ T \in SUBSET LogRow /\ IsFiniteSet(T) /\ OneStory(T) /\ Apart(T, T)
      /\ \A r \in T : r.id \in Nat /\ r.at \in Nat /\ r.at <= now
  BY RowIs DEF FitTable
<1>4. now \in Nat /\ c \in Int /\ c <= now /\ MaxAge \in Nat
  BY BoundsAre
<1>5. /\ P \subseteq T /\ IsFiniteSet(P)
      /\ \A r \in P : ~Buried(r, T)
      /\ \A r \in T : r \notin P => Buried(r, T)
  <2>1. /\ P \subseteq T /\ IsFiniteSet(P)
        /\ \A r \in P : r.at >= 0 /\ ~Buried(r, T)
        /\ \A r \in T : r \notin P => r.at < 0 \/ Buried(r, T)
    BY <1>3, PrunedIs
  <2> QED
    BY <1>3, <2>1
<1> HIDE DEF P
<1>6. P \in SUBSET LogRow /\ OneStory(P)
  BY <1>3, <1>5 DEF OneStory
<1>7. InTurn(P) \in Seq(LogRow) /\ Range(InTurn(P)) = P /\ Climbs(InTurn(P))
  BY <1>5, <1>6, InTurnIs
<1>8. /\ l.rows \in Seq(LogRow) /\ Len(l.rows) <= MaxRows /\ Climbs(l.rows)
      /\ Range(l.rows) \subseteq P
      /\ \A r \in Range(l.rows) : r.at >= c
      /\ \A r \in Range(l.rows) : \A q \in P : r.id < q.id => q \in Range(l.rows)
      /\ \A r \in P : r \notin Range(l.rows) => r.at < c \/ Buried(r, P)
  BY <1>1, <1>4, <1>6, <1>7, BoundedRows
<1>9. Rows(l, f, T) = T
  BY <1>1, <1>2, <1>5, <1>8, NoRows DEF Rows
<1>10. l.nextId \in Nat /\ \A r \in T : r.id < l.nextId
  <2> DEFINE ids(S) == {r.id : r \in S} \cup {0}
  <2>1. \A S \in SUBSET T : IsFiniteSet(S) =>
          Max(ids(S)) \in ids(S) /\ Max(ids(S)) \in Nat /\ \A y \in ids(S) : Max(ids(S)) >= y
    <3> SUFFICES ASSUME NEW S \in SUBSET T, IsFiniteSet(S)
                 PROVE  Max(ids(S)) \in ids(S) /\ Max(ids(S)) \in Nat /\ \A y \in ids(S) : Max(ids(S)) >= y
      OBVIOUS
    <3>1. ids(S) \subseteq Nat /\ ids(S) # {}
      BY <1>3
    <3>2. [r \in S |-> r.id] \in Surjection(S, {r.id : r \in S})
      BY DEF Surjection
    <3>3. IsFiniteSet({r.id : r \in S})
      BY <3>2, FS_Surjection
    <3>4. IsFiniteSet(ids(S))
      BY <3>3, FS_AddElement
    <3> HIDE DEF ids
    <3>5. Max(ids(S)) \in ids(S) /\ \A y \in ids(S) : Max(ids(S)) >= y
      BY <3>1, <3>4, MaxIs
    <3> QED
      BY <3>1, <3>5
  <2>2. /\ \A S \in SUBSET T : \A r \in S : r.id \in ids(S)
        /\ \A S \in SUBSET T : \A x \in ids(S) : x = 0 \/ \E r \in S : x = r.id
    OBVIOUS
  <2> HIDE DEF ids
  <2>3. Max(ids(P)) \in Nat /\ \A r \in P : Max(ids(P)) >= r.id
    BY <1>5, <2>1, <2>2
  <2>4. Max(ids(T)) \in ids(T) /\ \A r \in T : Max(ids(T)) >= r.id
    BY <1>3, <2>1, <2>2
  <2>5. \A r \in T : r.id <= Max(ids(P))
    <3>1. CASE \E m \in T : m.id = Max(ids(T))
      <4>1. PICK m \in T : m.id = Max(ids(T))
        BY <3>1
      <4>2. {q \in T : Newer(q, m)} = {}
        <5>1. \A q \in T : q.id <= m.id
          BY <1>3, <2>4, <4>1
        <5>2. \A q \in T : ~Newer(q, m)
          BY <1>3, <4>1, <5>1, NewerIs
        <5> QED
          BY <5>2
      <4>3. ~Buried(m, T)
        BY <4>2, BoundsAre, FS_EmptySet DEF Buried
      <4>4. m \in P
        BY <1>5, <4>3
      <4> QED
        BY <1>3, <2>3, <2>4, <4>1, <4>4
    <3>2. CASE ~\E m \in T : m.id = Max(ids(T))
      <4>1. Max(ids(T)) = 0
        BY <2>2, <2>4, <3>2
      <4> QED
        BY <1>3, <2>3, <2>4, <4>1
    <3> QED
      BY <3>1, <3>2
  <2>6. l.nextId = Max(ids(P)) + 1
    BY <1>1 DEF ids
  <2> QED
    BY <1>3, <2>3, <2>5, <2>6
<1>11. LogTyped(l, f, T)
  <2>1. \A p \in DOMAIN l.visits : l.visits[p] \in Nat
    BY <1>1, <1>8, VisitsAre
  <2> QED
    BY <1>1, <1>2, <1>3, <1>4, <1>8, <1>10, <2>1, NoRows DEF LogTyped
<1>12. InLine(l, f, T)
  BY <1>1, <1>2, <1>8, NoRows DEF InLine
<1>13. RingIs(l, f, T)
  <2> SUFFICES ASSUME NEW r \in Range(l.rows)
               PROVE  /\ r.at >= l.prunedTo /\ r.at >= f.cutoff
                      /\ \A q \in T : (r.id < q.id => q \in Range(l.rows)) /\ q.at - r.at <= MaxAge
    BY <1>8, <1>9 DEF RingIs
  <2>1. r \in P /\ r \in T /\ r.at >= c
    BY <1>5, <1>8
  <2>2. ASSUME NEW q \in T, r.id < q.id
        PROVE  q \in Range(l.rows)
    <3>1. q \in P
      BY <1>3, <1>5, <2>1, <2>2, NewerUnburied
    <3> QED
      BY <1>8, <2>2, <3>1
  <2>3. ASSUME NEW q \in T
        PROVE  q.at - r.at <= MaxAge
    <3>1. q.at \in Nat /\ r.at \in Nat /\ q.at <= now /\ r.at >= now - MaxAge
      BY <1>3, <2>1
    <3> QED
      BY <1>4, <3>1
  <2> QED
    BY <1>1, <1>2, <1>3, <2>1, <2>2, <2>3
<1>14. Reached(l, f, T, {})
  BY <1>5, <1>8 DEF Reached
<1>15. Past(l, f, T, now)
  BY <1>1, <1>2, <1>3, <1>4, <1>9, <1>10 DEF Past
<1>16. Visited(l, T, T, now)
  <2> SUFFICES ASSUME NEW r \in T, r.who # Nobody
               PROVE  \/ r.who \in DOMAIN l.visits /\ r.at <= l.visits[r.who]
                      \/ now - r.at > MaxAge
                      \/ Buried(r, T)
    BY DEF Visited
  <2>1. CASE r \in Range(l.rows)
    BY <1>1, <1>8, <2>1, VisitsAre
  <2>2. CASE r \in P /\ r.at < c
    BY <1>3, <1>4, <2>2
  <2>3. CASE r \in P /\ Buried(r, P)
    BY <1>3, <1>5, <2>3, BuriedGrows
  <2>4. CASE r \notin P
    BY <1>5, <2>4
  <2> QED
    BY <1>8, <2>1, <2>2, <2>3, <2>4
<1> QED
  BY <1>3, <1>9, <1>11, <1>12, <1>13, <1>14, <1>15, <1>16 DEF LogStands, l, f

\* What a step has to leave of the log.
LogNext ==
  /\ LogStands(log', flush', logTable', refused', now')
  /\ log'.unwritten # <<>> => log'.timer = TRUE \/ flush'.on = TRUE

LEMMA NextIs == LogNext => LogInv'
  BY DEF LogNext, LogInv

LEMMA LogIdle ==
  ASSUME LogInv, NoRow, now' = now  PROVE LogNext
BY DEF LogInv, LogNext, NoRow, logVars

LEMMA NobodyVisits ==
  ASSUME NEW l, NEW f, NEW T  PROVE Nobody \in Whos /\ NewVisit(l, f, T, now, Nobody)
BY DEF Whos, NewVisit

LEMMA RowKeeps ==
  ASSUME LogInv, Row, now' = now  PROVE LogNext
<1>1. log' = Pushed(log, Nobody) /\ flush' = flush /\ logTable' = logTable /\ refused' = refused
  BY DEF Row, Recorded
<1>2. LogStands(log, flush, logTable, refused, now)
  BY DEF LogInv
<1>3. LogStands(Pushed(log, Nobody), flush, logTable, refused, now) /\ Pushed(log, Nobody).timer = TRUE
  BY <1>2, NobodyVisits, PushedStands
<1> QED
  BY <1>1, <1>3 DEF LogNext

LEMMA HelloKeeps ==
  ASSUME LogInv, NEW t \in Tokens, Hello(Holder[t]), now' = now  PROVE LogNext
<1>1. /\ log' = SignInRecorded(log, Holder[t])
      /\ flush' = flush /\ logTable' = logTable /\ refused' = refused
  BY DEF Hello
<1>2. Holder[t] \in Whos
  BY DEF Whos
<1>3. LogStands(log, flush, logTable, refused, now)
  BY DEF LogInv
<1>4. /\ LogStands(log', flush, logTable, refused, now)
      /\ log' = log \/ log'.timer = TRUE
  BY <1>1, <1>2, <1>3, SignInStands
<1> QED
  BY <1>1, <1>4 DEF LogNext, LogInv

LEMMA HourKeeps ==
  ASSUME LogInv, NoRow, now' = now + 1  PROVE LogNext
<1> DEFINE A == Rows(log, flush, logTable)
           h == now + 1
<1>1. UNCHANGED <<log, flush, logTable, refused>>
  BY DEF NoRow, logVars
<1>2. LogStands(log, flush, logTable, refused, now)
  BY DEF LogInv
<1>3. /\ now \in Nat /\ log.prunedTo \in Int /\ flush.cutoff \in Int
      /\ \A r \in A : r.at \in Nat
      /\ MaxAge \in Nat
  BY <1>2, RowsTyped, RowIs, BoundsAre DEF LogStands, LogTyped, Past
<1>4. Past(log, flush, logTable, h)
  BY <1>2, <1>3 DEF LogStands, Past
<1>5. Visited(log, A, logTable, h)
  <2>1. \A r \in A : now - r.at > MaxAge => h - r.at > MaxAge
    BY <1>3
  <2>2. Visited(log, A, logTable, now)
    BY <1>2 DEF LogStands
  <2> HIDE DEF A, h
  <2> QED
    BY <2>1, <2>2 DEF Visited
<1>6. LogStands(log, flush, logTable, refused, h)
  BY <1>2, <1>4, <1>5 DEF LogStands
<1> QED
  BY <1>1, <1>6 DEF LogInv, LogNext

-----------------------------------------------------------------------------
(* The write.                                                              *)

\* No write is under way: the rows that wait are its batch.
LEMMA FlushStands ==
  ASSUME NEW l, NEW f, NEW T, NEW ref, NEW h, LogStands(l, f, T, ref, h), f.batch = <<>>,
         NEW k, k = [l EXCEPT !.timer = FALSE, !.unwritten = <<>>, !.prunedTo = 0],
         NEW g, g = [on |-> TRUE, batch |-> l.unwritten, cutoff |-> l.prunedTo]
  PROVE  LogStands(k, g, T, ref, h) /\ k.unwritten = <<>>
<1>1. k = [rows |-> l.rows, nextId |-> l.nextId, visits |-> l.visits, unwritten |-> <<>>,
           prunedTo |-> 0, timer |-> FALSE, queued |-> l.queued]
  BY DEF LogStands, LogTyped
<1>2. /\ k.rows = l.rows /\ k.nextId = l.nextId /\ k.visits = l.visits
      /\ k.unwritten = <<>> /\ k.prunedTo = 0 /\ k.timer = FALSE /\ k.queued = l.queued
  BY <1>1
<1>3. g.on = TRUE /\ g.batch = l.unwritten /\ g.cutoff = l.prunedTo
  OBVIOUS
<1>4. Rows(k, g, T) = Rows(l, f, T)
  BY <1>2, <1>3, NoRows DEF Rows
<1>5. LogTyped(k, g, T)
  <2>1. /\ k = [rows |-> k.rows, nextId |-> k.nextId, visits |-> k.visits, unwritten |-> k.unwritten,
                prunedTo |-> k.prunedTo, timer |-> k.timer, queued |-> k.queued]
        /\ g = [on |-> g.on, batch |-> g.batch, cutoff |-> g.cutoff]
    BY <1>1, <1>2, <1>3
  <2>2. LogTyped(l, f, T)
    BY DEF LogStands
  <2>3. k.rows \in Seq(LogRow) /\ k.unwritten \in Seq(LogRow) /\ g.batch \in Seq(LogRow)
    BY <1>2, <1>3, <2>2, NoRows DEF LogTyped
  <2>4. /\ T \in SUBSET LogRow /\ IsFiniteSet(T)
        /\ k.nextId \in Nat /\ k.prunedTo \in Int /\ g.cutoff \in Int
        /\ \A p \in DOMAIN k.visits : k.visits[p] \in Nat
    BY <1>2, <1>3, <2>2 DEF LogTyped
  <2> QED
    BY <1>3, <2>1, <2>3, <2>4 DEF LogTyped
<1>6. InLine(k, g, T)
  BY <1>2, <1>3, NoRows DEF LogStands, InLine
<1>7. \A r \in Range(l.rows) : r.at \in Nat
  <2>1. Rows(l, f, T) \in SUBSET LogRow
    BY RowsTyped DEF LogStands
  <2>2. \A r \in Range(l.rows) : r \in LogRow
    BY <2>1 DEF Rows
  <2> QED
    BY <2>2, RowIs
<1>8. RingIs(k, g, T)
  BY <1>2, <1>3, <1>4, <1>7 DEF LogStands, RingIs
<1>9. Reached(k, g, T, ref)
  BY <1>2, <1>3, NoRows DEF LogStands, Reached
<1>10. Past(k, g, T, h)
  BY <1>2, <1>3, <1>4 DEF LogStands, Past
<1>11. Visited(k, Rows(l, f, T), T, h)
  BY <1>2 DEF LogStands, Visited
<1> HIDE DEF LogTyped
<1> QED
  BY <1>2, <1>4, <1>5, <1>6, <1>8, <1>9, <1>10, <1>11 DEF LogStands

LEMMA TimerKeeps ==
  ASSUME LogInv, TimerFires  PROVE LogNext
<1>1. LogStands(log, flush, logTable, refused, now)
  BY DEF LogInv
<1>2. now' = now /\ logTable' = logTable /\ refused' = refused
  BY DEF TimerFires
<1>3. CASE flush.on
  <2>1. log' = [log EXCEPT !.timer = FALSE, !.queued = TRUE] /\ flush' = flush
    BY <1>3 DEF TimerFires
  <2>2. LogStands(log', flush, logTable, refused, now)
    BY <1>1, <2>1, SameLog
  <2> QED
    BY <1>2, <1>3, <2>1, <2>2 DEF LogNext
<1>4. CASE ~flush.on
  <2>1. /\ log' = [log EXCEPT !.timer = FALSE, !.unwritten = <<>>, !.prunedTo = 0]
        /\ flush' = [on |-> TRUE, batch |-> log.unwritten, cutoff |-> log.prunedTo]
    BY <1>4 DEF TimerFires
  <2>2. flush.batch = <<>>
    BY <1>1, <1>4 DEF LogStands, LogTyped
  <2>3. LogStands(log', flush', logTable, refused, now) /\ log'.unwritten = <<>>
    BY <1>1, <2>1, <2>2, FlushStands
  <2> QED
    BY <1>2, <2>3 DEF LogNext
<1> QED
  BY <1>3, <1>4

\* What the table does not have is only added to it.
LEMMA InsertedIs ==
  ASSUME NEW T, NEW R, \A r \in R : \A q \in T : r.id # q.id
  PROVE  Inserted(T, R) = T \cup R
BY DEF Inserted

LEMMA LandedStands ==
  ASSUME NEW l, NEW f, NEW T, NEW ref, NEW h, LogStands(l, f, T, ref, h), f.batch # <<>>,
         NEW g, g = [f EXCEPT !.batch = Tail(@)]
  PROVE  LogStands(l, g, Inserted(T, {Head(f.batch)}), ref, h) /\ g.on = TRUE
<1> DEFINE row == Head(f.batch)
           U == Inserted(T, {row})
           A == Rows(l, f, T)
<1>1. /\ LogTyped(l, f, T) /\ OneStory(A) /\ InLine(l, f, T) /\ RingIs(l, f, T)
      /\ Reached(l, f, T, ref) /\ Past(l, f, T, h) /\ Apart(A, T) /\ Visited(l, A, T, h)
  BY DEF LogStands
<1>2. /\ f = [on |-> f.on, batch |-> f.batch, cutoff |-> f.cutoff] /\ f.on = TRUE
      /\ f.batch \in Seq(LogRow) /\ Climbs(f.batch)
  BY <1>1 DEF LogTyped, InLine
<1>3. g = [on |-> f.on, batch |-> Tail(f.batch), cutoff |-> f.cutoff]
  BY <1>2
<1>4. g.on = f.on /\ g.batch = Tail(f.batch) /\ g.cutoff = f.cutoff
  BY <1>3
<1>5. /\ row \in LogRow /\ g.batch \in Seq(LogRow)
      /\ Range(f.batch) = {row} \cup Range(g.batch)
      /\ Ids(f.batch) = {row.id} \cup Ids(g.batch)
      /\ Climbs(g.batch) /\ \A q \in Range(g.batch) : row.id < q.id
  BY <1>2, <1>4, HeadTailIs
<1> HIDE DEF row
<1>6. A \in SUBSET LogRow /\ \A r \in A : r.id \in Nat
  BY <1>1, RowsTyped, RowIs
<1>7. U = T \cup {row}
  <2>1. \A q \in T : q.id < row.id /\ q.id \in Nat /\ row.id \in Nat
    BY <1>1, <1>5, RowIs DEF InLine, LogTyped
  <2>2. \A r \in {row} : \A q \in T : r.id # q.id
    BY <2>1
  <2> QED
    BY <2>2, InsertedIs
<1> HIDE DEF U
<1>8. T \in SUBSET LogRow /\ IsFiniteSet(T) /\ U \in SUBSET LogRow /\ IsFiniteSet(U)
  BY <1>1, <1>5, <1>7, FS_AddElement DEF LogTyped
<1>9. Rows(l, g, U) = A
  BY <1>5, <1>7 DEF Rows
<1>10. \A r \in A : Buried(r, T) => Buried(r, U)
  BY <1>7, <1>8, BuriedGrows
<1>11. LogTyped(l, g, U)
  BY <1>1, <1>2, <1>3, <1>4, <1>5, <1>8 DEF LogTyped
<1>12. InLine(l, g, U)
  BY <1>1, <1>5, <1>7 DEF InLine
<1>13. RingIs(l, g, U)
  BY <1>1, <1>4, <1>9 DEF RingIs
<1>14. Reached(l, g, U, ref)
  <2> SUFFICES ASSUME NEW r \in Range(l.rows), r.id = row.id
               PROVE  r = row
    BY <1>1, <1>5, <1>7 DEF Reached
  <2> QED
    BY <1>1, <1>5 DEF OneStory, Rows
<1>15. Past(l, g, U, h)
  BY <1>1, <1>4, <1>9 DEF Past
<1>16. Apart(A, U) /\ Visited(l, A, U, h)
  BY <1>1, <1>10 DEF Apart, Visited
<1> QED
  BY <1>1, <1>2, <1>4, <1>9, <1>11, <1>12, <1>13, <1>14, <1>15, <1>16 DEF LogStands, U, row

LEMMA LandsInTable ==
  ASSUME LogInv, RowLands  PROVE LogNext
<1>1. /\ flush.batch # <<>> /\ logTable' = Inserted(logTable, {Head(flush.batch)})
      /\ flush' = [flush EXCEPT !.batch = Tail(@)]
      /\ now' = now /\ log' = log /\ refused' = refused
  BY DEF RowLands
<1>2. LogStands(log, flush, logTable, refused, now)
  BY DEF LogInv
<1>3. LogStands(log, flush', logTable', refused, now) /\ flush'.on = TRUE
  BY <1>1, <1>2, LandedStands
<1> QED
  BY <1>1, <1>3 DEF LogNext

\* The end of a write, whatever it has left.
LEMMA OverStands ==
  ASSUME NEW l, NEW f, NEW T, NEW ref, NEW h, LogStands(l, f, T, ref, h)
  PROVE  /\ LogStands(WriteOver(l), f, T, ref, h)
         /\ WriteOver(l).unwritten # <<>> => WriteOver(l).timer = TRUE
<1> DEFINE t == l.timer \/ l.queued \/ l.unwritten # <<>> \/ l.prunedTo > 0
           k == WriteOver(l)
<1>1. k = [l EXCEPT !.queued = FALSE, !.timer = t]
  BY DEF WriteOver
<1>2. l = [rows |-> l.rows, nextId |-> l.nextId, visits |-> l.visits, unwritten |-> l.unwritten,
           prunedTo |-> l.prunedTo, timer |-> l.timer, queued |-> l.queued]
  BY DEF LogStands, LogTyped
<1>3. (l.unwritten # <<>>) => t = TRUE
  OBVIOUS
<1> HIDE DEF k, t
<1>4. k = [l EXCEPT !.timer = t, !.queued = FALSE]
  BY <1>1, <1>2
<1>5. k.unwritten = l.unwritten /\ k.timer = t
  BY <1>1, <1>2
<1>6. LogStands(k, f, T, ref, h)
  BY <1>4, SameLog
<1> QED
  BY <1>3, <1>5, <1>6 DEF k

\* What the queries of the bounds may leave of a table, done or cut short.
Trimmed(U, T, c) ==
  U = T \/ (Pruned(T, c) \subseteq U /\ U \subseteq {r \in T : r.at >= c})

\* What has enough above it has so in what is left: of those above it the
\* newest are.
LEMMA TrimmedIs ==
  ASSUME NEW T \in SUBSET LogRow, IsFiniteSet(T), OneStory(T), NEW c \in Int,
         NEW U, Trimmed(U, T, c)
  PROVE  /\ U \subseteq T /\ IsFiniteSet(U)
         /\ \A r \in U : Buried(r, T) => Buried(r, U)
         /\ \A r \in T : r \notin U => r.at < c \/ Buried(r, T)
<1> DEFINE P == Pruned(T, c)
<1>1. /\ P \subseteq T /\ \A r \in P : r.at >= c
      /\ \A r \in T : r \notin P => r.at < c \/ Buried(r, T)
  BY PrunedIs
<1>2. U = T \/ (P \subseteq U /\ U \subseteq {r \in T : r.at >= c})
  BY DEF Trimmed
<1> HIDE DEF P
<1>3. U \subseteq T /\ \A r \in T : r \notin U => r.at < c \/ Buried(r, T)
  BY <1>1, <1>2
<1>4. IsFiniteSet(U)
  BY <1>3, FS_Subset
<1>5. ASSUME NEW r \in U, Buried(r, T), U # T
      PROVE  Buried(r, U)
  <2> DEFINE M == {q \in T : Newer(q, r)}
             D == [q \in M |-> {j \in M : j.id >= q.id}]
  <2>1. /\ M \subseteq T /\ IsFiniteSet(M) /\ Cardinality(M) \in Nat
        /\ Cardinality(M) >= MaxRows
        /\ \A q \in M : Newer(q, r)
    BY <1>5, FS_Subset, FS_CardinalityType DEF Buried
  <2>2. \A q \in M : D[q] = {j \in M : j.id >= q.id}
    OBVIOUS
  <2>3. D \in [M -> SUBSET M]
    OBVIOUS
  <2> HIDE DEF D, M
  <2>4. \A q \in M : q \in T /\ q.id \in Nat
    BY <2>1, RowIs
  <2>5. \A q, j \in M : q.id = j.id => q = j
    BY <2>1 DEF OneStory
  <2>6. \A q \in M : q \in D[q]
    BY <2>2, <2>4
  <2>7. \A q, j \in M : q # j => \/ D[q] \subseteq D[j] /\ j \notin D[q]
                                 \/ D[j] \subseteq D[q] /\ q \notin D[j]
    <3> SUFFICES ASSUME NEW q \in M, NEW j \in M, q # j
                 PROVE  \/ D[q] \subseteq D[j] /\ j \notin D[q]
                        \/ D[j] \subseteq D[q] /\ q \notin D[j]
      OBVIOUS
    <3>1. q.id < j.id \/ j.id < q.id
      BY <2>4, <2>5
    <3> QED
      BY <2>2, <2>4, <3>1
  <2>8. \A k \in 1..Cardinality(M) : \E q \in M : Cardinality(D[q]) = k
    BY <2>1, <2>3, <2>6, <2>7, Numbers
  <2>9. PICK m \in M : Cardinality(D[m]) = MaxRows
    BY <2>1, <2>8, BoundsAre
  <2>10. IsFiniteSet(D[m]) /\ D[m] \subseteq M
    BY <2>1, <2>2, FS_Subset
  <2>11. \A j \in D[m] : j \in P
    <3> SUFFICES ASSUME NEW j \in D[m]
                 PROVE  j \in P
      OBVIOUS
    <3>1. j \in M /\ j \in T /\ j.id >= m.id /\ j.id \in Nat /\ m.id \in Nat
      BY <2>2, <2>4
    <3>2. {q \in T : Newer(q, j)} \subseteq D[m] \ {j}
      <4> SUFFICES ASSUME NEW q \in T, Newer(q, j)
                   PROVE  q \in D[m] /\ q # j
        OBVIOUS
      <4>1. r \in T /\ q.id \in Nat /\ r.id \in Nat
        BY <1>3, RowIs
      <4>2. q.id > j.id
        BY <3>1, NewerIs
      <4>3. j.id > r.id
        BY <2>1, <3>1, <4>1, NewerIs
      <4>4. Newer(q, r)
        BY <3>1, <4>1, <4>2, <4>3, NewerIs
      <4>5. q \in M
        BY <4>4 DEF M
      <4> QED
        BY <2>2, <3>1, <4>1, <4>2, <4>5
    <3>3. IsFiniteSet(D[m] \ {j}) /\ Cardinality(D[m] \ {j}) = MaxRows - 1
      BY <2>9, <2>10, FS_RemoveElement
    <3>4. /\ Cardinality({q \in T : Newer(q, j)}) <= MaxRows - 1
          /\ Cardinality({q \in T : Newer(q, j)}) \in Nat
      BY <3>2, <3>3, FS_Subset, FS_CardinalityType
    <3>5. ~Buried(j, T)
      BY <3>4, BoundsAre DEF Buried
    <3>6. j.at >= c
      <4>1. Newer(j, r) /\ j.at \in Nat /\ r.at \in Nat /\ r.at >= c
        BY <1>2, <1>3, <1>5, <2>1, <3>1, RowIs
      <4>2. j.at >= r.at
        BY <4>1 DEF Newer
      <4> QED
        BY <4>1, <4>2
    <3>7. j.at \in Nat
      BY <3>1, RowIs
    <3> QED
      BY <1>1, <3>1, <3>5, <3>6, <3>7
  <2>12. D[m] \subseteq {q \in U : Newer(q, r)}
    BY <1>2, <1>5, <2>1, <2>10, <2>11
  <2>13. IsFiniteSet({q \in U : Newer(q, r)})
    BY <1>4, FS_Subset
  <2>14. MaxRows <= Cardinality({q \in U : Newer(q, r)})
    BY <2>9, <2>12, <2>13, FS_Subset
  <2>15. Cardinality({q \in U : Newer(q, r)}) \in Nat
    BY <2>13, FS_CardinalityType
  <2> QED
    BY <2>14, <2>15, BoundsAre DEF Buried
<1> QED
  BY <1>3, <1>4, <1>5

LEMMA InPartIs ==
  ASSUME NEW T \in SUBSET LogRow, IsFiniteSet(T), OneStory(T), NEW c \in Int,
         NEW U \in PrunedInPart(T, c) \cup {Pruned(T, c)}
  PROVE  Trimmed(U, T, c)
<1> DEFINE P == Pruned(T, c)
           Y == {r \in T : r.at >= c}
           over == Y \ P
           from(q) == {r \in Y : r \in over => Newer(q, r)}
<1>1. P \subseteq Y
  BY PrunedIs
<1>2. U = P \/ U = T \/ U = Y \/ \E q \in over : U = from(q)
  BY DEF PrunedInPart
<1>3. \A q : P \subseteq from(q) /\ from(q) \subseteq Y
  BY <1>1
<1> HIDE DEF from
<1>4. U = T \/ (P \subseteq U /\ U \subseteq Y)
  <2> HIDE DEF P, Y, over
  <2> QED
    BY <1>1, <1>2, <1>3
<1> QED
  BY <1>4 DEF Trimmed

LEMMA TrimmedStands ==
  ASSUME NEW l, NEW f, NEW T, NEW ref, NEW h, LogStands(l, f, T, ref, h), f.batch = <<>>,
         NEW U, Trimmed(U, T, f.cutoff)
  PROVE  LogStands(l, NotWriting, U, ref, h)
<1> DEFINE g == NotWriting
           A == Rows(l, f, T)
           B == Rows(l, g, U)
<1>1. /\ LogTyped(l, f, T) /\ OneStory(A) /\ InLine(l, f, T) /\ RingIs(l, f, T)
      /\ Reached(l, f, T, ref) /\ Past(l, f, T, h) /\ Apart(A, T) /\ Visited(l, A, T, h)
  BY DEF LogStands
<1>2. g = [on |-> g.on, batch |-> g.batch, cutoff |-> g.cutoff] /\ g.batch = <<>> /\ g.cutoff = 0
  BY DEF NotWriting
<1> HIDE DEF g
<1>3. A \in SUBSET LogRow /\ \A r \in A : r.id \in Nat /\ r.at \in Nat
  BY <1>1, RowsTyped, RowIs
<1>4. T \in SUBSET LogRow /\ IsFiniteSet(T) /\ f.cutoff \in Int
  BY <1>1 DEF LogTyped
<1>5. OneStory(T)
  BY <1>1 DEF OneStory, Rows
<1>6. /\ U \subseteq T /\ IsFiniteSet(U)
      /\ \A r \in U : Buried(r, T) => Buried(r, U)
      /\ \A r \in T : r \notin U => r.at < f.cutoff \/ Buried(r, T)
  BY <1>4, <1>5, TrimmedIs
<1>7. B \subseteq A
  BY <1>2, <1>6, NoRows DEF Rows
<1>8. /\ \A r \in Range(l.rows) : ~Buried(r, T)
      /\ \A r \in B : Buried(r, T) => Buried(r, U)
  <2>1. \A r \in Range(l.rows) \cup Range(l.unwritten) \cup Range(f.batch) : ~Buried(r, T)
    BY <1>1, NotBuried
  <2> QED
    BY <1>2, <1>6, <2>1, NoRows DEF Rows
<1>9. \A r \in Range(l.rows) : r \in A /\ r \in B
  BY DEF Rows
<1>10. LogTyped(l, g, U)
  BY <1>1, <1>2, <1>4, <1>6, NoRows DEF LogTyped
<1>11. InLine(l, g, U)
  BY <1>1, <1>2, <1>6, NoRows DEF InLine
<1> HIDE DEF A, B
<1>12. OneStory(B)
  BY <1>1, <1>7 DEF OneStory
<1>13. RingIs(l, g, U)
  BY <1>1, <1>2, <1>3, <1>7, <1>9 DEF RingIs, A, B
<1>14. Reached(l, g, U, ref)
  <2> SUFFICES ASSUME NEW r \in Range(l.rows)
               PROVE  r \in U \/ r.id \in ref \cup Ids(l.unwritten) \cup Ids(g.batch)
    BY DEF Reached
  <2>1. r \in T => r \in U
    <3>1. r.at >= f.cutoff /\ r.at \in Nat
      BY <1>1, <1>3, <1>9 DEF RingIs
    <3>2. ~Buried(r, T)
      BY <1>8, <1>9
    <3> QED
      BY <1>4, <1>6, <3>1, <3>2
  <2>2. r \in T \/ r.id \in ref \cup Ids(l.unwritten) \cup Ids(f.batch)
    BY <1>1 DEF Reached
  <2>3. Ids(f.batch) = {}
    BY NoRows
  <2> QED
    BY <2>1, <2>2, <2>3
<1>15. Past(l, g, U, h)
  BY <1>1, <1>2, <1>7 DEF Past, A, B
<1>16. Apart(B, U)
  BY <1>1, <1>7, <1>8 DEF Apart
<1>17. Visited(l, B, U, h)
  BY <1>1, <1>7, <1>8 DEF Visited
<1> QED
  BY <1>10, <1>11, <1>12, <1>13, <1>14, <1>15, <1>16, <1>17 DEF LogStands, B, g

\* The bounds are in the table, or in it in part.
LEMMA BoundsStand ==
  ASSUME NEW l, NEW f, NEW T, NEW ref, NEW h, LogStands(l, f, T, ref, h), f.batch = <<>>,
         NEW U \in PrunedInPart(T, f.cutoff) \cup {Pruned(T, f.cutoff)}
  PROVE  LogStands(l, NotWriting, U, ref, h)
<1>1. T \in SUBSET LogRow /\ IsFiniteSet(T) /\ f.cutoff \in Int
  BY DEF LogStands, LogTyped
<1>2. OneStory(T)
  BY DEF LogStands, OneStory, Rows
<1>3. Trimmed(U, T, f.cutoff)
  BY <1>1, <1>2, InPartIs
<1> QED
  BY <1>3, TrimmedStands

LEMMA PruningKeeps ==
  ASSUME LogInv, TablePruned  PROVE LogNext
<1>1. /\ flush.batch = <<>> /\ logTable' = Pruned(logTable, flush.cutoff)
      /\ flush' = NotWriting /\ log' = WriteOver(log)
      /\ now' = now /\ refused' = refused
  BY DEF TablePruned
<1>2. LogStands(log, flush, logTable, refused, now)
  BY DEF LogInv
<1>3. LogStands(log, flush', logTable', refused, now)
  BY <1>1, <1>2, BoundsStand
<1>4. /\ LogStands(WriteOver(log), flush', logTable', refused, now)
      /\ WriteOver(log).unwritten # <<>> => WriteOver(log).timer = TRUE
  BY <1>3, OverStands
<1> QED
  BY <1>1, <1>4 DEF LogNext

\* The rows a write had left are not written.
LEMMA DroppedStands ==
  ASSUME NEW l, NEW f, NEW T, NEW ref, NEW h, LogStands(l, f, T, ref, h)
  PROVE  LogStands(l, NotWriting, T, ref \cup Ids(f.batch), h)
<1> DEFINE g == NotWriting
           A == Rows(l, f, T)
           B == Rows(l, g, T)
<1>1. /\ LogTyped(l, f, T) /\ OneStory(A) /\ InLine(l, f, T) /\ RingIs(l, f, T)
      /\ Reached(l, f, T, ref) /\ Past(l, f, T, h) /\ Apart(A, T) /\ Visited(l, A, T, h)
  BY DEF LogStands
<1>2. g = [on |-> g.on, batch |-> g.batch, cutoff |-> g.cutoff] /\ g.batch = <<>> /\ g.cutoff = 0
  BY DEF NotWriting
<1> HIDE DEF g
<1>3. \A r \in A : r.at \in Nat
  BY <1>1, RowsTyped, RowIs
<1>4. B \subseteq A /\ Range(l.rows) \subseteq A
  BY <1>2, NoRows DEF Rows
<1>5. LogTyped(l, g, T) /\ InLine(l, g, T)
  BY <1>1, <1>2, NoRows DEF LogTyped, InLine
<1>6. Reached(l, g, T, ref \cup Ids(f.batch))
  BY <1>1 DEF Reached
<1> HIDE DEF A, B
<1>7. RingIs(l, g, T)
  BY <1>1, <1>2, <1>3, <1>4 DEF RingIs, A, B
<1>8. Past(l, g, T, h)
  BY <1>1, <1>2, <1>4 DEF Past, A, B
<1>9. OneStory(B) /\ Apart(B, T) /\ Visited(l, B, T, h)
  BY <1>1, <1>4 DEF OneStory, Apart, Visited
<1> QED
  BY <1>5, <1>6, <1>7, <1>8, <1>9 DEF LogStands, B, g

LEMMA RefusalKeeps ==
  ASSUME LogInv, LogRefused  PROVE LogNext
<1>1. /\ refused' = refused \cup Ids(flush.batch)
      /\ logTable' \in IF flush.batch # <<>> THEN {logTable} ELSE PrunedInPart(logTable, flush.cutoff)
      /\ flush' = NotWriting /\ log' = WriteOver(Pushed(log, Nobody))
      /\ now' = now
  BY DEF LogRefused, Recorded
<1>2. LogStands(log, flush, logTable, refused, now)
  BY DEF LogInv
<1>3. LogStands(log, flush', logTable', refused', now)
  <2>1. CASE flush.batch # <<>>
    BY <1>1, <1>2, <2>1, DroppedStands
  <2>2. CASE flush.batch = <<>>
    <3>1. refused' = refused
      BY <1>1, <2>2, NoRows
    <3>2. logTable' \in PrunedInPart(logTable, flush.cutoff) \cup {Pruned(logTable, flush.cutoff)}
      BY <1>1, <2>2
    <3> QED
      BY <1>1, <1>2, <2>2, <3>1, <3>2, BoundsStand
  <2> QED
    BY <2>1, <2>2
<1>4. LogStands(Pushed(log, Nobody), flush', logTable', refused', now)
  BY <1>3, NobodyVisits, PushedStands
<1>5. /\ LogStands(log', flush', logTable', refused', now)
      /\ log'.unwritten # <<>> => log'.timer = TRUE
  BY <1>1, <1>4, OverStands
<1> QED
  BY <1>1, <1>5 DEF LogNext

-----------------------------------------------------------------------------
(* A restart.                                                              *)

\* The log may come up on any part of the rows there are that hides no row.
LEMMA FitIs ==
  ASSUME NEW l, NEW f, NEW T, NEW ref, NEW h, LogStands(l, f, T, ref, h),
         NEW U, T \subseteq U, U \subseteq Rows(l, f, T), IsFiniteSet(U)
  PROVE  FitTable(U, h)
<1>1. U \in SUBSET LogRow
  BY RowsTyped DEF LogStands
<1>2. \A r \in U : Buried(r, T) => Buried(r, U)
  BY BuriedGrows
<1> QED
  BY <1>1, <1>2 DEF LogStands, FitTable, OneStory, Apart, Past

LEMMA FitPruned ==
  ASSUME NEW T, NEW h, FitTable(T, h), NEW c \in Int
  PROVE  FitTable(Pruned(T, c), h)
<1> DEFINE U == Pruned(T, c)
<1>1. T \in SUBSET LogRow /\ IsFiniteSet(T) /\ OneStory(T) /\ Apart(T, T) /\ \A r \in T : r.at <= h
  BY DEF FitTable
<1>2. U \subseteq T /\ IsFiniteSet(U) /\ \A r \in U : ~Buried(r, T)
  BY <1>1, PrunedIs
<1> HIDE DEF U
<1>3. OneStory(U) /\ Apart(U, U)
  BY <1>1, <1>2 DEF OneStory, Apart
<1> QED
  BY <1>1, <1>2, <1>3 DEF FitTable, U

LEMMA LeftFits ==
  ASSUME LogInv, NEW t \in LogLeft
  PROVE  FitTable(t, now)
<1>1. LogStands(log, flush, logTable, refused, now)
  BY DEF LogInv
<1>2. /\ LogTyped(log, flush, logTable) /\ InLine(log, flush, logTable)
      /\ logTable \in SUBSET LogRow /\ IsFiniteSet(logTable)
      /\ log.unwritten \in Seq(LogRow) /\ flush.batch \in Seq(LogRow) /\ log.prunedTo \in Int
  BY <1>1 DEF LogStands, LogTyped
<1>3. \A q \in logTable : q.id \in Nat
  BY <1>2, RowIs
<1>4. CASE t = logTable
  BY <1>1, <1>2, <1>4, FitIs DEF Rows
<1>5. CASE flush.batch # <<>> /\ t = Inserted(logTable, {Head(flush.batch)})
  <2> DEFINE row == Head(flush.batch)
  <2>1. row \in LogRow /\ row \in Range(flush.batch)
    BY <1>2, <1>5, HeadTailIs
  <2> HIDE DEF row
  <2>2. \A r \in {row} : \A q \in logTable : r.id # q.id
    BY <1>2, <1>3, <2>1, RowIs DEF InLine
  <2>3. t = logTable \cup {row}
    BY <1>5, <2>2, InsertedIs DEF row
  <2>4. IsFiniteSet(t) /\ logTable \subseteq t /\ t \subseteq Rows(log, flush, logTable)
    BY <1>2, <2>1, <2>3, FS_AddElement DEF Rows
  <2> QED
    BY <1>1, <2>4, FitIs
<1>6. CASE t = Pruned(Inserted(logTable, Range(log.unwritten)), log.prunedTo)
  <2> DEFINE R == Range(log.unwritten)
             U == Inserted(logTable, R)
  <2>1. R \subseteq LogRow /\ IsFiniteSet(R)
    BY <1>2, RangeIs, RangeFinite
  <2>2. \A r \in R : \A q \in logTable : q.id < r.id
    BY <1>2 DEF InLine
  <2> HIDE DEF R
  <2>3. \A r \in R : \A q \in logTable : r.id # q.id
    BY <1>3, <2>1, <2>2, RowIs
  <2>4. U = logTable \cup R
    BY <2>3, InsertedIs
  <2> HIDE DEF U
  <2>5. IsFiniteSet(U) /\ logTable \subseteq U /\ U \subseteq Rows(log, flush, logTable)
    BY <1>2, <2>1, <2>4, FS_Union DEF Rows, R
  <2>6. FitTable(U, now)
    BY <1>1, <2>5, FitIs
  <2>7. FitTable(Pruned(U, log.prunedTo), now)
    BY <1>2, <2>6, FitPruned
  <2> QED
    BY <1>6, <2>7 DEF U, R
<1>7. CASE /\ flush.batch = <<>>
           /\ t \in PrunedInPart(logTable, flush.cutoff) \cup {Pruned(logTable, flush.cutoff)}
  <2>1. LogStands(log, NotWriting, t, refused, now)
    BY <1>1, <1>7, BoundsStand
  <2>2. IsFiniteSet(t)
    BY <2>1 DEF LogStands, LogTyped
  <2>3. t \subseteq Rows(log, NotWriting, t)
    BY DEF Rows
  <2> QED
    BY <2>1, <2>2, <2>3, FitIs
<1>8. \/ t = logTable
      \/ flush.batch # <<>> /\ t = Inserted(logTable, {Head(flush.batch)})
      \/ /\ flush.batch = <<>>
         /\ t \in PrunedInPart(logTable, flush.cutoff) \cup {Pruned(logTable, flush.cutoff)}
      \/ t = Pruned(Inserted(logTable, Range(log.unwritten)), log.prunedTo)
  BY DEF LogLeft
<1> QED
  BY <1>4, <1>5, <1>6, <1>7, <1>8

LEMMA StartStands ==
  ASSUME NEW t, now \in Nat, FitTable(t, now)
  PROVE  /\ LogStands(Recorded(Loaded(t)), NotWriting, t, {}, now)
         /\ Recorded(Loaded(t)).timer = TRUE
<1>1. LogStands(Loaded(t), NotWriting, t, {}, now)
  BY LoadedStands
<1>2. Recorded(Loaded(t)) = Pushed(Loaded(t), Nobody)
  BY DEF Recorded
<1> QED
  BY <1>1, <1>2, NobodyVisits, PushedStands

LEMMA StartKeeps ==
  ASSUME LogInv, NEW t \in LogLeft, LogStarts(t), now' = now
  PROVE  LogNext
<1>1. /\ logTable' = t /\ log' = Recorded(Loaded(t)) /\ flush' = NotWriting /\ refused' = {}
  BY DEF LogStarts
<1>2. now \in Nat
  BY DEF LogInv, LogStands, Past
<1>3. LogStands(log', flush', logTable', refused', now) /\ log'.timer = TRUE
  BY <1>1, <1>2, LeftFits, StartStands
<1> QED
  BY <1>3 DEF LogNext

LEMMA InitLog ==
  ASSUME Init  PROVE LogInv
<1>1. /\ now = MaxAge + 1 /\ logTable = {} /\ refused = {} /\ flush = NotWriting
      /\ log = Recorded(Loaded({}))
  BY DEF Init, LogInit
<1>2. now \in Nat
  BY <1>1, BoundsAre
<1>3. FitTable({}, now)
  BY FS_EmptySet DEF FitTable, OneStory, Apart
<1>4. LogStands(log, flush, logTable, refused, now) /\ log.timer = TRUE
  BY <1>1, <1>2, <1>3, StartStands
<1> QED
  BY <1>4 DEF LogInv

LEMMA LogStep ==
  ASSUME LogInv, [Next]_vars  PROVE LogInv'
<1> SUFFICES LogNext
  BY NextIs
<1>1. CASE UNCHANGED vars
  <2>1. NoRow /\ now' = now
    BY <1>1 DEF vars, NoRow, logVars
  <2> QED
    BY <2>1, LogIdle
<1>2. ASSUME NEW a \in Admins,
             \/ \E f \in Forms : SetMail(a, f) \/ \E send \in BOOLEAN : TestMail(a, f, send)
             \/ \E good \in BOOLEAN : MailTried(a, good)
             \/ \E h \in Hosts : Pair(a, h)
             \/ Refresh(a) \/ KeyFetched(a) \/ KeyNotFetched(a)
      PROVE  LogNext
  <2>1. NoRow /\ now' = now
    BY <1>2 DEF SetMail, TestMail, MailTried, Pair, Refresh, KeyFetched, KeyNotFetched
  <2> QED
    BY <2>1, LogIdle
<1>3. CASE Unpair \/ SendLink
  <2>1. NoRow /\ now' = now
    BY <1>3 DEF Unpair, SendLink
  <2> QED
    BY <2>1, LogIdle
<1>4. CASE MakeKey \/ RevokeKey \/ (\E k \in 1..made : Call(k)) \/ \E on \in BOOLEAN : SetServer(on)
  <2>1. Row /\ now' = now
    BY <1>4 DEF MakeKey, RevokeKey, Call, SetServer
  <2> QED
    BY <2>1, RowKeeps
<1>5. ASSUME NEW t \in Tokens, SignIn(t) \/ Identify(Holder[t])
      PROVE  LogNext
  <2>1. (Row \/ Hello(Holder[t])) /\ now' = now
    BY <1>5 DEF SignIn, Identify
  <2> QED
    BY <2>1, RowKeeps, HelloKeeps
<1>6. ASSUME NEW k \in Keys, NEW w \in writes[k], Lands(k, w) \/ Refused(k, w)
      PROVE  LogNext
  <2>1. (Row \/ NoRow) /\ now' = now
    BY <1>6 DEF Lands, Refused
  <2> QED
    BY <2>1, RowKeeps, LogIdle
<1>7. CASE OfLog
  BY <1>7, TimerKeeps, LandsInTable, PruningKeeps DEF OfLog
<1>8. CASE LogRefused
  BY <1>8, RefusalKeeps
<1>9. CASE HourPasses
  BY <1>9, HourKeeps DEF HourPasses
<1>10. CASE Restart
  <2>1. PICK t \in LogLeft : LogStarts(t)
    BY <1>10 DEF Restart
  <2>2. now' = now
    BY <1>10 DEF Restart
  <2> QED
    BY <2>1, <2>2, StartKeeps
<1> QED
  BY <1>1, <1>2, <1>3, <1>4, <1>5, <1>6, <1>7, <1>8, <1>9, <1>10 DEF Next

LEMMA LogInvHolds == Spec => []LogInv
<1>1. Init => LogInv
  BY InitLog
<1>2. LogInv /\ [Next]_vars => LogInv'
  BY LogStep
<1> QED
  BY <1>1, <1>2, PTL DEF Spec

LEMMA KeptIs == LogInv => LogIsKept
<1> SUFFICES ASSUME LogInv  PROVE LogIsKept
  OBVIOUS
<1> DEFINE rs == log.rows
           A == Rows(log, flush, logTable)
<1>1. /\ LogTyped(log, flush, logTable) /\ OneStory(A) /\ InLine(log, flush, logTable)
      /\ RingIs(log, flush, logTable) /\ Reached(log, flush, logTable, refused) /\ Apart(A, logTable)
      /\ log.unwritten # <<>> => log.timer = TRUE \/ flush.on = TRUE
  BY DEF LogInv, LogStands
<1>2. \A i \in DOMAIN rs : rs[i] \in Range(rs) /\ rs[i] \in A
  BY DEF Range, Rows
<1>3. /\ A \in SUBSET LogRow /\ logTable \subseteq A
      /\ \A r \in A : r.id \in Nat /\ r.at \in Nat
  BY <1>1, RowsTyped, RowIs DEF Rows
<1>4. \A r \in Range(rs) : ~Buried(r, logTable)
  BY <1>1, NotBuried
<1>5. \A i, j \in DOMAIN rs : i < j => rs[i].id < rs[j].id
  BY <1>1 DEF InLine, Climbs
<1>6. MaxAge \in Nat /\ Gap \in Nat
  BY BoundsAre
<1> HIDE DEF A
<1>7. \A i, j \in DOMAIN rs : i < j => rs[i].id < rs[j].id /\ rs[i].at <= rs[j].at
  BY <1>1, <1>2, <1>5 DEF OneStory
<1>8. Len(rs) <= MaxRows
  BY <1>1 DEF RingIs
<1>9. \A i \in DOMAIN rs : \A q \in logTable : q.id = rs[i].id => q = rs[i]
  BY <1>1, <1>2, <1>3 DEF OneStory
<1>10. \A i \in DOMAIN rs :
         \/ rs[i] \in logTable
         \/ rs[i].id \in refused \cup Ids(log.unwritten) \cup Ids(flush.batch)
  BY <1>1, <1>2 DEF Reached
<1>11. \A i, j \in DOMAIN rs :
         i < j /\ rs[i].who # Nobody /\ rs[i].who = rs[j].who => rs[j].at - rs[i].at >= Gap
  <2> SUFFICES ASSUME NEW i \in DOMAIN rs, NEW j \in DOMAIN rs, i < j,
                      rs[i].who # Nobody, rs[i].who = rs[j].who
               PROVE  rs[j].at - rs[i].at >= Gap
    OBVIOUS
  <2>1. \/ rs[j].at - rs[i].at >= Gap
        \/ rs[j].at - rs[i].at > MaxAge
        \/ Buried(rs[i], logTable)
    BY <1>1, <1>2, <1>5 DEF Apart
  <2>2. rs[j].at - rs[i].at <= MaxAge
    BY <1>1, <1>2 DEF RingIs, A
  <2>3. rs[i].at \in Nat /\ rs[j].at \in Nat
    BY <1>2, <1>3
  <2> QED
    BY <1>2, <1>4, <1>6, <2>1, <2>2, <2>3
<1> QED
  BY <1>1, <1>7, <1>8, <1>9, <1>10, <1>11 DEF LogIsKept

-----------------------------------------------------------------------------
(* What is proved.                                                         *)

\* Whatever was set, taken away or refetched and however the statements about
\* it landed, init() finds under a key at the next boot what was in force, if
\* nothing about it was under way and statements about it neither overlapped
\* nor were refused, and the environment has nothing to put in its place.
THEOREM SettingsOutlive == Spec => RestartBringsBack
<1>1. ASSUME Ind, Restart, NEW k \in Keys \ doubt, writes[k] = {}
      PROVE  settings'[k] = settings[k] \/ Reseeded(k)
  <2>1. table[k] = settings[k]
    BY <1>1 DEF Ind, Owed, Through
  <2>2. PICK kept : kept[k] \in Left(k) /\ settings' = [j \in Keys |-> Seeded(j, kept[j])]
    <3>1. PICK m \in Left("mail"), g \in Left("gamenight"), i \in Left("api"), s \in Left("server") :
            Boot([j \in Keys |-> CASE j = "mail" -> m [] j = "gamenight" -> g
                                  [] j = "api" -> i [] j = "server" -> s])
      BY <1>1 DEF Restart
    <3>. DEFINE kept == [j \in Keys |-> CASE j = "mail" -> m [] j = "gamenight" -> g
                                         [] j = "api" -> i [] j = "server" -> s]
    <3>2. kept[k] \in Left(k)
      BY DEF Keys
    <3>3. settings' = [j \in Keys |-> Seeded(j, kept[j])]
      <4>1. Boot(kept)
        BY <3>1
      <4>. HIDE DEF kept
      <4>. QED  BY <4>1 DEF Boot
    <3>. HIDE DEF kept
    <3>. QED  BY <3>2, <3>3
  <2>3. settings'[k] = Seeded(k, settings[k])
    BY <1>1, <2>1, <2>2 DEF Left
  <2>. QED  BY <2>3 DEF Seeded, Reseeded
<1>2. Ind => [Restart => \A k \in Keys \ doubt :
                           writes[k] = {} => settings'[k] = settings[k] \/ Reseeded(k)]_vars
  BY <1>1
<1>. QED  BY <1>2, IndHolds, PTL DEF RestartBringsBack

\* When no test of mail settings is under way, and none met another or a save,
\* mail is sent from where it was last set to be.
THEOREM TestsLeaveNothing == Spec => []TestsComeBack
<1>1. Ind => TestsComeBack
  <2>. SUFFICES ASSUME Ind, ~Testing, "mail" \notin astray  PROVE AsSet(mail)
    BY DEF TestsComeBack, AsSet, SetMailIs
  <2>. QED  BY DEF Ind, Back, Stands
<1>. QED  BY <1>1, IndHolds, PTL

\* The transport, the verifier and the games have what was set, and so has
\* every open page once saves are through and nothing met a test.
THEOREM EverybodyIsTold == Spec => []ToldAsSet
<1>1. Ind => ToldAsSet
  <2>. SUFFICES ASSUME Ind  PROVE ToldAsSet
    OBVIOUS
  <2>1. mailer.told = Told(mail) /\ mailer.transport \in {None, mailer.told}
    BY DEF Ind, InForce
  <2>2. pairing = settings["gamenight"] /\ (settings["server"] # None => knobs = settings["server"])
    BY DEF Ind, InForce
  <2>3. ASSUME ~Testing, astray = {}, ~Saving  PROVE info = Info(mailer, pairing, knobs)
    <3>1. info = PagesOf(mail)
      BY <2>3 DEF Ind, Pages, Stands
    <3>. QED  BY <2>1, <3>1 DEF PagesOf, Info, Available, Told
  <2>. QED  BY <2>1, <2>2, <2>3 DEF ToldAsSet
<1>. QED  BY <1>1, IndHolds, PTL

\* The log is one story in memory and in the table, over every order of rows,
\* writes, refusals and restarts: the ring's rows are in order and within its
\* bounds, an id is one row's, a row is in the table or on its way there or
\* was refused, and no visit is written down twice.
THEOREM OneLog == Spec => []LogIsKept
  BY KeptIs, LogInvHolds, PTL
=============================================================================
