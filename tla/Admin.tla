------------------------------- MODULE Admin -------------------------------
(***************************************************************************)
(* What an administrator sets while the server runs: where it sends mail   *)
(* from, the GameNight it is paired with, the key GameNight calls it with  *)
(* and its knobs (server/settings-store.js, mail-settings.js, mailer.js,   *)
(* gamenight-pairing.js, gamenight-sso.js, api-keys.js,                    *)
(* server-settings.js, and their handlers in tournament-handlers.js).      *)
(*                                                                         *)
(* A setting is in memory the moment it is set and is written behind; the  *)
(* database is asked over a pool of connections, so two writes under way   *)
(* may land in either order. The handlers that save the mail settings, try *)
(* them and pair wait in the middle, and two administrators' may be at it  *)
(* at once. A definition marked Slip is a plausible mistake in the one     *)
(* below it.                                                               *)
(***************************************************************************)
EXTENDS AdminLog

CONSTANTS
  Admins,     \* connections of administrators
  Passwords,  \* what may be typed where a password is asked for
  Forms,      \* what a mail form may be filled in with
  Hosts,      \* GameNights that could be paired with
  Tokens,     \* sign-in tokens, each from one GameNight
  Issuer,     \* token -> the GameNight that signed it
  Signed,     \* token -> the hour it was signed, and is good in
  Holder,     \* token -> who it signs in
  EnvMail,    \* mail settings in the environment, or None
  EnvPaired,  \* the GameNight in the environment, or None
  EnvKnobs,   \* the knobs as the environment has them
  MaxPresses, \* bound: buttons pressed, calls and sign-ins made
  MaxFaults,  \* bound: statements the database refuses
  MaxCrashes, \* bound: restarts
  None

Modes == {"off", "log", "smtp"}
MailSettings == [mode : Modes, pass : Passwords, source : {"none", "env", "gui"}]

\* The test of mail settings: what was in force before it, whether a message
\* is to go, and whether the connection was tried.
Tests == [before : MailSettings, send : BOOLEAN, tried : BOOLEAN]

ASSUME AdminAssumption ==
  /\ "" \in Passwords
  /\ Forms \subseteq [mode : Modes, pass : Passwords, clear : BOOLEAN]
  /\ Issuer \in [Tokens -> Hosts] /\ Signed \in [Tokens -> Nat] /\ DOMAIN Holder = Tokens
  /\ EnvMail \in MailSettings \cup {None}
  /\ EnvPaired \in Hosts \cup {None} /\ EnvKnobs \in BOOLEAN
  /\ None \notin Admins \cup MailSettings \cup Tests

VARIABLES
  settings,  \* the settings in memory: key -> value
  table,     \* the settings table
  writes,    \* key -> the statements about it under way
  doubt,     \* keys whose last writes overlapped, or were refused
  mail,      \* the mail settings in force
  mailer,    \* what the mailer was told, and what its transport was built from
  test,      \* administrator -> the test of mail settings they have under way
  astray,    \* what a meeting of tests and saves has put wrong: the mail
             \* settings, or what the pages were told
  pairing,   \* the GameNight whose tokens are believed
  seen,      \* tokens the verifier has accepted
  asking,    \* administrator -> the GameNight being asked for its key
  knobs,     \* what the games were told of the knobs
  made,      \* keys made so far
  info,      \* what every open page was told last
  spent      \* presses, faults and crashes so far

store == <<settings, table, writes, doubt>>
sending == <<mail, mailer, test, astray>>
gamenight == <<pairing, seen, asking>>
vars == <<now, logVars, store, sending, gamenight, knobs, made, info, spent>>

Keys == {"mail", "gamenight", "api", "server"}

(***************************************************************************)
(* The settings store.                                                     *)
(***************************************************************************)
\* Slip: a setting that is taken away is only forgotten.
StatementsForgotten(k, v, by) ==
  IF v = None THEN writes[k] ELSE writes[k] \cup {[value |-> v, by |-> by, n |-> 1]}

\* The statements about a key with one more, that puts it or takes it away.
\* The number tells it from the others.
Statements(k, v, by) ==
  writes[k] \cup {[value |-> v, by |-> by, n |-> Max({w.n : w \in writes[k]} \cup {0}) + 1]}

Set(k, v, by) ==
  /\ settings' = [settings EXCEPT ![k] = v]
  /\ writes' = [writes EXCEPT ![k] = Statements(k, v, by)]
  /\ doubt' = IF writes[k] # {} THEN doubt \cup {k} ELSE doubt \ {k}
  /\ UNCHANGED table

Testing == \E a \in Admins : test[a] # None
Saving == \E w \in writes["mail"] : w.by # None

(***************************************************************************)
(* Mail.                                                                   *)
(***************************************************************************)
NoMail == [mode |-> "off", pass |-> "", source |-> "none"]

\* An empty password leaves the one there is; taking it away is a flag.
Merged(form, source) ==
  [mode |-> form.mode, source |-> source,
   pass |-> IF form.clear THEN "" ELSE IF form.pass # "" THEN form.pass ELSE mail.pass]

\* The form as it was typed, with the stored password where the box was left
\* empty: a record, and so without the flag.
AsTyped(form) ==
  [mode |-> form.mode, clear |-> FALSE,
   pass |-> IF form.pass # "" THEN form.pass ELSE IF form.clear THEN "" ELSE mail.pass]

\* A record handed back to be settings again is a form with no flag.
AsForm(m) == [mode |-> m.mode, pass |-> m.pass, clear |-> FALSE]

Told(m) == [mode |-> m.mode, pass |-> m.pass]

\* Slip: the transport outlives the settings it was built from.
ConfiguredInPlace(m) == [mailer EXCEPT !.told = Told(m)]

\* Every field, and the transport is dropped.
Configured(m) == [told |-> Told(m), transport |-> None]

Apply(m) == mail' = m /\ mailer' = Configured(m)

\* Mail can be sent; the public address is taken to be set.
Available(mr) == mr.told.mode # "off"

\* The transport is built when it is first wanted and kept.
Transport(mr) ==
  IF mr.told.mode = "smtp" /\ mr.transport = None
  THEN [mr EXCEPT !.transport = mr.told] ELSE mr

(***************************************************************************)
(* What every page is told: whether accounts can be made, whether there is *)
(* a GameNight to sign in through, whether there are reactions.            *)
(***************************************************************************)
Info(mr, paired, k) == [accounts |-> Available(mr), gamenight |-> paired # None, reactions |-> k]

Announce ==
  /\ info' = Info(mailer', pairing', knobs')
  /\ astray' = astray \cup (IF Testing THEN {"pages"} ELSE {})

Press == spent.presses < MaxPresses /\ spent' = [spent EXCEPT !.presses = @ + 1]
Row == log' = Recorded(log) /\ UNCHANGED <<flush, logTable, refused>>
NoRow == UNCHANGED logVars

\* adminSetMail: in force at once; the answer waits for the statement.
SetMail(a, form) ==
  /\ Press /\ Apply(Merged(form, "gui")) /\ Set("mail", mail', a)
  /\ astray' = IF Testing THEN {"mail", "pages"} ELSE {}
  /\ NoRow /\ UNCHANGED <<now, test, gamenight, knobs, made, info>>

\* adminTestMail: what was typed is in force while a connection is tried and,
\* if it is asked for, a message sent. One at a time for a connection.
TestMail(a, form, send) ==
  /\ test[a] = None /\ Press
  /\ test' = [test EXCEPT ![a] = [before |-> mail, send |-> send, tried |-> FALSE]]
  /\ mail' = Merged(AsTyped(form), "gui")
  /\ mailer' = Transport(Configured(mail'))
  /\ astray' = astray \cup (IF Testing THEN {"mail", "pages"} ELSE {})
  /\ NoRow /\ UNCHANGED <<now, store, gamenight, knobs, made, info>>

\* Slip: a test that fails keeps what was tried.
PutBackIfGood(a, good) == IF good THEN Merged(AsForm(test[a].before), test[a].before.source) ELSE mail

\* However it ends, what was in force before is applied again.
PutBack(a, good) == Merged(AsForm(test[a].before), test[a].before.source)

\* The connection was tried: a message goes, or the test is over.
MailTried(a, good) ==
  /\ test[a] # None
  /\ good => Available(mailer)
  /\ IF good /\ test[a].send /\ ~test[a].tried
     THEN /\ test' = [test EXCEPT ![a].tried = TRUE]
          /\ mailer' = Transport(mailer) /\ UNCHANGED mail
     ELSE /\ test' = [test EXCEPT ![a] = None]
          /\ Apply(PutBack(a, good))
  /\ NoRow /\ UNCHANGED <<now, store, astray, gamenight, knobs, made, info, spent>>

\* A sign-up or a reset sends its link.
SendLink ==
  /\ Available(mailer) /\ mailer' = Transport(mailer) /\ mailer' # mailer
  /\ NoRow /\ UNCHANGED <<now, store, mail, test, astray, gamenight, knobs, made, info, spent>>

(***************************************************************************)
(* GameNight.                                                              *)
(***************************************************************************)
\* A new verifier has seen nothing.
PairWith(h) ==
  /\ pairing' = h /\ seen' = {}
  /\ Set("gamenight", h, None)
  /\ UNCHANGED <<mail, mailer>> /\ UNCHANGED knobs /\ Announce

Pair(a, h) ==
  /\ asking[a] = None /\ Press
  /\ asking' = [asking EXCEPT ![a] = h]
  /\ NoRow /\ UNCHANGED <<now, store, sending, pairing, seen, knobs, made, info>>

Refresh(a) == pairing # None /\ Pair(a, pairing)

\* The GameNight gave its key: the pairing is made with it, whatever was
\* done while it was asked.
KeyFetched(a) ==
  /\ asking[a] # None /\ PairWith(asking[a])
  /\ asking' = [asking EXCEPT ![a] = None]
  /\ NoRow /\ UNCHANGED <<now, test, made, spent>>

KeyNotFetched(a) ==
  /\ asking[a] # None
  /\ asking' = [asking EXCEPT ![a] = None]
  /\ NoRow /\ UNCHANGED <<now, store, sending, pairing, seen, knobs, made, info, spent>>

Unpair ==
  /\ Press /\ PairWith(None)
  /\ NoRow /\ UNCHANGED <<now, test, asking, made>>

Good(t) == pairing = Issuer[t] /\ now = Signed[t]

Hello(who) == log' = SignInRecorded(log, who) /\ UNCHANGED <<flush, logTable, refused>>

\* A token is believed if the GameNight paired with signed it, it is still
\* good and the verifier has not seen it; one that is not is a warning, and
\* so a row. What the verifier has seen it forgets when it is no longer good.
SignIn(t) ==
  /\ pairing # None /\ Press
  /\ \/ /\ Good(t) /\ t \notin seen
        /\ seen' = {u \in seen : Good(u)} \cup {t} /\ Hello(Holder[t])
     \/ /\ ~(Good(t) /\ t \notin seen)
        /\ seen' = IF Good(t) THEN {u \in seen : Good(u)} ELSE seen
        /\ Row
  /\ UNCHANGED <<now, store, sending, pairing, asking, knobs, made, info>>

\* Somebody is back on a device that is signed in.
Identify(who) ==
  /\ Press /\ Hello(who)
  /\ UNCHANGED <<now, store, sending, gamenight, knobs, made, info>>

(***************************************************************************)
(* The key of the interface, and the knobs.                                *)
(***************************************************************************)
MakeKey ==
  /\ Press /\ made' = made + 1 /\ Set("api", made', None)
  /\ Row /\ UNCHANGED <<now, sending, gamenight, knobs, info>>

\* With no key set it says so all the same, to the table and to the log.
RevokeKey ==
  /\ Press /\ Set("api", None, None)
  /\ Row /\ UNCHANGED <<now, sending, gamenight, knobs, made, info>>

\* A call with a key is done and written down, as is one that is refused. The
\* first in a minute writes down that the key was used.
Call(k) ==
  /\ Press
  /\ \/ settings["api"] = k /\ Set("api", k, None)
     \/ UNCHANGED store
  /\ Row /\ UNCHANGED <<now, sending, gamenight, knobs, made, info>>

SetServer(on) ==
  /\ Press /\ knobs' = on /\ Set("server", on, None)
  /\ UNCHANGED <<mailer, pairing>> /\ Announce
  /\ Row /\ UNCHANGED <<now, mail, test, seen, asking, made>>

(***************************************************************************)
(* The statements.                                                         *)
(***************************************************************************)
\* A save that was waited for is announced, written down and answered.
Lands(k, w) ==
  /\ table' = [table EXCEPT ![k] = w.value]
  /\ writes' = [writes EXCEPT ![k] = @ \ {w}]
  /\ IF w.by # None
     THEN Row /\ UNCHANGED <<mailer, pairing, knobs>> /\ Announce
     ELSE NoRow /\ UNCHANGED <<mailer, pairing, knobs, info, astray>>
  /\ UNCHANGED <<now, settings, doubt, mail, test, seen, asking, made, spent>>

\* One that is refused is a warning, and so a row; the administrator is told
\* and nobody else.
Fault == spent.faults < MaxFaults /\ spent' = [spent EXCEPT !.faults = @ + 1]

Refused(k, w) ==
  /\ Fault
  /\ writes' = [writes EXCEPT ![k] = @ \ {w}] /\ doubt' = doubt \cup {k}
  /\ astray' = astray \cup (IF w.by # None THEN {"pages"} ELSE {})
  /\ Row /\ UNCHANGED <<now, settings, table, mail, mailer, test, gamenight, knobs, made, info>>

(***************************************************************************)
(* A restart. What was under way may have landed and may not; then         *)
(* everything that reads a setting reads it, the GameNight first.          *)
(***************************************************************************)
\* The environment's mail settings and pairing are put where there are none.
Seeded(k, kept) ==
  IF kept # None THEN kept
  ELSE CASE k = "mail" -> EnvMail [] k = "gamenight" -> EnvPaired [] OTHER -> None

SeedWrites(k, kept) ==
  IF kept = None /\ Seeded(k, kept) # None
  THEN {[value |-> Seeded(k, kept), by |-> None, n |-> 1]} ELSE {}

Boot(kept) ==
  /\ table' = kept /\ settings' = [k \in Keys |-> Seeded(k, kept[k])]
  /\ writes' = [k \in Keys |-> SeedWrites(k, kept[k])] /\ doubt' = {}
  /\ mail' = IF settings'["mail"] = None THEN NoMail ELSE settings'["mail"]
  /\ mailer' = Configured(mail')
  /\ test' = [a \in Admins |-> None] /\ astray' = {}
  /\ pairing' = settings'["gamenight"] /\ seen' = {}
  /\ asking' = [a \in Admins |-> None]
  /\ knobs' = IF kept["server"] = None THEN EnvKnobs ELSE kept["server"]
  /\ info' = Info(mailer', pairing', knobs')

\* What a restart may find under a key.
Left(k) == {table[k]} \cup {w.value : w \in writes[k]}

Restart ==
  /\ spent.crashes < MaxCrashes /\ spent' = [spent EXCEPT !.crashes = @ + 1]
  /\ \E m \in Left("mail"), g \in Left("gamenight"), i \in Left("api"), s \in Left("server") :
       Boot([k \in Keys |-> CASE k = "mail" -> m [] k = "gamenight" -> g
                             [] k = "api" -> i [] k = "server" -> s])
  /\ \E t \in LogLeft : LogStarts(t)
  /\ UNCHANGED <<now, made>>

HourPasses ==
  /\ now < MaxAge + 3 /\ now' = now + 1
  /\ NoRow /\ UNCHANGED <<store, sending, gamenight, knobs, made, info, spent>>

Init ==
  /\ LogInit
  /\ table = [k \in Keys |-> None]
  /\ settings = [k \in Keys |-> Seeded(k, None)]
  /\ writes = [k \in Keys |-> SeedWrites(k, None)]
  /\ doubt = {}
  /\ mail = IF EnvMail = None THEN NoMail ELSE EnvMail
  /\ mailer = [told |-> Told(mail), transport |-> None]
  /\ test = [a \in Admins |-> None] /\ astray = {}
  /\ pairing = EnvPaired /\ seen = {} /\ asking = [a \in Admins |-> None]
  /\ knobs = EnvKnobs /\ made = 0
  /\ info = Info(mailer, pairing, knobs)
  /\ spent = [presses |-> 0, faults |-> 0, crashes |-> 0]

OfLog == TimerFires \/ RowLands \/ TablePruned
Next ==
  \/ \E a \in Admins :
       \/ \E f \in Forms : SetMail(a, f) \/ \E send \in BOOLEAN : TestMail(a, f, send)
       \/ \E good \in BOOLEAN : MailTried(a, good)
       \/ \E h \in Hosts : Pair(a, h)
       \/ Refresh(a) \/ KeyFetched(a) \/ KeyNotFetched(a)
  \/ Unpair \/ MakeKey \/ RevokeKey \/ \E on \in BOOLEAN : SetServer(on)
  \/ SendLink
  \/ \E t \in Tokens : SignIn(t) \/ Identify(Holder[t])
  \/ \E k \in 1..made : Call(k)
  \/ \E k \in Keys : \E w \in writes[k] : Lands(k, w) \/ Refused(k, w)
  \/ OfLog /\ UNCHANGED <<store, sending, gamenight, knobs, made, info, spent>>
  \/ LogRefused /\ Fault /\ UNCHANGED <<store, sending, gamenight, knobs, made, info>>
  \/ Restart \/ HourPasses

Spec == Init /\ [][Next]_vars

(***************************************************************************)
(* Properties.                                                             *)
(***************************************************************************)
\* A setting that was taken away, and the environment has one to put there.
Reseeded(k) == settings[k] = None /\ Seeded(k, None) # None

\* What is set outlives the server.  A restart finds under every key what was
\* in force, set, refetched or revoked, with three exceptions: where statements
\* about the key overlapped, or one was refused, and none has been made by
\* itself since (doubt); where one is still under way; and where the setting
\* was taken away and the environment puts one there again.
RestartBringsBack ==
  [][Restart => \A k \in Keys \ doubt :
                  writes[k] = {} => settings'[k] = settings[k] \/ Reseeded(k)]_vars

\* A test of mail settings leaves nothing behind it.  When none is under way
\* and none met another test or a save, mail is sent from where it was last
\* set to be, but for a password tried where there was none.
TestsComeBack ==
  LET set == IF settings["mail"] = None THEN NoMail ELSE settings["mail"] IN
  ~Testing /\ "mail" \notin astray =>
    /\ mail.mode = set.mode /\ mail.source = set.source
    /\ set.pass # "" => mail.pass = set.pass

\* Everybody is told the same.  No message goes through a transport built
\* from settings that were replaced; the verifier, the games and, once saves
\* are through and nothing met a test, every open page have what is in force.
ToldAsSet ==
  /\ mailer.told = Told(mail) /\ mailer.transport \in {None, mailer.told}
  /\ pairing = settings["gamenight"]
  /\ settings["server"] # None => knobs = settings["server"]
  /\ ~Testing /\ astray = {} /\ ~Saving =>
       info = Info(mailer, pairing, knobs)
=============================================================================
