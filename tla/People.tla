------------------------------- MODULE People -------------------------------
(***************************************************************************)
(* Who is who: the identities of server/identity.js, the accounts of       *)
(* server/accounts.js, and the handlers of server/tournament-handlers.js   *)
(* that sign people in and out and let an administrator manage them.       *)
(*                                                                         *)
(* A handler runs to its end unless it hashes a password: a sign-up, a     *)
(* sign-in and a claim of the server are each taken in two steps, and      *)
(* anything may happen between. A password is right or wrong, a mail is a  *)
(* link that somebody may open. A definition marked Slip is a plausible    *)
(* mistake in the one below it.                                            *)
(***************************************************************************)
EXTENDS Naturals, FiniteSets, Functions

CONSTANTS
  Names,     \* names, as nameKeyOf leaves them
  Locals,    \* bound: the uids this server may give out
  GameNight, \* the uids of people GameNight knows
  Founders,  \* people in an old database, which has no administrator
  Sockets,   \* bound: connections
  MaxTokens, \* bound: tokens handed out
  MaxHashes, \* bound: passwords being hashed at once
  None

ASSUME PeopleAssumption ==
  /\ {MaxTokens, MaxHashes} \subseteq Nat /\ Founders \subseteq Locals
  /\ Locals \cap GameNight = {}
  /\ None \notin Names \cup Locals \cup GameNight

VARIABLES
  ids,       \* the identity store: rec (uid -> record), byName, tokens, bornEmpty
  account,   \* name -> the uid that owns it
  pending,   \* name -> the uid whose sign-up holds it
  sock,      \* socket.data of each connection
  job,       \* the password each connection is waiting for
  claiming,  \* whether the server is being claimed
  issued,    \* uids given out
  minted     \* tokens handed out

accounts == <<account, pending>>
vars == <<ids, accounts, sock, job, claiming, issued, minted>>

Uids == Locals \cup GameNight
Put(f, k, v) == [x \in DOMAIN f \cup {k} |-> IF x = k THEN v ELSE f[x]]
Without(f, S) == Restrict(f, DOMAIN f \ S)
Fresh == CHOOSE u \in Locals : u \notin issued
AnyFresh == Locals \ issued # {}

(***************************************************************************)
(* The identity store, as functions from one store to the next.            *)
(***************************************************************************)
AdminsOf(st) == {u \in DOMAIN st.rec : st.rec[u].admin}
Admins == AdminsOf(ids)
WouldOrphan(u) == u \in Admins /\ Cardinality(Admins) <= 1
Known(u) == u \in DOMAIN ids.rec
Welcome(u) == Known(u) => ~ids.rec[u].off
IsAdmin(u) == u \in Admins

MaySignIn(u) == Welcome(u)

\* The first person on a server that was empty when it started runs it.
HoldRec(st, u, n) ==
  [st EXCEPT !.rec = Put(@, u, [name  |-> n,
                                admin |-> st.bornEmpty /\ AdminsOf(st) = {},
                                off   |-> FALSE,
                                gn    |-> u \in GameNight]),
             !.byName = Put(@, n, u)]

\* Slip: the name given up still leads to the record.
UnnamedStill(st, u) == st.byName

Unnamed(st, u) ==
  Without(st.byName, {n \in DOMAIN st.byName : n = st.rec[u].name /\ st.byName[n] = u})

SetName(st, u, n) ==
  [st EXCEPT !.byName = Put(Unnamed(st, u), n, u), !.rec[u].name = n]

SetRole(st, u, admin) == [st EXCEPT !.rec[u].admin = admin]
Revoke(st, T) == [st EXCEPT !.tokens = Without(@, T)]

TokensOf(u) == {t \in DOMAIN ids.tokens : ids.tokens[t] = u}
Remove(st, u) == [st EXCEPT !.byName = Unnamed(st, u), !.rec = Without(@, {u})]
AttachToken(st, u) == [st EXCEPT !.tokens = Put(@, minted + 1, u)]

\* Somebody who proved who they are: their name is their account's, and a
\* uid nobody is known by is made.
SignInAs(st, u, n) ==
  AttachToken(IF u \in DOMAIN st.rec
              THEN [SetName(st, u, n) EXCEPT !.rec[u].gn = FALSE]
              ELSE [HoldRec(st, u, n) EXCEPT !.rec[u].gn = FALSE],
              u)

(***************************************************************************)
(* Who owns a name.                                                        *)
(***************************************************************************)
OwnerOf(n) == IF n \in DOMAIN account THEN account[n] ELSE None
HolderOf(n) ==
  IF OwnerOf(n) # None THEN OwnerOf(n)
  ELSE IF n \in DOMAIN pending THEN pending[n] ELSE None
NameInUse(n, u) == n \in DOMAIN ids.byName /\ ids.byName[n] # u
HeldBy(n, u) == HolderOf(n) \notin {None, u} \/ NameInUse(n, u)
OwnedBy(n, u) == OwnerOf(n) \notin {None, u} \/ NameInUse(n, u)

(***************************************************************************)
(* Connections. A connection that drops keeps its data for two minutes,    *)
(* in which it may be recovered.                                           *)
(***************************************************************************)
Nobody == [up |-> TRUE, uid |-> None, token |-> None, admin |-> FALSE]
As(u, t, st) == [up |-> TRUE, uid |-> u, token |-> t, admin |-> u \in AdminsOf(st)]
Live == {s \in Sockets : sock[s].up}
SignedIn(s) == s \in Live /\ sock[s].uid # None
Administers(s) == s \in Live /\ sock[s].admin

Disconnect(s) ==
  /\ Live = Sockets /\ sock[s] # Nobody /\ sock' = [sock EXCEPT ![s].up = FALSE]
  /\ UNCHANGED <<ids, accounts, job, claiming, issued, minted>>

\* Slip: the data comes back as it was.
RecoveredAsLeft(data) == [data EXCEPT !.up = TRUE]

Recovered(data) == [data EXCEPT !.up = TRUE, !.admin = FALSE]

Connect(s) ==
  /\ s \notin Live
  /\ \E data \in {Nobody, Recovered(sock[s])} : sock' = [sock EXCEPT ![s] = data]
  /\ UNCHANGED <<ids, accounts, job, claiming, issued, minted>>

\* A browser says which token it keeps.
Identify(s, t) ==
  /\ s \in Live /\ t \in DOMAIN ids.tokens /\ Welcome(ids.tokens[t])
  /\ sock' = [sock EXCEPT ![s] = As(ids.tokens[t], t, ids)]
  /\ UNCHANGED <<ids, accounts, job, claiming, issued, minted>>

\* The name a GameNight player gets: the wanted one, or one made from it, or
\* the one they had; a sign-up that holds it and has proved nothing gives way.
GameNightNames(n, u) ==
  IF ~OwnedBy(n, u) THEN {n}
  ELSE LET free == {c \in Names : ~OwnedBy(c, u)} IN
       IF free # {} THEN free ELSE IF Known(u) THEN {ids.rec[u].name} ELSE {}

Released(n, u) == IF HeldBy(n, u) /\ ~OwnedBy(n, u) THEN Without(pending, {n}) ELSE pending

GameNightRecord(u, n) == IF Known(u) THEN SetName(ids, u, n) ELSE HoldRec(ids, u, n)

\* Signing in with GameNight.
IdentifyFromGameNight(s, u, wanted) ==
  /\ s \in Live /\ minted < MaxTokens /\ MaySignIn(u)
  /\ \E n \in GameNightNames(wanted, u) :
       /\ ids' = AttachToken(GameNightRecord(u, n), u)
       /\ pending' = Released(n, u)
  /\ minted' = minted + 1
  /\ sock' = [sock EXCEPT ![s] = As(u, minted + 1, ids')]
  /\ UNCHANGED <<account, job, claiming, issued>>

\* GameNight books a game for people who have not come yet.
ReserveFromGameNight(u, wanted) ==
  /\ \E n \in GameNightNames(wanted, u) :
       ids' = GameNightRecord(u, n) /\ pending' = Released(n, u)
  /\ UNCHANGED <<account, sock, job, claiming, issued, minted>>

CreateGuest(n) == AttachToken(HoldRec(ids, Fresh, n), Fresh)

\* A guest who followed a link to a game.
GuestJoinViaCode(s, n) ==
  /\ s \in Live /\ ~SignedIn(s) /\ AnyFresh /\ minted < MaxTokens
  /\ ~(ids.bornEmpty /\ Admins = {}) /\ ~HeldBy(n, None)
  /\ ids' = CreateGuest(n)
  /\ issued' = issued \cup {Fresh} /\ minted' = minted + 1
  /\ sock' = [sock EXCEPT ![s] = As(Fresh, minted + 1, ids')]
  /\ UNCHANGED <<accounts, job, claiming>>

\* One device is ended, from any of the person's tabs.
EndSession(s, t) ==
  /\ SignedIn(s) /\ t \in TokensOf(sock[s].uid)
  /\ ids' = Revoke(ids, {t})
  /\ sock' = [o \in Sockets |-> IF o \in Live /\ sock[o].token = t
                                THEN [sock[o] EXCEPT !.uid = None, !.token = None] ELSE sock[o]]
  /\ UNCHANGED <<accounts, job, claiming, issued, minted>>

SignOut(s) ==
  /\ s \in Live /\ sock[s].token # None
  /\ ids' = Revoke(ids, {sock[s].token})
  /\ sock' = [sock EXCEPT ![s].uid = None, ![s].token = None]
  /\ UNCHANGED <<accounts, job, claiming, issued, minted>>

ExpireDevices(t) ==
  /\ t \in DOMAIN ids.tokens /\ (\A s \in Sockets : sock[s].token # t)
  /\ ids' = Revoke(ids, {t})
  /\ UNCHANGED <<accounts, sock, job, claiming, issued, minted>>

(***************************************************************************)
(* Accounts. What waits for a password is asked in one step and answered   *)
(* in another.                                                             *)
(***************************************************************************)
Idle == [kind |-> "none", uid |-> None, name |-> None]

\* The client shows its forms to a connection nobody is signed in on, and to a
\* guest who has no account yet: a bound on who asks.
MayAsk(s) == sock[s].uid = None \/ sock[s].uid \in Locals \ (Range(account) \cup Range(pending))
Hashing == {s \in Sockets : job[s] # Idle}
Ask(s, kind, u, n) ==
  /\ s \in Live \ Hashing /\ MayAsk(s) /\ Cardinality(Hashing) < MaxHashes
  /\ job' = [job EXCEPT ![s] = [kind |-> kind, uid |-> u, name |-> n]]
Answer(s, kind) == job[s].kind = kind /\ job' = [job EXCEPT ![s] = Idle]

\* The uid an account is made for: the one it was asked with, or a new one.
UidFor(u) == IF u = None THEN Fresh ELSE u

StartSignUp(s, n) ==
  /\ Ask(s, "sign-up", sock[s].uid, n)
  /\ OwnerOf(n) \in {None, sock[s].uid}
  /\ n \in DOMAIN pending => pending[n] = sock[s].uid
  /\ ~NameInUse(n, sock[s].uid)
  /\ UNCHANGED <<ids, accounts, sock, claiming, issued, minted>>

SignUpHashed(s) ==
  LET u == UidFor(job[s].uid) IN
  /\ Answer(s, "sign-up") /\ (job[s].uid = None => AnyFresh)
  /\ pending' = Put(pending, job[s].name, u)
  /\ issued' = issued \cup {u}
  /\ UNCHANGED <<ids, account, sock, claiming, minted>>

\* A day passes with the link unopened: the name is held no longer, and the
\* link is as good as one that was never sent.
Lapse(n) ==
  /\ n \in DOMAIN pending /\ pending' = Without(pending, {n})
  /\ UNCHANGED <<ids, account, sock, job, claiming, issued, minted>>

\* A sign-up becomes an account, unless the name has an owner by now.
Promotable(n) == n \in DOMAIN pending /\ OwnerOf(n) \in {None, pending[n]}
Promote(n) ==
  /\ n \in DOMAIN pending /\ pending' = Without(pending, {n})
  /\ IF Promotable(n)
     THEN account' = Put(account, n, pending[n]) ELSE UNCHANGED account

\* The link in the mail is opened.
CompleteSignUp(n) ==
  Promote(n) /\ UNCHANGED <<ids, sock, job, claiming, issued, minted>>

\* The account is one somebody can be found by before they first sign in.
Create(u, n, held) == IF Known(u) \/ held THEN ids ELSE HoldRec(ids, u, n)

AdmitUser(s, n) ==
  /\ Administers(s) /\ Promote(n)
  /\ ids' = IF Promotable(n)
            THEN Create(pending[n], n, NameInUse(n, pending[n])) ELSE ids
  /\ UNCHANGED <<sock, job, claiming, issued, minted>>

SignIn(s, n) ==
  /\ n \in DOMAIN account /\ Ask(s, "sign-in", account[n], n)
  /\ UNCHANGED <<ids, accounts, sock, claiming, issued, minted>>

\* The password was right: a token is sent, which the browser identifies with.
SignInChecked(s) ==
  /\ Answer(s, "sign-in") /\ minted < MaxTokens /\ MaySignIn(job[s].uid)
  /\ ids' = SignInAs(ids, job[s].uid, job[s].name) /\ minted' = minted + 1
  /\ UNCHANGED <<accounts, sock, claiming, issued>>

SignInRefused(s) ==
  Answer(s, "sign-in") /\ UNCHANGED <<ids, accounts, sock, claiming, issued, minted>>

Claimable(n, u) == OwnerOf(n) = None /\ n \notin DOMAIN pending /\ ~NameInUse(n, u)

\* Nobody administers a server whose people came from an old database.
ClaimServer(s, n) ==
  /\ Admins = {} /\ ~claiming /\ Claimable(n, sock[s].uid)
  /\ Ask(s, "claim", sock[s].uid, n) /\ claiming' = TRUE
  /\ UNCHANGED <<ids, accounts, sock, issued, minted>>

\* Slip: who administers is what it was before the hash.
GrantedAsAsked(u) == MaySignIn(u)

Granted(u) == Admins = {} /\ MaySignIn(u)

ClaimHashed(s) ==
  LET u == UidFor(job[s].uid)
      n == job[s].name IN
  /\ Answer(s, "claim") /\ (job[s].uid = None => AnyFresh) /\ minted < MaxTokens
  /\ issued' = issued \cup {u} /\ claiming' = FALSE
  /\ IF Granted(u)
     THEN /\ account' = Put(account, n, u)
          /\ ids' = SetRole(SignInAs(ids, u, n), u, TRUE)
          /\ minted' = minted + 1
     ELSE /\ account' = Without(account, {n})
          /\ UNCHANGED <<ids, minted>>
  /\ UNCHANGED <<pending, sock>>

(***************************************************************************)
(* What an administrator does.                                             *)
(***************************************************************************)
TabsOf(u) == {s \in Live : sock[s].uid = u}

Ended(u) ==
  [s \in Sockets |-> IF s \in TabsOf(u) THEN Nobody ELSE sock[s]]

SetUserRole(s, u, admin) ==
  /\ Administers(s) /\ Known(u)
  /\ IF admin THEN Welcome(u) ELSE ~WouldOrphan(u)
  /\ ids' = SetRole(ids, u, admin)
  /\ sock' = [o \in Sockets |-> IF o \in TabsOf(u) THEN [sock[o] EXCEPT !.admin = admin] ELSE sock[o]]
  /\ UNCHANGED <<accounts, job, claiming, issued, minted>>

MaySuspend(s, u) == u # sock[s].uid /\ ~WouldOrphan(u)

SetUserDisabled(s, u, off) ==
  /\ Administers(s) /\ Known(u) /\ (off => MaySuspend(s, u))
  /\ IF off
     THEN ids' = Revoke([ids EXCEPT !.rec[u].off = TRUE], TokensOf(u)) /\ sock' = Ended(u)
     ELSE ids' = [ids EXCEPT !.rec[u].off = FALSE] /\ UNCHANGED sock
  /\ UNCHANGED <<accounts, job, claiming, issued, minted>>

\* An administrator ends every device somebody is signed in on; GameNight
\* may do so for its own.
SignOutUser(u) ==
  /\ Known(u) /\ (u \in GameNight \/ \E s \in Sockets : Administers(s))
  /\ ids' = Revoke(ids, TokensOf(u)) /\ sock' = Ended(u)
  /\ UNCHANGED <<accounts, job, claiming, issued, minted>>

CreateUser(s, n) ==
  /\ Administers(s) /\ AnyFresh /\ Claimable(n, None)
  /\ account' = Put(account, n, Fresh)
  /\ ids' = Create(Fresh, n, FALSE) /\ issued' = issued \cup {Fresh}
  /\ UNCHANGED <<pending, sock, job, claiming, minted>>

MayDelete(s, u) == u # sock[s].uid /\ ~WouldOrphan(u) /\ ~ids.rec[u].gn

DeleteUser(s, u) ==
  /\ Administers(s) /\ Known(u) /\ MayDelete(s, u)
  /\ ids' = Remove(Revoke(ids, TokensOf(u)), u) /\ sock' = Ended(u)
  /\ account' = Without(account, {n \in DOMAIN account : account[n] = u})
  /\ UNCHANGED <<pending, job, claiming, issued, minted>>

(***************************************************************************)
(* The server stops and starts again with what it had stored.              *)
(***************************************************************************)
\* ADMIN_PROMOTE may name one of the people.
Promoted(st) ==
  {st} \cup {SetRole(st, st.byName[n], TRUE) : n \in DOMAIN st.byName}

Restart ==
  /\ ids' \in Promoted([ids EXCEPT !.bornEmpty = DOMAIN ids.rec = {}])
  /\ sock' = [s \in Sockets |-> Nobody] /\ job' = [s \in Sockets |-> Idle]
  /\ claiming' = FALSE /\ UNCHANGED <<accounts, issued, minted>>

\* An empty database, or one from before there were administrators.
Init ==
  /\ \E old \in {{}, Founders} : \E name \in Injection(old, Names) :
       /\ ids = [rec |-> [u \in old |-> [name |-> name[u], admin |-> FALSE, off |-> FALSE, gn |-> FALSE]],
                 byName |-> [n \in Range(name) |-> CHOOSE u \in old : name[u] = n],
                 tokens |-> <<>>, bornEmpty |-> old = {}]
       /\ issued = old
  /\ account = <<>> /\ pending = <<>>
  /\ sock = [s \in Sockets |-> Nobody] /\ job = [s \in Sockets |-> Idle]
  /\ claiming = FALSE /\ minted = 0

Next ==
  \/ \E s \in Sockets :
       \/ Disconnect(s) \/ Connect(s) \/ SignOut(s)
       \/ SignUpHashed(s) \/ SignInChecked(s) \/ SignInRefused(s) \/ ClaimHashed(s)
       \/ \E t \in 1..MaxTokens : Identify(s, t) \/ EndSession(s, t)
       \/ \E n \in Names :
            \/ GuestJoinViaCode(s, n) \/ StartSignUp(s, n) \/ SignIn(s, n) \/ ClaimServer(s, n)
            \/ AdmitUser(s, n) \/ CreateUser(s, n)
            \/ \E u \in GameNight : IdentifyFromGameNight(s, u, n)
       \/ \E u \in Uids :
            \/ DeleteUser(s, u)
            \/ \E b \in BOOLEAN : SetUserRole(s, u, b) \/ SetUserDisabled(s, u, b)
  \/ \E u \in Uids : SignOutUser(u)
  \/ \E u \in GameNight, n \in Names : ReserveFromGameNight(u, n)
  \/ \E n \in Names : Lapse(n) \/ CompleteSignUp(n)
  \/ \E t \in 1..MaxTokens : ExpireDevices(t)
  \/ Restart

Spec == Init /\ [][Next]_vars

(***************************************************************************)
(* Properties.                                                             *)
(***************************************************************************)
PartialTo(f, S, T) == DOMAIN f \subseteq S /\ Range(f) \subseteq T

\* The stores have their types, uids are given out before they are used, and
\* tokens lead to people the server knows.
TypeOK ==
  /\ PartialTo(ids.rec, Uids, [name : Names, admin : BOOLEAN, off : BOOLEAN, gn : BOOLEAN])
  /\ PartialTo(ids.tokens, 1..minted, DOMAIN ids.rec)
  /\ ids.bornEmpty \in BOOLEAN /\ claiming \in BOOLEAN
  /\ PartialTo(account, Names, issued \cup GameNight)
  /\ PartialTo(pending, Names, issued \cup GameNight)
  /\ sock \in [Sockets -> [up : BOOLEAN, uid : Uids \cup {None},
                          token : 1..minted \cup {None}, admin : BOOLEAN]]
  /\ job \in [Sockets -> [kind : {"none", "sign-up", "sign-in", "claim"},
                         uid : Uids \cup {None}, name : Names \cup {None}]]
  /\ issued \subseteq Uids /\ minted \in 0..MaxTokens

\* A name leads to somebody who goes by it: renaming, signing in under an
\* account's name, deleting and GameNight's own renames leave no name behind
\* that nobody could ever take again.
NamesLeadHome ==
  \A n \in DOMAIN ids.byName :
    Known(ids.byName[n]) /\ ids.rec[ids.byName[n]].name = n

\* Rights follow the person: no device signs in as somebody who was
\* suspended, whatever was hashing or under way when they were, and a tab
\* signed in as a person has an administrator's grant only while that person
\* administers the server, over roles taken away, suspensions, deletions, and
\* connections recovered afterwards.  The server is being claimed exactly
\* while one claim waits for its hash: one that is refused locks nobody out.
RightsAreHeld ==
  /\ \A t \in DOMAIN ids.tokens : Welcome(ids.tokens[t])
  /\ \A s \in Live : SignedIn(s) /\ Administers(s) => IsAdmin(sock[s].uid) /\ Welcome(sock[s].uid)
  /\ Cardinality({s \in Sockets : job[s].kind = "claim"}) = IF claiming THEN 1 ELSE 0

\* Once somebody administers the server somebody always does, and a claim
\* makes an administrator only of a server that has none when it is granted,
\* not only when it was asked for.
AdminsByRule ==
  [][/\ Admins # {} => Admins' # {}
     /\ claiming /\ ~claiming' /\ Admins # {} =>
          \A s \in Sockets : ClaimHashed(s) => Admins' = Admins]_vars

=============================================================================
