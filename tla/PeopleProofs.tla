---------------------------- MODULE PeopleProofs ----------------------------
(***************************************************************************)
(* What the run of People checks for three people and two connections, for *)
(* any number of people, names, connections and tokens: that names lead    *)
(* home, that rights follow the person, and that a server that has an      *)
(* administrator keeps one.                                                *)
(***************************************************************************)
EXTENDS People, FiniteSetTheorems, TLAPS

Person == [name : Names, admin : BOOLEAN, off : BOOLEAN, gn : BOOLEAN]
Device == [up : BOOLEAN, uid : Uids \cup {None}, token : 1..minted \cup {None}, admin : BOOLEAN]
Wait == [kind : {"none", "sign-up", "sign-in", "claim"},
         uid : Uids \cup {None}, name : Names \cup {None}]

\* Who may be signed in as.
Able(st) == {u \in DOMAIN st.rec : ~st.rec[u].off}

\* An identity store as it should be, with m tokens handed out: names lead
\* home, and a token leads to somebody who may be signed in as.
Store(st, m) ==
  /\ st = [rec |-> st.rec, byName |-> st.byName, tokens |-> st.tokens, bornEmpty |-> st.bornEmpty]
  /\ st.bornEmpty \in BOOLEAN
  /\ DOMAIN st.rec \subseteq Uids /\ \A u \in DOMAIN st.rec : st.rec[u] \in Person
  /\ \A n \in DOMAIN st.byName :
       st.byName[n] \in DOMAIN st.rec /\ st.rec[st.byName[n]].name = n
  /\ DOMAIN st.tokens \subseteq 1..m /\ \A t \in DOMAIN st.tokens : st.tokens[t] \in Able(st)

\* Nobody lost a right from one store to the next.
Grown(st, st2) == Able(st) \subseteq Able(st2) /\ AdminsOf(st) \subseteq AdminsOf(st2)

Given == issued \cup GameNight

Kept == Store(ids, minted) /\ DOMAIN ids.rec \subseteq Given
Owned ==
  /\ PartialTo(account, Names, Given) /\ PartialTo(pending, Names, Given)
  /\ issued \subseteq Uids /\ minted \in 0..MaxTokens

\* A tab signed in with an administrator's grant is one of somebody who
\* administers the server and is not suspended.
Tabs ==
  /\ sock \in [Sockets -> Device]
  /\ \A s \in Sockets :
       /\ sock[s].uid \in Given \cup {None}
       /\ sock[s].up /\ sock[s].admin /\ sock[s].uid # None =>
            sock[s].uid \in AdminsOf(ids) \cap Able(ids)

\* What waits for its hash knows for whom and under which name, and the server
\* is being claimed while exactly one claim does.
Waits ==
  /\ claiming \in BOOLEAN /\ job \in [Sockets -> Wait]
  /\ \A s \in Sockets :
       /\ job[s].uid \in Given \cup {None}
       /\ job[s].kind # "none" => job[s].name \in Names
       /\ job[s].kind = "sign-in" => job[s].uid # None
       /\ job[s].kind = "claim" => claiming
       /\ \A o \in Sockets : job[s].kind = "claim" /\ job[o].kind = "claim" => s = o
  /\ claiming => \E s \in Sockets : job[s].kind = "claim"

Ind == Kept /\ Owned /\ Tabs /\ Waits

\* What AdminsByRule says of a step, its first half.
Stays == AdminsOf(ids) # {} => AdminsOf(ids)' # {}

-----------------------------------------------------------------------------
(* The operators on maps and on the store.                                 *)

LEMMA PutIs ==
  ASSUME NEW f, NEW k, NEW v
  PROVE  /\ DOMAIN Put(f, k, v) = DOMAIN f \cup {k} /\ Put(f, k, v)[k] = v
         /\ \A x \in DOMAIN f : x # k => Put(f, k, v)[x] = f[x]
  BY DEF Put

LEMMA WithoutIs ==
  ASSUME NEW f, NEW S
  PROVE  /\ DOMAIN Without(f, S) = DOMAIN f \ S
         /\ \A x \in DOMAIN f \ S : Without(f, S)[x] = f[x]
  BY DEF Without, Restrict

LEMMA PutPartial ==
  ASSUME NEW f, NEW S, NEW T, PartialTo(f, S, T), NEW k \in S, NEW v \in T
  PROVE  PartialTo(Put(f, k, v), S, T)
<1>. DEFINE g == Put(f, k, v)
<1>1. DOMAIN g = DOMAIN f \cup {k} /\ g[k] = v /\ \A x \in DOMAIN f : x # k => g[x] = f[x]
  BY DEF Put
<1>2. \A x \in DOMAIN f : f[x] \in T
  BY DEF PartialTo, Range
<1>3. \A x \in DOMAIN g : g[x] \in T
  BY <1>1, <1>2
<1>. QED  BY <1>1, <1>3 DEF PartialTo, Range

LEMMA WithoutPartial ==
  ASSUME NEW f, NEW S, NEW T, PartialTo(f, S, T), NEW X
  PROVE  PartialTo(Without(f, X), S, T)
<1>. DEFINE g == Without(f, X)
<1>1. DOMAIN g = DOMAIN f \ X /\ \A x \in DOMAIN f \ X : g[x] = f[x]
  BY WithoutIs
<1>. QED  BY <1>1 DEF PartialTo, Range

LEMMA HoldRecKeeps ==
  ASSUME NEW st, NEW m \in Nat, Store(st, m), NEW u \in Uids \ DOMAIN st.rec, NEW n \in Names
  PROVE  /\ Store(HoldRec(st, u, n), m) /\ Grown(st, HoldRec(st, u, n))
         /\ DOMAIN HoldRec(st, u, n).rec = DOMAIN st.rec \cup {u}
         /\ u \in Able(HoldRec(st, u, n))
<1>. DEFINE h == HoldRec(st, u, n)
            r == [name |-> n, admin |-> st.bornEmpty /\ AdminsOf(st) = {},
                  off |-> FALSE, gn |-> u \in GameNight]
<1>1. /\ h = [rec |-> Put(st.rec, u, r), byName |-> Put(st.byName, n, u),
              tokens |-> st.tokens, bornEmpty |-> st.bornEmpty]
  <2>1. st = [rec |-> st.rec, byName |-> st.byName, tokens |-> st.tokens, bornEmpty |-> st.bornEmpty]
    BY DEF Store
  <2>2. h = [st EXCEPT !.rec = Put(@, u, r), !.byName = Put(@, n, u)]
    BY Zenon DEF HoldRec
  <2>. QED  BY <2>1, <2>2
<1>2. /\ DOMAIN h.rec = DOMAIN st.rec \cup {u} /\ h.rec[u] = r
      /\ \A x \in DOMAIN st.rec : h.rec[x] = st.rec[x]
  BY <1>1 DEF Put
<1>3. /\ DOMAIN h.byName = DOMAIN st.byName \cup {n} /\ h.byName[n] = u
      /\ \A x \in DOMAIN st.byName : x # n => h.byName[x] = st.byName[x]
  BY <1>1 DEF Put
<1>4. r \in Person /\ r.off = FALSE /\ r.name = n
  <2>1. (st.bornEmpty /\ AdminsOf(st) = {}) \in BOOLEAN /\ (u \in GameNight) \in BOOLEAN
    OBVIOUS
  <2>. QED  BY <2>1 DEF Person
<1>. HIDE DEF r
<1>5. Grown(st, h) /\ u \in Able(h)
  BY <1>2, <1>4 DEF Grown, Able, AdminsOf
<1>6. /\ DOMAIN h.rec \subseteq Uids /\ \A x \in DOMAIN h.rec : h.rec[x] \in Person
  BY <1>2, <1>4 DEF Store
<1>7. \A x \in DOMAIN h.byName : h.byName[x] \in DOMAIN h.rec /\ h.rec[h.byName[x]].name = x
  BY <1>2, <1>3, <1>4 DEF Store
<1>8. h.tokens = st.tokens /\ h.bornEmpty = st.bornEmpty
  BY <1>1
<1>9. /\ DOMAIN h.tokens \subseteq 1..m /\ \A t \in DOMAIN h.tokens : h.tokens[t] \in Able(h)
  BY <1>8, <1>5 DEF Store, Grown
<1>10. h = [rec |-> h.rec, byName |-> h.byName, tokens |-> h.tokens, bornEmpty |-> h.bornEmpty]
  BY <1>1
<1>11. h.bornEmpty \in BOOLEAN
  BY <1>8 DEF Store
<1>. HIDE DEF h
<1>12. Store(h, m)
  BY <1>6, <1>7, <1>9, <1>10, <1>11 DEF Store
<1>. QED  BY <1>2, <1>5, <1>12 DEF h

\* A store in which one record was amended, and nothing else.
Amended(st, st2, u, r) ==
  /\ st2 = [rec |-> st2.rec, byName |-> st.byName, tokens |-> st2.tokens, bornEmpty |-> st.bornEmpty]
  /\ DOMAIN st2.rec = DOMAIN st.rec /\ st2.rec[u] = r
  /\ \A x \in DOMAIN st.rec : x # u => st2.rec[x] = st.rec[x]

LEMMA AmendedKeeps ==
  ASSUME NEW st, NEW m \in Nat, Store(st, m), NEW st2, NEW u \in DOMAIN st.rec, NEW r \in Person,
         Amended(st, st2, u, r), r.name = st.rec[u].name,
         st2.tokens = st.tokens, r.off => st.rec[u].off
  PROVE  Store(st2, m) /\ Able(st) \subseteq Able(st2)
<1>1. Able(st) \subseteq Able(st2)
  BY DEF Able, Amended
<1>2. st2.byName = st.byName /\ st2.bornEmpty = st.bornEmpty
  BY DEF Amended
<1>3. DOMAIN st2.rec \subseteq Uids /\ \A x \in DOMAIN st2.rec : st2.rec[x] \in Person
  BY DEF Amended, Store
<1>4. \A n \in DOMAIN st2.byName :
        st2.byName[n] \in DOMAIN st2.rec /\ st2.rec[st2.byName[n]].name = n
  <2>. SUFFICES ASSUME NEW n \in DOMAIN st2.byName
       PROVE  st2.byName[n] \in DOMAIN st2.rec /\ st2.rec[st2.byName[n]].name = n
    OBVIOUS
  <2>1. st.byName[n] \in DOMAIN st.rec /\ st.rec[st.byName[n]].name = n
    BY <1>2 DEF Store
  <2>. QED  BY <1>2, <2>1 DEF Amended
<1>5. /\ DOMAIN st2.tokens \subseteq 1..m /\ \A t \in DOMAIN st2.tokens : st2.tokens[t] \in Able(st2)
  BY <1>1 DEF Store
<1>6. st2 = [rec |-> st2.rec, byName |-> st2.byName, tokens |-> st2.tokens, bornEmpty |-> st2.bornEmpty]
  BY <1>2 DEF Amended
<1>7. st2.bornEmpty \in BOOLEAN
  BY <1>2 DEF Store
<1>. QED  BY <1>1, <1>3, <1>4, <1>5, <1>6, <1>7 DEF Store

LEMMA SetRoleKeeps ==
  ASSUME NEW st, NEW m \in Nat, Store(st, m), NEW u \in DOMAIN st.rec, NEW b \in BOOLEAN
  PROVE  /\ Store(SetRole(st, u, b), m) /\ Able(SetRole(st, u, b)) = Able(st)
         /\ DOMAIN SetRole(st, u, b).rec = DOMAIN st.rec
         /\ AdminsOf(SetRole(st, u, b)) = IF b THEN AdminsOf(st) \cup {u} ELSE AdminsOf(st) \ {u}
<1>. DEFINE h == SetRole(st, u, b)
            r == [st.rec[u] EXCEPT !.admin = b]
<1>1. st = [rec |-> st.rec, byName |-> st.byName, tokens |-> st.tokens, bornEmpty |-> st.bornEmpty]
  BY DEF Store
<1>2. h = [st EXCEPT !.rec = [st.rec EXCEPT ![u] = [st.rec[u] EXCEPT !.admin = b]]]
  BY DEF SetRole
<1>3. st.rec[u] \in Person
  BY DEF Store
<1>4. r \in Person /\ r.name = st.rec[u].name /\ r.off = st.rec[u].off /\ r.admin = b
  BY <1>3 DEF Person
<1>. HIDE DEF r
<1>5. h.rec = [st.rec EXCEPT ![u] = r] /\ h.tokens = st.tokens
  BY <1>1, <1>2 DEF r
<1>6. h = [rec |-> h.rec, byName |-> st.byName, tokens |-> h.tokens, bornEmpty |-> st.bornEmpty]
  BY <1>1, <1>2
<1>7. Amended(st, h, u, r)
  BY <1>5, <1>6 DEF Amended
<1>. HIDE DEF h
<1>8. Store(h, m)
  BY <1>4, <1>5, <1>7, AmendedKeeps
<1>9. Able(h) = Able(st)
  BY <1>4, <1>7 DEF Able, Amended
<1>10. AdminsOf(h) = IF b THEN AdminsOf(st) \cup {u} ELSE AdminsOf(st) \ {u}
  BY <1>4, <1>7 DEF AdminsOf, Amended
<1>11. DOMAIN h.rec = DOMAIN st.rec
  BY <1>7 DEF Amended
<1>. QED  BY <1>8, <1>9, <1>10, <1>11 DEF h

\* The photo and the profile are GameNight's no longer.
LEMMA GnKeeps ==
  ASSUME NEW st, NEW m \in Nat, Store(st, m), NEW u \in DOMAIN st.rec,
         NEW h, h = [st EXCEPT !.rec[u].gn = FALSE]
  PROVE  Store(h, m) /\ Grown(st, h) /\ DOMAIN h.rec = DOMAIN st.rec /\ h.tokens = st.tokens
<1>. DEFINE r == [st.rec[u] EXCEPT !.gn = FALSE]
<1>1. st = [rec |-> st.rec, byName |-> st.byName, tokens |-> st.tokens, bornEmpty |-> st.bornEmpty]
  BY DEF Store
<1>2. h = [st EXCEPT !.rec = [st.rec EXCEPT ![u] = [st.rec[u] EXCEPT !.gn = FALSE]]]
  OBVIOUS
<1>3. st.rec[u] \in Person
  BY DEF Store
<1>4. r \in Person /\ r.name = st.rec[u].name /\ r.off = st.rec[u].off /\ r.admin = st.rec[u].admin
  BY <1>3 DEF Person
<1>. HIDE DEF r
<1>5. h.rec = [st.rec EXCEPT ![u] = r] /\ h.tokens = st.tokens
  BY <1>1, <1>2 DEF r
<1>6. h = [rec |-> h.rec, byName |-> st.byName, tokens |-> h.tokens, bornEmpty |-> st.bornEmpty]
  BY <1>1, <1>2
<1>7. Amended(st, h, u, r)
  BY <1>5, <1>6 DEF Amended
<1>8. Store(h, m) /\ Able(st) \subseteq Able(h)
  <2>1. r \in Person /\ r.name = st.rec[u].name /\ (r.off => st.rec[u].off) /\ h.tokens = st.tokens
    BY <1>4, <1>5
  <2>. QED  BY Zenon, <2>1, <1>7, AmendedKeeps
<1>9. AdminsOf(st) \subseteq AdminsOf(h)
  BY <1>4, <1>7 DEF AdminsOf, Amended
<1>. QED  BY <1>5, <1>7, <1>8, <1>9 DEF Grown, Amended

LEMMA RevokeKeeps ==
  ASSUME NEW st, NEW m \in Nat, Store(st, m), NEW T
  PROVE  /\ Store(Revoke(st, T), m) /\ Revoke(st, T).rec = st.rec
         /\ Grown(st, Revoke(st, T))
         /\ DOMAIN Revoke(st, T).tokens = DOMAIN st.tokens \ T
         /\ \A t \in DOMAIN st.tokens \ T : Revoke(st, T).tokens[t] = st.tokens[t]
<1>. DEFINE h == Revoke(st, T)
<1>1. st = [rec |-> st.rec, byName |-> st.byName, tokens |-> st.tokens, bornEmpty |-> st.bornEmpty]
  BY DEF Store
<1>2. h = [st EXCEPT !.tokens = Without(st.tokens, T)]
  BY DEF Revoke
<1>3. h = [rec |-> st.rec, byName |-> st.byName, tokens |-> Without(st.tokens, T), bornEmpty |-> st.bornEmpty]
  BY <1>1, <1>2
<1>4. /\ DOMAIN h.tokens = DOMAIN st.tokens \ T
      /\ \A t \in DOMAIN st.tokens \ T : h.tokens[t] = st.tokens[t]
  BY <1>3 DEF Without, Restrict
<1>5. h.rec = st.rec /\ h.byName = st.byName /\ h.bornEmpty = st.bornEmpty
  BY <1>3
<1>6. h = [rec |-> h.rec, byName |-> h.byName, tokens |-> h.tokens, bornEmpty |-> h.bornEmpty]
  BY <1>3
<1>. HIDE DEF h
<1>7. Able(h) = Able(st) /\ AdminsOf(h) = AdminsOf(st)
  BY <1>5 DEF Able, AdminsOf
<1>8. Store(h, m)
  BY <1>4, <1>5, <1>6, <1>7 DEF Store
<1>. QED  BY <1>4, <1>5, <1>7, <1>8 DEF h, Grown

LEMMA SetNameKeeps ==
  ASSUME NEW st, NEW m \in Nat, Store(st, m), NEW u \in DOMAIN st.rec, NEW n \in Names
  PROVE  /\ Store(SetName(st, u, n), m) /\ Grown(st, SetName(st, u, n))
         /\ DOMAIN SetName(st, u, n).rec = DOMAIN st.rec
         /\ SetName(st, u, n).tokens = st.tokens
<1>. DEFINE h == SetName(st, u, n)
            r == [st.rec[u] EXCEPT !.name = n]
            B == Unnamed(st, u)
<1>1. st = [rec |-> st.rec, byName |-> st.byName, tokens |-> st.tokens, bornEmpty |-> st.bornEmpty]
  BY DEF Store
<1>2. h = [st EXCEPT !.byName = Put(B, n, u), !.rec = [st.rec EXCEPT ![u] = r]]
  BY DEF SetName
<1>3. st.rec[u] \in Person
  BY DEF Store
<1>4. r \in Person /\ r.name = n /\ r.off = st.rec[u].off /\ r.admin = st.rec[u].admin
  BY <1>3 DEF Person
<1>5. /\ DOMAIN B \subseteq DOMAIN st.byName
      /\ \A x \in DOMAIN B : B[x] = st.byName[x] /\ ~(x = st.rec[u].name /\ st.byName[x] = u)
  BY DEF Unnamed, Without, Restrict
<1>. HIDE DEF r, B
<1>6. h = [rec |-> [st.rec EXCEPT ![u] = r], byName |-> Put(B, n, u),
           tokens |-> st.tokens, bornEmpty |-> st.bornEmpty]
  BY <1>1, <1>2
<1>7. /\ DOMAIN h.rec = DOMAIN st.rec /\ h.rec[u] = r
      /\ \A x \in DOMAIN st.rec : x # u => h.rec[x] = st.rec[x]
  BY <1>6
<1>8. /\ DOMAIN h.byName = DOMAIN B \cup {n} /\ h.byName[n] = u
      /\ \A x \in DOMAIN B : x # n => h.byName[x] = B[x]
  BY <1>6 DEF Put
<1>9. h.tokens = st.tokens /\ h.bornEmpty = st.bornEmpty
  BY <1>6
<1>10. h = [rec |-> h.rec, byName |-> h.byName, tokens |-> h.tokens, bornEmpty |-> h.bornEmpty]
  BY <1>6
<1>. HIDE DEF h
<1>11. DOMAIN h.rec \subseteq Uids /\ \A x \in DOMAIN h.rec : h.rec[x] \in Person
  BY <1>4, <1>7 DEF Store
<1>12. Grown(st, h)
  BY <1>4, <1>7 DEF Grown, Able, AdminsOf
<1>13. \A x \in DOMAIN h.byName : h.byName[x] \in DOMAIN h.rec /\ h.rec[h.byName[x]].name = x
  <2>. SUFFICES ASSUME NEW x \in DOMAIN h.byName
       PROVE  h.byName[x] \in DOMAIN h.rec /\ h.rec[h.byName[x]].name = x
    OBVIOUS
  <2>1. CASE x = n
    BY <2>1, <1>4, <1>7, <1>8
  <2>2. CASE x # n
    <3>1. x \in DOMAIN st.byName /\ h.byName[x] = st.byName[x]
          /\ ~(x = st.rec[u].name /\ st.byName[x] = u)
      BY <2>2, <1>5, <1>8
    <3>2. st.byName[x] \in DOMAIN st.rec /\ st.rec[st.byName[x]].name = x
      BY <3>1 DEF Store
    <3>. QED  BY <3>1, <3>2, <1>7
  <2>. QED  BY <2>1, <2>2
<1>14. /\ DOMAIN h.tokens \subseteq 1..m /\ \A t \in DOMAIN h.tokens : h.tokens[t] \in Able(h)
  BY <1>9, <1>12 DEF Store, Grown
<1>15. h.bornEmpty \in BOOLEAN
  BY <1>9 DEF Store
<1>16. Store(h, m)
  BY <1>10, <1>11, <1>13, <1>14, <1>15 DEF Store
<1>. QED  BY <1>7, <1>9, <1>12, <1>16 DEF h

LEMMA AttachKeeps ==
  ASSUME NEW st, minted \in Nat, Store(st, minted), NEW u \in Able(st)
  PROVE  /\ Store(AttachToken(st, u), minted + 1) /\ AttachToken(st, u).rec = st.rec
         /\ Grown(st, AttachToken(st, u))
<1>. DEFINE h == AttachToken(st, u)
<1>1. st = [rec |-> st.rec, byName |-> st.byName, tokens |-> st.tokens, bornEmpty |-> st.bornEmpty]
  BY DEF Store
<1>2. h = [st EXCEPT !.tokens = Put(st.tokens, minted + 1, u)]
  BY DEF AttachToken
<1>3. h = [rec |-> st.rec, byName |-> st.byName, tokens |-> Put(st.tokens, minted + 1, u), bornEmpty |-> st.bornEmpty]
  BY <1>1, <1>2
<1>4. /\ DOMAIN h.tokens = DOMAIN st.tokens \cup {minted + 1}
      /\ \A t \in DOMAIN h.tokens : h.tokens[t] = u \/ (t \in DOMAIN st.tokens /\ h.tokens[t] = st.tokens[t])
  BY <1>3 DEF Put
<1>5. h.rec = st.rec /\ h.byName = st.byName /\ h.bornEmpty = st.bornEmpty
  BY <1>3
<1>6. h = [rec |-> h.rec, byName |-> h.byName, tokens |-> h.tokens, bornEmpty |-> h.bornEmpty]
  BY <1>3
<1>. HIDE DEF h
<1>7. Able(h) = Able(st) /\ AdminsOf(h) = AdminsOf(st)
  BY <1>5 DEF Able, AdminsOf
<1>8. DOMAIN st.tokens \subseteq 1..minted /\ \A t \in DOMAIN st.tokens : st.tokens[t] \in Able(st)
  BY DEF Store
<1>9. DOMAIN h.tokens \subseteq 1..(minted + 1)
  BY <1>4, <1>8
<1>10. \A t \in DOMAIN h.tokens : h.tokens[t] \in Able(h)
  BY <1>4, <1>7, <1>8
<1>11. Store(h, minted + 1)
  <2>. HIDE DEF Able
  <2>. QED  BY <1>5, <1>6, <1>9, <1>10 DEF Store
<1>. QED  BY <1>5, <1>7, <1>11 DEF h, Grown

LEMMA SignInAsKeeps ==
  ASSUME NEW st, minted \in Nat, Store(st, minted), NEW u \in Uids, NEW n \in Names,
         u \in DOMAIN st.rec => u \in Able(st)
  PROVE  /\ Store(SignInAs(st, u, n), minted + 1) /\ Grown(st, SignInAs(st, u, n))
         /\ DOMAIN SignInAs(st, u, n).rec = DOMAIN st.rec \cup {u}
         /\ u \in Able(SignInAs(st, u, n))
<1>. DEFINE known == [SetName(st, u, n) EXCEPT !.rec[u].gn = FALSE]
            new == [HoldRec(st, u, n) EXCEPT !.rec[u].gn = FALSE]
<1>1. CASE u \in DOMAIN st.rec
  <2>1. SignInAs(st, u, n) = AttachToken(known, u)
    BY <1>1 DEF SignInAs
  <2>2. Store(SetName(st, u, n), minted) /\ Grown(st, SetName(st, u, n))
        /\ DOMAIN SetName(st, u, n).rec = DOMAIN st.rec
    BY <1>1, SetNameKeeps
  <2>3. Store(known, minted) /\ Grown(SetName(st, u, n), known) /\ DOMAIN known.rec = DOMAIN st.rec
    BY <1>1, <2>2, GnKeeps
  <2>. HIDE DEF known
  <2>4. u \in Able(known)
    BY <1>1, <2>2, <2>3 DEF Grown
  <2>5. /\ Store(AttachToken(known, u), minted + 1) /\ AttachToken(known, u).rec = known.rec
        /\ Grown(known, AttachToken(known, u))
    BY <2>3, <2>4, AttachKeeps
  <2>. QED  BY <1>1, <2>1, <2>2, <2>3, <2>4, <2>5 DEF Grown
<1>2. CASE u \notin DOMAIN st.rec
  <2>1. SignInAs(st, u, n) = AttachToken(new, u)
    BY <1>2 DEF SignInAs
  <2>2. Store(HoldRec(st, u, n), minted) /\ Grown(st, HoldRec(st, u, n))
        /\ DOMAIN HoldRec(st, u, n).rec = DOMAIN st.rec \cup {u} /\ u \in Able(HoldRec(st, u, n))
    BY <1>2, HoldRecKeeps
  <2>3. Store(new, minted) /\ Grown(HoldRec(st, u, n), new) /\ DOMAIN new.rec = DOMAIN st.rec \cup {u}
    BY <2>2, GnKeeps
  <2>. HIDE DEF new
  <2>4. u \in Able(new)
    BY <2>2, <2>3 DEF Grown
  <2>5. /\ Store(AttachToken(new, u), minted + 1) /\ AttachToken(new, u).rec = new.rec
        /\ Grown(new, AttachToken(new, u))
    BY <2>3, <2>4, AttachKeeps
  <2>. QED  BY <2>1, <2>2, <2>3, <2>4, <2>5 DEF Grown
<1>. QED  BY <1>1, <1>2

\* Nobody is signed in on a device as the person who goes.
LEMMA RemoveKeeps ==
  ASSUME NEW st, NEW m \in Nat, Store(st, m), NEW u \in DOMAIN st.rec,
         \A t \in DOMAIN st.tokens : st.tokens[t] # u
  PROVE  /\ Store(Remove(st, u), m) /\ DOMAIN Remove(st, u).rec = DOMAIN st.rec \ {u}
         /\ AdminsOf(Remove(st, u)) = AdminsOf(st) \ {u}
         /\ Able(Remove(st, u)) = Able(st) \ {u}
<1>. DEFINE h == Remove(st, u)
            B == Unnamed(st, u)
<1>1. st = [rec |-> st.rec, byName |-> st.byName, tokens |-> st.tokens, bornEmpty |-> st.bornEmpty]
  BY DEF Store
<1>2. h = [st EXCEPT !.byName = B, !.rec = Without(st.rec, {u})]
  BY DEF Remove
<1>3. /\ DOMAIN B \subseteq DOMAIN st.byName
      /\ \A x \in DOMAIN B : B[x] = st.byName[x] /\ ~(x = st.rec[u].name /\ st.byName[x] = u)
  BY DEF Unnamed, Without, Restrict
<1>. HIDE DEF B
<1>4. h = [rec |-> Without(st.rec, {u}), byName |-> B, tokens |-> st.tokens, bornEmpty |-> st.bornEmpty]
  BY <1>1, <1>2
<1>5. /\ DOMAIN h.rec = DOMAIN st.rec \ {u}
      /\ \A x \in DOMAIN h.rec : h.rec[x] = st.rec[x]
  BY <1>4 DEF Without, Restrict
<1>6. h.byName = B /\ h.tokens = st.tokens /\ h.bornEmpty = st.bornEmpty
  BY <1>4
<1>7. h = [rec |-> h.rec, byName |-> h.byName, tokens |-> h.tokens, bornEmpty |-> h.bornEmpty]
  BY <1>4
<1>. HIDE DEF h
<1>8. AdminsOf(h) = AdminsOf(st) \ {u} /\ Able(h) = Able(st) \ {u}
  BY <1>5 DEF AdminsOf, Able
<1>9. \A x \in DOMAIN h.byName : h.byName[x] \in DOMAIN h.rec /\ h.rec[h.byName[x]].name = x
  <2>. SUFFICES ASSUME NEW x \in DOMAIN h.byName
       PROVE  h.byName[x] \in DOMAIN h.rec /\ h.rec[h.byName[x]].name = x
    OBVIOUS
  <2>1. x \in DOMAIN st.byName /\ h.byName[x] = st.byName[x]
        /\ ~(x = st.rec[u].name /\ st.byName[x] = u)
    BY <1>3, <1>6
  <2>2. st.byName[x] \in DOMAIN st.rec /\ st.rec[st.byName[x]].name = x
    BY <2>1 DEF Store
  <2>. QED  BY <2>1, <2>2, <1>5
<1>10. DOMAIN h.tokens \subseteq 1..m /\ \A t \in DOMAIN h.tokens : h.tokens[t] \in Able(h)
  BY <1>6, <1>8 DEF Store
<1>11. DOMAIN h.rec \subseteq Uids /\ \A x \in DOMAIN h.rec : h.rec[x] \in Person
  BY <1>5 DEF Store
<1>12. h.bornEmpty \in BOOLEAN
  BY <1>6 DEF Store
<1>13. Store(h, m)
  BY <1>7, <1>9, <1>10, <1>11, <1>12 DEF Store
<1>. QED  BY <1>5, <1>8, <1>13 DEF h

LEMMA OnKeeps ==
  ASSUME NEW st, NEW m \in Nat, Store(st, m), NEW u \in DOMAIN st.rec,
         NEW h, h = [st EXCEPT !.rec[u].off = FALSE]
  PROVE  Store(h, m) /\ Grown(st, h) /\ DOMAIN h.rec = DOMAIN st.rec
<1>. DEFINE r == [st.rec[u] EXCEPT !.off = FALSE]
<1>1. st = [rec |-> st.rec, byName |-> st.byName, tokens |-> st.tokens, bornEmpty |-> st.bornEmpty]
  BY DEF Store
<1>2. h = [st EXCEPT !.rec = [st.rec EXCEPT ![u] = [st.rec[u] EXCEPT !.off = FALSE]]]
  OBVIOUS
<1>3. st.rec[u] \in Person
  BY DEF Store
<1>4. r \in Person /\ r.name = st.rec[u].name /\ ~r.off /\ r.admin = st.rec[u].admin
  BY <1>3 DEF Person
<1>. HIDE DEF r
<1>5. h.rec = [st.rec EXCEPT ![u] = r] /\ h.tokens = st.tokens
  BY <1>1, <1>2 DEF r
<1>6. h = [rec |-> h.rec, byName |-> st.byName, tokens |-> h.tokens, bornEmpty |-> st.bornEmpty]
  BY <1>1, <1>2
<1>7. Amended(st, h, u, r)
  BY <1>5, <1>6 DEF Amended
<1>8. Store(h, m) /\ Able(st) \subseteq Able(h)
  <2>1. r \in Person /\ r.name = st.rec[u].name /\ (r.off => st.rec[u].off) /\ h.tokens = st.tokens
    BY <1>4, <1>5
  <2>. QED  BY Zenon, <2>1, <1>7, AmendedKeeps
<1>9. AdminsOf(st) \subseteq AdminsOf(h)
  BY <1>4, <1>7 DEF AdminsOf, Amended
<1>. QED  BY <1>7, <1>8, <1>9 DEF Grown, Amended

\* Suspended, and signed out of every device at once.
LEMMA OffKeeps ==
  ASSUME NEW m \in Nat, Store(ids, m), NEW u \in DOMAIN ids.rec,
         NEW st2, st2 = Revoke([ids EXCEPT !.rec[u].off = TRUE], TokensOf(u))
  PROVE  /\ Store(st2, m) /\ DOMAIN st2.rec = DOMAIN ids.rec
         /\ Able(ids) \ {u} \subseteq Able(st2) /\ AdminsOf(st2) = AdminsOf(ids)
<1>. DEFINE h == Revoke([ids EXCEPT !.rec[u].off = TRUE], TokensOf(u))
            r == [ids.rec[u] EXCEPT !.off = TRUE]
            T == TokensOf(u)
<1>1. ids = [rec |-> ids.rec, byName |-> ids.byName, tokens |-> ids.tokens, bornEmpty |-> ids.bornEmpty]
  BY DEF Store
<1>2. [ids EXCEPT !.rec[u].off = TRUE] =
        [rec |-> [ids.rec EXCEPT ![u] = r], byName |-> ids.byName, tokens |-> ids.tokens, bornEmpty |-> ids.bornEmpty]
  <2>1. [ids EXCEPT !.rec[u].off = TRUE] = [ids EXCEPT !.rec = [ids.rec EXCEPT ![u] = r]]
    OBVIOUS
  <2>. HIDE DEF r
  <2>. QED  BY <2>1, <1>1
<1>3. ids.rec[u] \in Person
  BY DEF Store
<1>4. r \in Person /\ r.name = ids.rec[u].name /\ r.admin = ids.rec[u].admin
  BY <1>3 DEF Person
<1>. HIDE DEF r, T
<1>5. h = [rec |-> [ids.rec EXCEPT ![u] = r], byName |-> ids.byName,
           tokens |-> Without(ids.tokens, T), bornEmpty |-> ids.bornEmpty]
  <2>. DEFINE g == [ids EXCEPT !.rec[u].off = TRUE]
  <2>1. h = [g EXCEPT !.tokens = Without(g.tokens, T)]
    BY DEF Revoke, T
  <2>. HIDE DEF g, h
  <2>2. g = [rec |-> [ids.rec EXCEPT ![u] = r], byName |-> ids.byName, tokens |-> ids.tokens, bornEmpty |-> ids.bornEmpty]
    BY <1>2 DEF g
  <2>. QED  BY <2>1, <2>2
<1>6. /\ h.rec = [ids.rec EXCEPT ![u] = r] /\ h.byName = ids.byName
      /\ h.tokens = Without(ids.tokens, T) /\ h.bornEmpty = ids.bornEmpty
  <2>. HIDE DEF h
  <2>. QED  BY <1>5
<1>7. h = [rec |-> h.rec, byName |-> h.byName, tokens |-> h.tokens, bornEmpty |-> h.bornEmpty]
  <2>. HIDE DEF h
  <2>. QED  BY <1>5
<1>. HIDE DEF h
<1>8. /\ DOMAIN h.rec = DOMAIN ids.rec /\ h.rec[u] = r
      /\ \A x \in DOMAIN ids.rec : x # u => h.rec[x] = ids.rec[x]
  BY <1>6
<1>9. /\ DOMAIN h.tokens = DOMAIN ids.tokens \ T
      /\ \A t \in DOMAIN h.tokens : h.tokens[t] = ids.tokens[t]
  BY <1>6 DEF Without, Restrict
<1>10. \A t \in DOMAIN ids.tokens : ids.tokens[t] = u => t \in T
  BY DEF T, TokensOf
<1>11. Able(ids) \ {u} \subseteq Able(h) /\ AdminsOf(h) = AdminsOf(ids)
  BY <1>4, <1>8 DEF Able, AdminsOf
<1>12. DOMAIN h.tokens \subseteq 1..m /\ \A t \in DOMAIN h.tokens : h.tokens[t] \in Able(h)
  <2>1. DOMAIN ids.tokens \subseteq 1..m /\ \A t \in DOMAIN ids.tokens : ids.tokens[t] \in Able(ids)
    BY DEF Store
  <2>. QED  BY <2>1, <1>9, <1>10, <1>11
<1>13. \A n \in DOMAIN h.byName : h.byName[n] \in DOMAIN h.rec /\ h.rec[h.byName[n]].name = n
  <2>1. \A n \in DOMAIN ids.byName :
          ids.byName[n] \in DOMAIN ids.rec /\ ids.rec[ids.byName[n]].name = n
    BY DEF Store
  <2>2. \A x \in DOMAIN ids.rec : h.rec[x].name = ids.rec[x].name
    BY <1>4, <1>8
  <2>3. \A n \in DOMAIN h.byName : h.byName[n] = ids.byName[n] /\ n \in DOMAIN ids.byName
    BY <1>6
  <2>. QED  BY <2>1, <2>2, <2>3, <1>8
<1>14. DOMAIN h.rec \subseteq Uids /\ \A x \in DOMAIN h.rec : h.rec[x] \in Person
  BY <1>4, <1>8 DEF Store
<1>15. h.bornEmpty \in BOOLEAN
  BY <1>6 DEF Store
<1>16. Store(h, m)
  BY <1>7, <1>12, <1>13, <1>14, <1>15 DEF Store
<1>. QED  BY <1>8, <1>11, <1>16 DEF h

\* A server keeps an administrator when the one who goes is not the last.
LEMMA NotTheLast ==
  ASSUME NEW u, ~WouldOrphan(u), AdminsOf(ids) # {}
  PROVE  AdminsOf(ids) \ {u} # {}
<1>. SUFFICES ASSUME AdminsOf(ids) = {u}  PROVE FALSE
  OBVIOUS
<1>1. Cardinality({u}) = 1
  BY FS_Singleton
<1>. QED  BY <1>1 DEF WouldOrphan, Admins

-----------------------------------------------------------------------------
(* What a step that leaves a part alone keeps of it.                       *)

\* The next state's store, and nobody in it without a uid of theirs.
KeptNext == Store(ids', minted') /\ DOMAIN ids'.rec \subseteq issued' \cup GameNight

\* Whoever administers the server and may sign in still does.
FitStay == AdminsOf(ids) \cap Able(ids) \subseteq AdminsOf(ids') \cap Able(ids')

LEMMA NextStore ==
  ASSUME KeptNext  PROVE Kept'
  BY DEF KeptNext, Kept, Given

LEMMA KeptFrame ==
  ASSUME Kept, UNCHANGED <<ids, minted>>, issued \subseteq issued'
  PROVE  Kept' /\ Stays /\ FitStay
<1>1. Kept'
  BY DEF Kept, Given
<1>. QED  BY <1>1 DEF Stays, FitStay

LEMMA PartialMore ==
  ASSUME NEW f, NEW S, NEW T, NEW T2, PartialTo(f, S, T), T \subseteq T2
  PROVE  PartialTo(f, S, T2)
  BY DEF PartialTo

LEMMA OwnedFrame ==
  ASSUME Owned, UNCHANGED accounts, issued \subseteq issued', issued' \subseteq Uids,
         minted' \in 0..MaxTokens
  PROVE  Owned'
<1>1. PartialTo(account, Names, Given') /\ PartialTo(pending, Names, Given')
  <2>1. Given \subseteq Given'
    BY DEF Given
  <2>. QED  BY <2>1, PartialMore DEF Owned
<1>. QED  BY <1>1 DEF Owned, accounts

\* One connection's data, in the next state.
Sound(d) ==
  /\ d \in Device' /\ d.uid \in Given' \cup {None}
  /\ d.up /\ d.admin /\ d.uid # None => d.uid \in AdminsOf(ids') \cap Able(ids')

LEMMA TabsNext ==
  ASSUME NEW f, sock' = [s \in Sockets |-> f[s]], \A s \in Sockets : Sound(f[s])
  PROVE  Tabs'
<1>1. sock' \in [Sockets -> Device']
  BY DEF Sound
<1>2. \A s \in Sockets : sock'[s] = f[s]
  OBVIOUS
<1>. QED  BY <1>1, <1>2 DEF Tabs, Sound

LEMMA StillSound ==
  ASSUME Tabs, minted \in Nat, minted' \in Nat, minted <= minted', issued \subseteq issued', FitStay,
         NEW s \in Sockets
  PROVE  Sound(sock[s])
<1>1. sock[s] \in Device'
  BY DEF Tabs, Device
<1>2. sock[s].uid \in Given' \cup {None}
  BY DEF Tabs, Given
<1>. QED  BY <1>1, <1>2 DEF Tabs, Sound, FitStay

LEMMA TabsFrame ==
  ASSUME Tabs, minted \in Nat, minted' \in Nat, minted <= minted', issued \subseteq issued', FitStay,
         UNCHANGED sock
  PROVE  Tabs'
<1>1. \A s \in Sockets : Sound(sock[s])
  BY StillSound
<1>2. sock = [s \in Sockets |-> sock[s]]
  BY DEF Tabs
<1>. QED  BY <1>1, <1>2, TabsNext

LEMMA WaitsFrame ==
  ASSUME Waits, UNCHANGED <<job, claiming>>, issued \subseteq issued'
  PROVE  Waits'
  BY DEF Waits, Given, Wait

LEMMA AskWaits ==
  ASSUME Waits, NEW s \in Sockets, NEW kind \in {"sign-up", "sign-in", "claim"},
         NEW u \in Given \cup {None}, NEW n \in Names, Ask(s, kind, u, n),
         kind = "sign-in" => u # None, issued' = issued, u \in Uids \cup {None},
         IF kind = "claim" THEN ~claiming /\ claiming' = TRUE ELSE claiming' = claiming
  PROVE  Waits'
<1>. DEFINE w == [kind |-> kind, uid |-> u, name |-> n]
<1>1. job' = [job EXCEPT ![s] = w] /\ job[s] = Idle
  BY DEF Ask, Hashing
<1>2. w \in Wait /\ w.kind = kind /\ w.uid = u /\ w.name = n
  BY DEF Wait
<1>. HIDE DEF w
<1>3. job' \in [Sockets -> Wait] /\ job'[s] = w /\ \A o \in Sockets \ {s} : job'[o] = job[o]
  BY <1>1, <1>2 DEF Waits
<1>4. job[s].kind = "none"
  BY <1>1 DEF Idle
<1>5. claiming' \in BOOLEAN
  BY DEF Waits
<1>6. \A o \in Sockets : job'[o].uid \in Given' \cup {None}
  BY <1>2, <1>3 DEF Waits, Given
<1>7. \A o \in Sockets : (job'[o].kind # "none" => job'[o].name \in Names)
                         /\ (job'[o].kind = "sign-in" => job'[o].uid # None)
  BY <1>2, <1>3 DEF Waits
<1>8. \A o \in Sockets : job'[o].kind = "claim" => claiming'
  BY <1>2, <1>3 DEF Waits
<1>9. \A o, p \in Sockets : job'[o].kind = "claim" /\ job'[p].kind = "claim" => o = p
  BY <1>2, <1>3 DEF Waits
<1>10. claiming' => \E o \in Sockets : job'[o].kind = "claim"
  <2>1. CASE kind = "claim"
    BY <2>1, <1>2, <1>3
  <2>2. CASE kind # "claim"
    BY <2>2, <1>3, <1>4 DEF Waits
  <2>. QED  BY <2>1, <2>2
<1>. QED  BY <1>3, <1>5, <1>6, <1>7, <1>8, <1>9, <1>10 DEF Waits, Wait

LEMMA AnswerWaits ==
  ASSUME Waits, NEW s \in Sockets, NEW kind \in {"sign-up", "sign-in", "claim"},
         Answer(s, kind), issued \subseteq issued',
         claiming' = IF kind = "claim" THEN FALSE ELSE claiming
  PROVE  Waits'
<1>1. job' = [job EXCEPT ![s] = Idle] /\ job[s].kind = kind
  BY DEF Answer
<1>2. Idle \in Wait /\ Idle.kind = "none" /\ Idle.uid = None
  BY DEF Wait, Idle
<1>3. job' \in [Sockets -> Wait] /\ job'[s] = Idle /\ \A o \in Sockets \ {s} : job'[o] = job[o]
  BY <1>1, <1>2 DEF Waits
<1>5. claiming' \in BOOLEAN
  BY DEF Waits
<1>6. \A o \in Sockets : job'[o].uid \in Given' \cup {None}
  BY <1>2, <1>3 DEF Waits, Given
<1>7. \A o \in Sockets : (job'[o].kind # "none" => job'[o].name \in Names)
                         /\ (job'[o].kind = "sign-in" => job'[o].uid # None)
  BY <1>2, <1>3 DEF Waits
<1>8. \A o \in Sockets : job'[o].kind = "claim" => claiming'
  BY <1>1, <1>2, <1>3 DEF Waits
<1>9. \A o, p \in Sockets : job'[o].kind = "claim" /\ job'[p].kind = "claim" => o = p
  BY <1>2, <1>3 DEF Waits
<1>10. claiming' => \E o \in Sockets : job'[o].kind = "claim"
  BY <1>1, <1>3 DEF Waits
<1>. QED  BY <1>3, <1>5, <1>6, <1>7, <1>8, <1>9, <1>10 DEF Waits, Wait

LEMMA FreshIsNew ==
  ASSUME Kept, AnyFresh
  PROVE  Fresh \in Locals \ issued /\ Fresh \in Uids /\ Fresh \notin DOMAIN ids.rec
<1>1. Fresh \in Locals \ issued
  BY DEF AnyFresh, Fresh
<1>. QED  BY <1>1, PeopleAssumption DEF Kept, Given, Uids

-----------------------------------------------------------------------------
(* The steps.                                                              *)

\* What every step owes.
Safe == Ind' /\ Stays

LEMMA Bounds ==
  ASSUME Ind  PROVE minted \in Nat /\ issued \subseteq Uids
  BY PeopleAssumption DEF Ind, Owned

\* A step of a connection only: nobody's record, account or wait is touched.
LEMMA OnlySock ==
  ASSUME Ind, UNCHANGED <<ids, accounts, job, claiming, issued, minted>>,
         NEW f, sock' = [s \in Sockets |-> f[s]],
         FitStay => \A s \in Sockets : Sound(f[s])
  PROVE  Safe
<1>1. Kept' /\ Stays /\ FitStay
  BY KeptFrame DEF Ind
<1>2. Tabs'
  BY <1>1, TabsNext
<1>3. Owned'
  BY OwnedFrame, Bounds DEF Ind, Owned
<1>4. Waits'
  BY WaitsFrame DEF Ind
<1>. QED  BY <1>1, <1>2, <1>3, <1>4 DEF Safe, Ind

\* One connection is as d, the rest are as they were.
LEMMA OneSock ==
  ASSUME Ind, UNCHANGED <<ids, accounts, job, claiming, issued, minted>>,
         NEW s \in Sockets, NEW d, sock' = [sock EXCEPT ![s] = d], FitStay => Sound(d)
  PROVE  Safe
<1>1. sock' = [o \in Sockets |-> [sock EXCEPT ![s] = d][o]]
  BY DEF Ind, Tabs
<1>2. ASSUME FitStay, NEW o \in Sockets  PROVE Sound([sock EXCEPT ![s] = d][o])
  <2>1. Sound(sock[o])
    BY <1>2, StillSound, Bounds DEF Ind
  <2>2. [sock EXCEPT ![s] = d][o] = IF o = s THEN d ELSE sock[o]
    BY DEF Ind, Tabs
  <2>. QED  BY <1>2, <2>1, <2>2
<1>. QED  BY <1>1, <1>2, OnlySock

LEMMA NobodySound == Sound(Nobody)
  BY DEF Sound, Nobody, Device

LEMMA DisconnectKeeps ==
  ASSUME Ind, NEW s \in Sockets, Disconnect(s)  PROVE Safe
<1>1. sock' = [sock EXCEPT ![s] = [sock[s] EXCEPT !.up = FALSE]]
  BY DEF Disconnect
<1>2. ASSUME FitStay  PROVE Sound([sock[s] EXCEPT !.up = FALSE])
  <2>1. Sound(sock[s])
    BY <1>2, StillSound, Bounds DEF Ind, Disconnect
  <2>. QED  BY <2>1 DEF Sound, Device
<1>. QED  BY <1>1, <1>2, OneSock DEF Disconnect

LEMMA ConnectKeeps ==
  ASSUME Ind, NEW s \in Sockets, Connect(s)  PROVE Safe
<1>1. PICK d \in {Nobody, Recovered(sock[s])} : sock' = [sock EXCEPT ![s] = d]
  BY DEF Connect
<1>2. ASSUME FitStay  PROVE Sound(d)
  <2>1. Sound(sock[s])
    BY <1>2, StillSound, Bounds DEF Ind, Connect
  <2>2. Sound(Recovered(sock[s]))
    BY <2>1 DEF Sound, Device, Recovered
  <2>. QED  BY <2>2, NobodySound
<1>. QED  BY <1>1, <1>2, OneSock DEF Connect

\* Signed in as somebody who may be.
LEMMA AsSound ==
  ASSUME NEW u \in Able(ids'), u \in Uids, u \in Given', NEW t \in 1..minted',
         NEW st, AdminsOf(st) \subseteq AdminsOf(ids')
  PROVE  Sound(As(u, t, st))
<1>1. As(u, t, st) = [up |-> TRUE, uid |-> u, token |-> t, admin |-> u \in AdminsOf(st)]
  BY DEF As
<1>. DEFINE b == u \in AdminsOf(st)
<1>2. b \in BOOLEAN /\ (b => u \in AdminsOf(ids'))
  OBVIOUS
<1>. HIDE DEF b
<1>3. As(u, t, st) = [up |-> TRUE, uid |-> u, token |-> t, admin |-> b]
  BY <1>1 DEF b
<1>4. As(u, t, st) \in Device'
  BY <1>2, <1>3 DEF Device
<1>. QED  BY <1>2, <1>3, <1>4 DEF Sound

LEMMA IdentifyKeeps ==
  ASSUME Ind, NEW s \in Sockets, NEW t, Identify(s, t)  PROVE Safe
<1>1. t \in DOMAIN ids.tokens /\ sock' = [sock EXCEPT ![s] = As(ids.tokens[t], t, ids)]
  BY DEF Identify
<1>2. t \in 1..minted /\ ids.tokens[t] \in Able(ids)
  BY <1>1 DEF Ind, Kept, Store
<1>3. ids' = ids /\ minted' = minted /\ issued' = issued
  BY DEF Identify
<1>4. ids.tokens[t] \in Uids /\ ids.tokens[t] \in Given
  BY <1>2 DEF Able, Ind, Kept, Store
<1>5. Sound(As(ids.tokens[t], t, ids))
  BY <1>2, <1>3, <1>4, AsSound DEF Given
<1>. QED  BY <1>1, <1>5, OneSock DEF Identify

\* A step that changes the store and one connection, or none.
LEMMA StoreAndSock ==
  ASSUME Ind, Kept', FitStay, Stays, Owned', Waits', minted <= minted', minted' \in Nat,
         issued \subseteq issued',
         \/ UNCHANGED sock
         \/ \E s \in Sockets : \E d : Sound(d) /\ sock' = [sock EXCEPT ![s] = d]
  PROVE  Safe
<1>1. \A o \in Sockets : Sound(sock[o])
  BY StillSound, Bounds DEF Ind
<1>2. CASE UNCHANGED sock
  BY <1>2, TabsFrame, Bounds DEF Ind, Safe
<1>3. ASSUME NEW s \in Sockets, NEW d, Sound(d), sock' = [sock EXCEPT ![s] = d]  PROVE Safe
  <2>1. sock' = [o \in Sockets |-> [sock EXCEPT ![s] = d][o]]
    BY <1>3 DEF Ind, Tabs
  <2>2. \A o \in Sockets : [sock EXCEPT ![s] = d][o] = IF o = s THEN d ELSE sock[o]
    BY DEF Ind, Tabs
  <2>3. \A o \in Sockets : Sound([sock EXCEPT ![s] = d][o])
    BY <1>1, <1>3, <2>2
  <2>4. Tabs'
    BY <2>1, <2>3, TabsNext
  <2>. QED  BY <2>4 DEF Safe, Ind
<1>. QED  BY <1>2, <1>3

LEMMA GrownStays ==
  ASSUME Grown(ids, ids')  PROVE Stays /\ FitStay
<1>1. AdminsOf(ids') = AdminsOf(ids)'
  BY DEF AdminsOf
<1>. QED  BY <1>1 DEF Grown, Stays, FitStay

LEMMA NamesGiven ==
  ASSUME Kept, NEW u \in Uids, NEW w \in Names, NEW n \in GameNightNames(w, u)
  PROVE  n \in Names
<1>1. Known(u) => ids.rec[u].name \in Names
  BY DEF Known, Kept, Store, Person
<1>. QED  BY <1>1 DEF GameNightNames

LEMMA GameNightRecordKeeps ==
  ASSUME Ind, NEW u \in GameNight, NEW n \in Names
  PROVE  /\ Store(GameNightRecord(u, n), minted) /\ Grown(ids, GameNightRecord(u, n))
         /\ DOMAIN GameNightRecord(u, n).rec = DOMAIN ids.rec \cup {u}
         /\ MaySignIn(u) => u \in Able(GameNightRecord(u, n))
<1>1. u \in Uids /\ minted \in Nat /\ Store(ids, minted)
  BY Bounds DEF Uids, Ind, Kept
<1>2. CASE Known(u)
  <2>1. GameNightRecord(u, n) = SetName(ids, u, n) /\ u \in DOMAIN ids.rec
    BY <1>2 DEF GameNightRecord, Known
  <2>2. /\ Store(SetName(ids, u, n), minted) /\ Grown(ids, SetName(ids, u, n))
        /\ DOMAIN SetName(ids, u, n).rec = DOMAIN ids.rec
    BY <1>1, <2>1, SetNameKeeps
  <2>3. MaySignIn(u) => u \in Able(ids)
    BY <1>2 DEF MaySignIn, Welcome, Able, Known
  <2>. QED  BY <2>1, <2>2, <2>3 DEF Grown
<1>3. CASE ~Known(u)
  <2>1. GameNightRecord(u, n) = HoldRec(ids, u, n) /\ u \in Uids \ DOMAIN ids.rec
    BY <1>1, <1>3 DEF GameNightRecord, Known
  <2>2. /\ Store(HoldRec(ids, u, n), minted) /\ Grown(ids, HoldRec(ids, u, n))
        /\ DOMAIN HoldRec(ids, u, n).rec = DOMAIN ids.rec \cup {u}
        /\ u \in Able(HoldRec(ids, u, n))
    BY <1>1, <2>1, HoldRecKeeps
  <2>. QED  BY <2>1, <2>2
<1>. QED  BY <1>2, <1>3

LEMMA ReleasedPartial ==
  ASSUME Owned, NEW n, NEW u  PROVE PartialTo(Released(n, u), Names, Given)
  BY WithoutPartial DEF Released, Owned

LEMMA IdentifyFromGameNightKeeps ==
  ASSUME Ind, NEW s \in Sockets, NEW u \in GameNight, NEW w \in Names,
         IdentifyFromGameNight(s, u, w)
  PROVE  Safe
<1>1. PICK n \in GameNightNames(w, u) :
        ids' = AttachToken(GameNightRecord(u, n), u) /\ pending' = Released(n, u)
  BY DEF IdentifyFromGameNight
<1>2. /\ MaySignIn(u) /\ minted < MaxTokens /\ minted' = minted + 1
      /\ sock' = [sock EXCEPT ![s] = As(u, minted + 1, ids')]
      /\ UNCHANGED <<account, job, claiming, issued>>
  BY DEF IdentifyFromGameNight
<1>3. u \in Uids /\ u \in Given /\ minted \in 0..MaxTokens /\ minted \in Nat
  BY Bounds DEF Uids, Given, Ind, Owned
<1>4. n \in Names
  BY <1>3, NamesGiven DEF Ind
<1>. DEFINE g == GameNightRecord(u, n)
<1>5. /\ Store(g, minted) /\ Grown(ids, g) /\ DOMAIN g.rec = DOMAIN ids.rec \cup {u} /\ u \in Able(g)
  BY <1>2, <1>4, GameNightRecordKeeps
<1>. HIDE DEF g
<1>6. /\ Store(AttachToken(g, u), minted + 1) /\ AttachToken(g, u).rec = g.rec
      /\ Grown(g, AttachToken(g, u))
  BY <1>3, <1>5, AttachKeeps
<1>7. ids' = AttachToken(g, u)
  BY <1>1 DEF g
<1>8. Kept'
  <2>1. DOMAIN ids'.rec \subseteq issued' \cup GameNight
    BY <1>2, <1>5, <1>6, <1>7 DEF Ind, Kept, Given
  <2>2. Store(ids', minted')
    BY <1>2, <1>6, <1>7
  <2>. QED  BY <2>1, <2>2, NextStore DEF KeptNext
<1>9. Grown(ids, ids') /\ u \in Able(ids')
  BY <1>5, <1>6, <1>7 DEF Grown
<1>10. Owned'
  <2>1. PartialTo(pending', Names, Given)
    BY <1>1, ReleasedPartial DEF Ind
  <2>2. minted' \in 0..MaxTokens /\ Given' = Given
    BY <1>2, <1>3, PeopleAssumption DEF Given
  <2>. QED  BY <1>2, <2>1, <2>2 DEF Owned, Ind
<1>11. Waits'
  BY <1>2, WaitsFrame DEF Ind
<1>12. Sound(As(u, minted + 1, ids'))
  <2>1. minted + 1 \in 1..minted' /\ u \in Given'
    BY <1>2, <1>3 DEF Given
  <2>. QED  BY <1>3, <1>9, <2>1, AsSound
<1>13. minted <= minted' /\ minted' \in Nat /\ issued \subseteq issued'
  BY <1>2, <1>3
<1>. QED  BY <1>2, <1>8, <1>9, <1>10, <1>11, <1>12, <1>13, GrownStays, StoreAndSock

LEMMA ReserveKeeps ==
  ASSUME Ind, NEW u \in GameNight, NEW w \in Names, ReserveFromGameNight(u, w)  PROVE Safe
<1>1. PICK n \in GameNightNames(w, u) :
        ids' = GameNightRecord(u, n) /\ pending' = Released(n, u)
  BY DEF ReserveFromGameNight
<1>2. UNCHANGED <<account, sock, job, claiming, issued, minted>>
  BY DEF ReserveFromGameNight
<1>3. u \in Uids /\ minted \in Nat
  BY Bounds DEF Uids
<1>4. n \in Names
  BY <1>3, NamesGiven DEF Ind
<1>5. /\ Store(ids', minted) /\ Grown(ids, ids') /\ DOMAIN ids'.rec = DOMAIN ids.rec \cup {u}
  BY <1>1, <1>4, GameNightRecordKeeps
<1>6. Kept'
  BY <1>2, <1>5, NextStore DEF KeptNext, Ind, Kept, Given
<1>7. Owned'
  <2>1. PartialTo(pending', Names, Given)
    BY <1>1, ReleasedPartial DEF Ind
  <2>2. Given' = Given
    BY <1>2 DEF Given
  <2>. QED  BY <1>2, <2>1, <2>2 DEF Owned, Ind
<1>8. Waits'
  BY <1>2, WaitsFrame DEF Ind
<1>. QED  BY <1>2, <1>3, <1>5, <1>6, <1>7, <1>8, GrownStays, StoreAndSock

LEMMA GuestKeeps ==
  ASSUME Ind, NEW s \in Sockets, NEW n \in Names, GuestJoinViaCode(s, n)  PROVE Safe
<1>. DEFINE u == Fresh
            h == HoldRec(ids, u, n)
<1>1. /\ AnyFresh /\ minted < MaxTokens /\ ids' = AttachToken(h, u)
      /\ issued' = issued \cup {u} /\ minted' = minted + 1
      /\ sock' = [sock EXCEPT ![s] = As(u, minted + 1, ids')]
      /\ UNCHANGED <<accounts, job, claiming>>
  BY DEF GuestJoinViaCode, CreateGuest
<1>2. u \in Locals \ issued /\ u \in Uids \ DOMAIN ids.rec
  BY <1>1, FreshIsNew DEF Ind
<1>. HIDE DEF u
<1>3. minted \in 0..MaxTokens /\ minted \in Nat /\ issued \subseteq Uids
  BY Bounds DEF Ind, Owned
<1>5. /\ Store(h, minted) /\ Grown(ids, h) /\ DOMAIN h.rec = DOMAIN ids.rec \cup {u} /\ u \in Able(h)
  BY <1>2, <1>3, HoldRecKeeps DEF Ind, Kept
<1>. HIDE DEF h
<1>6. /\ Store(AttachToken(h, u), minted + 1) /\ AttachToken(h, u).rec = h.rec
      /\ Grown(h, AttachToken(h, u))
  BY <1>3, <1>5, AttachKeeps
<1>8. Kept'
  <2>1. DOMAIN ids'.rec \subseteq issued' \cup GameNight
    BY <1>1, <1>5, <1>6 DEF Ind, Kept, Given
  <2>2. Store(ids', minted')
    BY <1>1, <1>6
  <2>. QED  BY <2>1, <2>2, NextStore DEF KeptNext
<1>9. Grown(ids, ids') /\ u \in Able(ids')
  BY <1>1, <1>5, <1>6 DEF Grown
<1>10. Owned'
  <2>1. minted' \in 0..MaxTokens
    BY <1>1, <1>3, PeopleAssumption
  <2>. QED  BY <1>1, <1>2, <1>3, <2>1, OwnedFrame DEF Ind
<1>11. Waits'
  BY <1>1, WaitsFrame DEF Ind
<1>12. Sound(As(u, minted + 1, ids'))
  <2>1. minted + 1 \in 1..minted' /\ u \in Given'
    BY <1>1, <1>3 DEF Given
  <2>. QED  BY <1>2, <1>9, <2>1, AsSound
<1>13. minted <= minted' /\ minted' \in Nat /\ issued \subseteq issued'
  BY <1>1, <1>3
<1>. QED  BY <1>1, <1>8, <1>9, <1>10, <1>11, <1>12, <1>13, GrownStays, StoreAndSock

\* Devices are ended: nobody's record changes.
LEMMA RevokedKeeps ==
  ASSUME Ind, NEW T, ids' = Revoke(ids, T), UNCHANGED <<accounts, job, claiming, issued, minted>>
  PROVE  Kept' /\ Stays /\ FitStay /\ Owned' /\ Waits'
<1>1. /\ Store(ids', minted) /\ ids'.rec = ids.rec /\ Grown(ids, ids')
  BY RevokeKeeps, Bounds DEF Ind, Kept
<1>2. Kept'
  BY <1>1, NextStore DEF KeptNext, Ind, Kept, Given
<1>3. Owned'
  BY OwnedFrame, Bounds DEF Ind, Owned
<1>4. Waits'
  BY WaitsFrame DEF Ind
<1>. QED  BY <1>1, <1>2, <1>3, <1>4, GrownStays

LEMMA EndSessionKeeps ==
  ASSUME Ind, NEW s \in Sockets, NEW t, EndSession(s, t)  PROVE Safe
<1>. DEFINE f == [o \in Sockets |-> IF o \in Live /\ sock[o].token = t
                                   THEN [sock[o] EXCEPT !.uid = None, !.token = None] ELSE sock[o]]
<1>1. /\ ids' = Revoke(ids, {t}) /\ sock' = f
      /\ UNCHANGED <<accounts, job, claiming, issued, minted>>
  BY DEF EndSession
<1>2. Kept' /\ Stays /\ FitStay /\ Owned' /\ Waits'
  BY <1>1, RevokedKeeps
<1>3. \A o \in Sockets : Sound(f[o])
  <2>. SUFFICES ASSUME NEW o \in Sockets  PROVE Sound(f[o])
    OBVIOUS
  <2>0. Tabs /\ minted \in Nat /\ minted' \in Nat /\ minted <= minted' /\ issued \subseteq issued'
    <3>. HIDE DEF f
    <3>. QED  BY <1>1, Bounds DEF Ind
  <2>1. Sound(sock[o])
    BY <1>2, <2>0, StillSound
  <2>2. Sound([sock[o] EXCEPT !.uid = None, !.token = None])
    BY <2>1 DEF Sound, Device
  <2>. QED  BY <2>1, <2>2
<1>4. sock' = [o \in Sockets |-> f[o]]
  BY <1>1
<1>. HIDE DEF f
<1>5. Tabs'
  BY <1>3, <1>4, TabsNext
<1>. QED  BY <1>2, <1>5 DEF Safe, Ind

LEMMA SignOutKeeps ==
  ASSUME Ind, NEW s \in Sockets, SignOut(s)  PROVE Safe
<1>. DEFINE d == [sock[s] EXCEPT !.uid = None, !.token = None]
<1>1. /\ ids' = Revoke(ids, {sock[s].token})
      /\ UNCHANGED <<accounts, job, claiming, issued, minted>>
  BY DEF SignOut
<1>2. Kept' /\ Stays /\ FitStay /\ Owned' /\ Waits'
  BY <1>1, RevokedKeeps
<1>3. sock' = [sock EXCEPT ![s] = d]
  BY DEF SignOut, Ind, Tabs
<1>4. Sound(d)
  <2>1. Sound(sock[s])
    BY <1>1, <1>2, StillSound, Bounds DEF Ind
  <2>. QED  BY <2>1 DEF Sound, Device
<1>. HIDE DEF d
<1>5. minted <= minted' /\ minted' \in Nat /\ issued \subseteq issued'
  BY <1>1, Bounds
<1>. QED  BY <1>2, <1>3, <1>4, <1>5, StoreAndSock

LEMMA ExpireKeeps ==
  ASSUME Ind, NEW t, ExpireDevices(t)  PROVE Safe
<1>1. Kept' /\ Stays /\ FitStay /\ Owned' /\ Waits'
  BY RevokedKeeps DEF ExpireDevices
<1>2. minted <= minted' /\ minted' \in Nat /\ issued \subseteq issued'
  BY Bounds DEF ExpireDevices
<1>. QED  BY <1>1, <1>2, StoreAndSock DEF ExpireDevices

\* A step that touches neither the store nor a connection.
LEMMA OnlyAccounts ==
  ASSUME Ind, UNCHANGED <<ids, sock, minted>>, issued \subseteq issued', Owned', Waits'
  PROVE  Safe
<1>1. Kept' /\ Stays /\ FitStay
  BY KeptFrame DEF Ind
<1>2. minted <= minted' /\ minted' \in Nat
  BY Bounds
<1>. QED  BY <1>1, <1>2, StoreAndSock

LEMMA UidsKnown ==
  ASSUME Ind, NEW s \in Sockets
  PROVE  /\ sock[s].uid \in Given \cup {None} /\ sock[s].uid \in Uids \cup {None}
         /\ job[s].uid \in Given \cup {None} /\ job[s].uid \in Uids \cup {None}
         /\ job[s].kind # "none" => job[s].name \in Names
         /\ job[s].kind = "sign-in" => job[s].uid # None
  BY DEF Ind, Tabs, Waits, Device, Wait

LEMMA StartSignUpKeeps ==
  ASSUME Ind, NEW s \in Sockets, NEW n \in Names, StartSignUp(s, n)  PROVE Safe
<1>1. /\ Ask(s, "sign-up", sock[s].uid, n)
      /\ UNCHANGED <<ids, accounts, sock, claiming, issued, minted>>
  BY DEF StartSignUp
<1>2. Waits'
  BY <1>1, UidsKnown, AskWaits DEF Ind
<1>3. Owned'
  BY <1>1, OwnedFrame, Bounds DEF Ind, Owned
<1>. QED  BY <1>1, <1>2, <1>3, OnlyAccounts

LEMMA SignInKeeps ==
  ASSUME Ind, NEW s \in Sockets, NEW n \in Names, SignIn(s, n)  PROVE Safe
<1>1. /\ n \in DOMAIN account /\ Ask(s, "sign-in", account[n], n)
      /\ UNCHANGED <<ids, accounts, sock, claiming, issued, minted>>
  BY DEF SignIn
<1>2. account[n] \in Given /\ account[n] \in Uids /\ account[n] # None
  BY <1>1, PeopleAssumption DEF Ind, Owned, PartialTo, Range, Given, Uids
<1>3. Waits'
  BY <1>1, <1>2, AskWaits DEF Ind
<1>4. Owned'
  BY <1>1, OwnedFrame, Bounds DEF Ind, Owned
<1>. QED  BY <1>1, <1>3, <1>4, OnlyAccounts

LEMMA ClaimServerKeeps ==
  ASSUME Ind, NEW s \in Sockets, NEW n \in Names, ClaimServer(s, n)  PROVE Safe
<1>1. /\ ~claiming /\ claiming' = TRUE /\ Ask(s, "claim", sock[s].uid, n)
      /\ UNCHANGED <<ids, accounts, sock, issued, minted>>
  BY DEF ClaimServer
<1>2. Waits'
  BY <1>1, UidsKnown, AskWaits DEF Ind
<1>3. Owned'
  BY <1>1, OwnedFrame, Bounds DEF Ind, Owned
<1>. QED  BY <1>1, <1>2, <1>3, OnlyAccounts

LEMMA UidForIsGiven ==
  ASSUME Ind, NEW s \in Sockets, job[s].uid = None => AnyFresh
  PROVE  UidFor(job[s].uid) \in Uids
         /\ UidFor(job[s].uid) \in issued \cup {UidFor(job[s].uid)} \cup GameNight
<1>1. CASE job[s].uid = None
  BY <1>1, FreshIsNew DEF UidFor, Ind
<1>2. CASE job[s].uid # None
  BY <1>2, UidsKnown DEF UidFor
<1>. QED  BY <1>1, <1>2

LEMMA SignUpHashedKeeps ==
  ASSUME Ind, NEW s \in Sockets, SignUpHashed(s)  PROVE Safe
<1>. DEFINE u == UidFor(job[s].uid)
<1>1. /\ Answer(s, "sign-up") /\ (job[s].uid = None => AnyFresh)
      /\ pending' = Put(pending, job[s].name, u) /\ issued' = issued \cup {u}
      /\ UNCHANGED <<ids, account, sock, claiming, minted>>
  BY DEF SignUpHashed
<1>2. u \in Uids
  BY <1>1, UidForIsGiven
<1>3. job[s].name \in Names
  BY <1>1, UidsKnown DEF Answer
<1>. HIDE DEF u
<1>4. Waits'
  BY <1>1, AnswerWaits DEF Ind
<1>5. Owned'
  <2>1. PartialTo(account, Names, Given') /\ PartialTo(pending, Names, Given') /\ u \in Given'
    <3>1. Given \subseteq Given' /\ u \in Given'
      BY <1>1 DEF Given
    <3>. QED  BY <3>1, PartialMore DEF Ind, Owned
  <2>2. PartialTo(pending', Names, Given')
    BY <1>1, <1>3, <2>1, PutPartial
  <2>. QED  BY <1>1, <1>2, <2>1, <2>2 DEF Owned, Ind
<1>. QED  BY <1>1, <1>4, <1>5, OnlyAccounts

LEMMA LapseKeeps ==
  ASSUME Ind, NEW n \in Names, Lapse(n)  PROVE Safe
<1>1. pending' = Without(pending, {n}) /\ UNCHANGED <<ids, account, sock, job, claiming, issued, minted>>
  BY DEF Lapse
<1>2. Owned'
  BY <1>1, WithoutPartial DEF Ind, Owned, Given
<1>3. Waits'
  BY <1>1, WaitsFrame DEF Ind
<1>. QED  BY <1>1, <1>2, <1>3, OnlyAccounts

LEMMA PromoteOwned ==
  ASSUME Ind, NEW n \in Names, Promote(n), UNCHANGED <<issued, minted>>
  PROVE  Owned' /\ pending[n] \in Given /\ pending[n] \in Uids
<1>1. n \in DOMAIN pending /\ pending' = Without(pending, {n})
  BY DEF Promote
<1>2. pending[n] \in Given
  BY <1>1 DEF Ind, Owned, PartialTo, Range
<1>3. pending[n] \in Uids
  BY <1>2 DEF Given, Uids, Ind, Owned
<1>4. PartialTo(pending', Names, Given)
  BY <1>1, WithoutPartial DEF Ind, Owned
<1>5. PartialTo(account', Names, Given)
  <2>1. account' = Put(account, n, pending[n]) \/ account' = account
    BY DEF Promote
  <2>. QED  BY <1>2, <2>1, PutPartial DEF Ind, Owned
<1>6. Given' = Given
  BY DEF Given
<1>. QED  BY <1>2, <1>3, <1>4, <1>5, <1>6 DEF Owned, Ind

LEMMA CompleteSignUpKeeps ==
  ASSUME Ind, NEW n \in Names, CompleteSignUp(n)  PROVE Safe
<1>1. Promote(n) /\ UNCHANGED <<ids, sock, job, claiming, issued, minted>>
  BY DEF CompleteSignUp
<1>2. Owned'
  BY <1>1, PromoteOwned
<1>3. Waits'
  BY <1>1, WaitsFrame DEF Ind
<1>. QED  BY <1>1, <1>2, <1>3, OnlyAccounts

LEMMA CreateKeeps ==
  ASSUME Ind, NEW u \in Uids, NEW n \in Names, NEW held \in BOOLEAN
  PROVE  /\ Store(Create(u, n, held), minted) /\ Grown(ids, Create(u, n, held))
         /\ DOMAIN Create(u, n, held).rec \subseteq DOMAIN ids.rec \cup {u}
<1>1. Grown(ids, ids) /\ Store(ids, minted) /\ minted \in Nat
  BY Bounds DEF Grown, Ind, Kept
<1>2. CASE Known(u) \/ held
  BY <1>1, <1>2 DEF Create
<1>3. CASE ~(Known(u) \/ held)
  <2>1. Create(u, n, held) = HoldRec(ids, u, n) /\ u \in Uids \ DOMAIN ids.rec
    BY <1>3 DEF Create, Known
  <2>. QED  BY <1>1, <2>1, HoldRecKeeps
<1>. QED  BY <1>2, <1>3

LEMMA AdmitUserKeeps ==
  ASSUME Ind, NEW s \in Sockets, NEW n \in Names, AdmitUser(s, n)  PROVE Safe
<1>1. /\ Promote(n) /\ UNCHANGED <<sock, job, claiming, issued, minted>>
      /\ ids' = ids \/ ids' = Create(pending[n], n, NameInUse(n, pending[n]))
  BY DEF AdmitUser
<1>2. Owned' /\ pending[n] \in Given /\ pending[n] \in Uids
  BY <1>1, PromoteOwned
<1>3. Store(ids', minted) /\ Grown(ids, ids') /\ DOMAIN ids'.rec \subseteq DOMAIN ids.rec \cup {pending[n]}
  <2>1. NameInUse(n, pending[n]) \in BOOLEAN
    BY DEF NameInUse
  <2>2. Grown(ids, ids)
    BY DEF Grown
  <2>. QED  BY <1>1, <1>2, <2>1, <2>2, CreateKeeps DEF Ind, Kept
<1>4. Kept'
  BY <1>1, <1>2, <1>3, NextStore DEF KeptNext, Ind, Kept, Given
<1>5. Waits'
  BY <1>1, WaitsFrame DEF Ind
<1>6. minted <= minted' /\ minted' \in Nat /\ issued \subseteq issued'
  BY <1>1, Bounds
<1>. QED  BY <1>1, <1>2, <1>3, <1>4, <1>5, <1>6, GrownStays, StoreAndSock

LEMMA CreateUserKeeps ==
  ASSUME Ind, NEW s \in Sockets, NEW n \in Names, CreateUser(s, n)  PROVE Safe
<1>. DEFINE u == Fresh
<1>1. /\ AnyFresh /\ account' = Put(account, n, u) /\ ids' = Create(u, n, FALSE)
      /\ issued' = issued \cup {u} /\ UNCHANGED <<pending, sock, job, claiming, minted>>
  BY DEF CreateUser
<1>2. u \in Uids
  BY <1>1, FreshIsNew DEF Ind
<1>. HIDE DEF u
<1>3. Store(ids', minted) /\ Grown(ids, ids') /\ DOMAIN ids'.rec \subseteq DOMAIN ids.rec \cup {u}
  BY <1>1, <1>2, CreateKeeps
<1>4. Kept'
  BY <1>1, <1>3, NextStore DEF KeptNext, Ind, Kept, Given
<1>5. Owned'
  <2>1. PartialTo(account, Names, Given') /\ PartialTo(pending, Names, Given') /\ u \in Given'
    <3>1. Given \subseteq Given' /\ u \in Given'
      BY <1>1 DEF Given
    <3>. QED  BY <3>1, PartialMore DEF Ind, Owned
  <2>2. PartialTo(account', Names, Given')
    BY <1>1, <2>1, PutPartial
  <2>. QED  BY <1>1, <1>2, <2>1, <2>2 DEF Owned, Ind
<1>6. Waits'
  BY <1>1, WaitsFrame DEF Ind
<1>7. minted <= minted' /\ minted' \in Nat /\ issued \subseteq issued'
  BY <1>1, Bounds
<1>. QED  BY <1>1, <1>3, <1>4, <1>5, <1>6, <1>7, GrownStays, StoreAndSock

LEMMA SignInCheckedKeeps ==
  ASSUME Ind, NEW s \in Sockets, SignInChecked(s)  PROVE Safe
<1>. DEFINE u == job[s].uid
            n == job[s].name
<1>1. /\ Answer(s, "sign-in") /\ minted < MaxTokens /\ MaySignIn(u)
      /\ ids' = SignInAs(ids, u, n) /\ minted' = minted + 1
      /\ UNCHANGED <<accounts, sock, claiming, issued>>
  BY DEF SignInChecked
<1>2. u \in Given /\ u \in Uids /\ n \in Names
  BY <1>1, UidsKnown DEF Answer
<1>3. u \in DOMAIN ids.rec => u \in Able(ids)
  BY <1>1 DEF MaySignIn, Welcome, Known, Able
<1>. HIDE DEF u, n
<1>4. minted \in 0..MaxTokens /\ minted \in Nat /\ Store(ids, minted)
  BY Bounds DEF Ind, Owned, Kept
<1>5. Store(ids', minted') /\ Grown(ids, ids') /\ DOMAIN ids'.rec = DOMAIN ids.rec \cup {u}
  BY <1>1, <1>2, <1>3, <1>4, SignInAsKeeps
<1>6. Kept'
  BY <1>1, <1>2, <1>5, NextStore DEF KeptNext, Ind, Kept, Given
<1>7. Owned'
  <2>1. minted' \in 0..MaxTokens /\ issued' \subseteq Uids /\ issued \subseteq issued'
    BY <1>1, <1>4, PeopleAssumption, Bounds
  <2>. QED  BY <1>1, <2>1, OwnedFrame DEF Ind
<1>8. Waits'
  BY <1>1, AnswerWaits DEF Ind
<1>9. minted <= minted' /\ minted' \in Nat /\ issued \subseteq issued'
  BY <1>1, <1>4
<1>. QED  BY <1>1, <1>5, <1>6, <1>7, <1>8, <1>9, GrownStays, StoreAndSock

LEMMA SignInRefusedKeeps ==
  ASSUME Ind, NEW s \in Sockets, SignInRefused(s)  PROVE Safe
<1>1. Answer(s, "sign-in") /\ UNCHANGED <<ids, accounts, sock, claiming, issued, minted>>
  BY DEF SignInRefused
<1>2. Waits'
  BY <1>1, AnswerWaits DEF Ind
<1>3. Owned'
  BY <1>1, OwnedFrame, Bounds DEF Ind, Owned
<1>. QED  BY <1>1, <1>2, <1>3, OnlyAccounts

LEMMA ClaimHashedKeeps ==
  ASSUME Ind, NEW s \in Sockets, ClaimHashed(s)  PROVE Safe
<1>. DEFINE u == UidFor(job[s].uid)
            n == job[s].name
<1>1. /\ Answer(s, "claim") /\ (job[s].uid = None => AnyFresh) /\ minted < MaxTokens
      /\ issued' = issued \cup {u} /\ claiming' = FALSE /\ UNCHANGED <<pending, sock>>
  BY DEF ClaimHashed
<1>2. \/ /\ Granted(u) /\ account' = Put(account, n, u)
         /\ ids' = SetRole(SignInAs(ids, u, n), u, TRUE) /\ minted' = minted + 1
      \/ account' = Without(account, {n}) /\ UNCHANGED <<ids, minted>>
  BY DEF ClaimHashed
<1>3. u \in Uids
  BY <1>1, UidForIsGiven
<1>4. n \in Names
  BY <1>1, UidsKnown DEF Answer
<1>5. Granted(u) => (u \in DOMAIN ids.rec => u \in Able(ids))
  BY DEF Granted, MaySignIn, Welcome, Known, Able
<1>. HIDE DEF u, n
<1>6. minted \in 0..MaxTokens /\ minted \in Nat /\ Store(ids, minted) /\ issued \subseteq Uids
  BY Bounds DEF Ind, Owned, Kept
<1>7. minted' \in 0..MaxTokens /\ minted <= minted' /\ minted' \in Nat /\ issued \subseteq issued'
  <2>1. minted < MaxTokens /\ (minted' = minted \/ minted' = minted + 1)
    BY <1>1, <1>2
  <2>2. MaxTokens \in Nat
    BY PeopleAssumption
  <2>. QED  BY <1>1, <1>6, <2>1, <2>2
<1>8. Waits'
  BY <1>1, AnswerWaits DEF Ind
<1>9. Owned'
  <2>1. PartialTo(account, Names, Given') /\ PartialTo(pending, Names, Given') /\ u \in Given'
    <3>1. Given \subseteq Given' /\ u \in Given'
      BY <1>1 DEF Given
    <3>. QED  BY <3>1, PartialMore DEF Ind, Owned
  <2>2. PartialTo(account', Names, Given')
    BY <1>2, <1>4, <2>1, PutPartial, WithoutPartial
  <2>. QED  BY <1>1, <1>3, <1>6, <1>7, <2>1, <2>2 DEF Owned
<1>10. CASE UNCHANGED <<ids, minted>>
  <2>1. Kept' /\ Stays /\ FitStay
    BY <1>7, <1>10, KeptFrame DEF Ind
  <2>. QED  BY <1>1, <1>7, <1>8, <1>9, <2>1, StoreAndSock
<1>11. CASE /\ Granted(u) /\ minted' = minted + 1
            /\ ids' = SetRole(SignInAs(ids, u, n), u, TRUE)
  <2>. DEFINE h == SignInAs(ids, u, n)
  <2>1. Store(h, minted') /\ Grown(ids, h) /\ DOMAIN h.rec = DOMAIN ids.rec \cup {u}
    BY <1>3, <1>4, <1>5, <1>6, <1>11, SignInAsKeeps
  <2>. HIDE DEF h
  <2>2. ids' = SetRole(h, u, TRUE)
    BY <1>11 DEF h
  <2>3. /\ Store(ids', minted') /\ Able(ids') = Able(h) /\ DOMAIN ids'.rec = DOMAIN h.rec
        /\ AdminsOf(ids') = AdminsOf(h) \cup {u}
    BY <1>7, <2>1, <2>2, SetRoleKeeps
  <2>4. Kept'
    BY <1>1, <2>1, <2>3, NextStore DEF KeptNext, Ind, Kept, Given
  <2>5. Grown(ids, ids')
    BY <2>1, <2>3 DEF Grown
  <2>. QED  BY <1>1, <1>7, <1>8, <1>9, <2>4, <2>5, GrownStays, StoreAndSock
<1>. QED  BY <1>2, <1>10, <1>11

\* What an administrator does keeps accounts and waits, as long as no account
\* goes to somebody new.
LEMMA Managed ==
  ASSUME Ind, Store(ids', minted), DOMAIN ids'.rec \subseteq DOMAIN ids.rec, Stays,
         UNCHANGED <<pending, job, claiming, issued, minted>>,
         PartialTo(account', Names, Given),
         NEW f, sock' = [o \in Sockets |-> f[o]], \A o \in Sockets : Sound(f[o])
  PROVE  Safe
<1>1. Kept'
  BY NextStore DEF KeptNext, Ind, Kept, Given
<1>2. Owned'
  BY DEF Ind, Owned, Given
<1>3. Tabs'
  BY TabsNext
<1>4. Waits'
  BY WaitsFrame DEF Ind
<1>. QED  BY <1>1, <1>2, <1>3, <1>4 DEF Safe, Ind

\* A connection's own data in a next state with the same uids and tokens.
LEMMA DataStays ==
  ASSUME Ind, UNCHANGED <<issued, minted>>, NEW o \in Sockets
  PROVE  /\ sock[o] \in Device' /\ sock[o].uid \in Given' \cup {None}
         /\ sock[o].up /\ sock[o].admin /\ sock[o].uid # None =>
              sock[o].uid \in AdminsOf(ids) \cap Able(ids)
  BY DEF Ind, Tabs, Device, Given

LEMMA SetUserRoleKeeps ==
  ASSUME Ind, NEW s \in Sockets, NEW u \in Uids, NEW b \in BOOLEAN, SetUserRole(s, u, b)
  PROVE  Safe
<1>. DEFINE f == [o \in Sockets |-> IF o \in TabsOf(u) THEN [sock[o] EXCEPT !.admin = b] ELSE sock[o]]
<1>1. /\ Known(u) /\ (IF b THEN Welcome(u) ELSE ~WouldOrphan(u))
      /\ ids' = SetRole(ids, u, b)
      /\ UNCHANGED <<accounts, job, claiming, issued, minted>>
  BY DEF SetUserRole
<1>2. sock' = f
  BY DEF SetUserRole
<1>3. minted \in Nat /\ Store(ids, minted) /\ u \in DOMAIN ids.rec
  BY <1>1, Bounds DEF Ind, Kept, Known
<1>4. /\ Store(ids', minted) /\ Able(ids') = Able(ids) /\ DOMAIN ids'.rec = DOMAIN ids.rec
      /\ AdminsOf(ids') = IF b THEN AdminsOf(ids) \cup {u} ELSE AdminsOf(ids) \ {u}
  BY <1>1, <1>3, SetRoleKeeps
<1>5. Stays
  <2>1. AdminsOf(ids)' = AdminsOf(ids')
    BY DEF AdminsOf
  <2>2. AdminsOf(ids) # {} => AdminsOf(ids') # {}
    BY <1>1, <1>4, NotTheLast
  <2>. QED  BY <2>1, <2>2 DEF Stays
<1>6. b => u \in Able(ids)
  BY <1>1, <1>3 DEF Welcome, Able, Known
<1>7. ASSUME NEW o \in Sockets  PROVE Sound(f[o])
  <2>1. /\ sock[o] \in Device' /\ sock[o].uid \in Given' \cup {None}
        /\ sock[o].up /\ sock[o].admin /\ sock[o].uid # None =>
             sock[o].uid \in AdminsOf(ids) \cap Able(ids)
    BY <1>1, DataStays
  <2>2. CASE sock[o].up /\ sock[o].uid = u
    <3>1. f[o] = [sock[o] EXCEPT !.admin = b]
      BY <2>2 DEF TabsOf, Live
    <3>2. f[o] \in Device' /\ f[o].uid = u /\ f[o].admin = b
      BY <2>1, <2>2, <3>1 DEF Device
    <3>. HIDE DEF f
    <3>. QED  BY <1>4, <1>6, <2>1, <2>2, <3>2 DEF Sound
  <2>3. CASE ~(sock[o].up /\ sock[o].uid = u)
    <3>1. f[o] = sock[o]
      BY <2>3 DEF TabsOf, Live
    <3>. HIDE DEF f
    <3>. QED  BY <1>4, <2>1, <2>3, <3>1 DEF Sound
  <2>. QED  BY <2>2, <2>3
<1>8. sock' = [o \in Sockets |-> f[o]]
  BY <1>2
<1>9. PartialTo(account', Names, Given)
  BY <1>1 DEF Ind, Owned, accounts
<1>. HIDE DEF f
<1>. QED  BY <1>1, <1>4, <1>5, <1>7, <1>8, <1>9, Managed DEF accounts

\* Every tab of a person is nobody's from here on.
LEMMA EndedSound ==
  ASSUME Ind, UNCHANGED <<issued, minted>>, NEW u,
         AdminsOf(ids) \ {u} \subseteq AdminsOf(ids'), Able(ids) \ {u} \subseteq Able(ids')
  PROVE  /\ \A o \in Sockets : Sound(Ended(u)[o])
         /\ Ended(u) = [o \in Sockets |-> Ended(u)[o]]
<1>1. Ended(u) = [o \in Sockets |-> Ended(u)[o]]
  BY DEF Ended
<1>2. ASSUME NEW o \in Sockets  PROVE Sound(Ended(u)[o])
  <2>1. /\ sock[o] \in Device' /\ sock[o].uid \in Given' \cup {None}
        /\ sock[o].up /\ sock[o].admin /\ sock[o].uid # None =>
             sock[o].uid \in AdminsOf(ids) \cap Able(ids)
    BY DataStays
  <2>2. Ended(u)[o] = IF sock[o].up /\ sock[o].uid = u THEN Nobody ELSE sock[o]
    BY DEF Ended, TabsOf, Live
  <2>. QED  BY <2>1, <2>2, NobodySound DEF Sound
<1>. QED  BY <1>1, <1>2

LEMMA SetUserDisabledKeeps ==
  ASSUME Ind, NEW s \in Sockets, NEW u \in Uids, NEW b \in BOOLEAN, SetUserDisabled(s, u, b)
  PROVE  Safe
<1>1. u \in DOMAIN ids.rec /\ UNCHANGED <<accounts, job, claiming, issued, minted>>
  BY DEF SetUserDisabled, Known
<1>2. minted \in Nat /\ Store(ids, minted)
  BY Bounds DEF Ind, Kept
<1>3. CASE b
  <2>1. /\ ids' = Revoke([ids EXCEPT !.rec[u].off = TRUE], TokensOf(u)) /\ sock' = Ended(u)
    BY <1>3 DEF SetUserDisabled
  <2>2. /\ Store(ids', minted) /\ DOMAIN ids'.rec = DOMAIN ids.rec
        /\ Able(ids) \ {u} \subseteq Able(ids') /\ AdminsOf(ids') = AdminsOf(ids)
    BY <1>1, <1>2, <2>1, OffKeeps
  <2>3. Stays
    <3>1. AdminsOf(ids)' = AdminsOf(ids')
      BY DEF AdminsOf
    <3>. QED  BY <2>2, <3>1 DEF Stays
  <2>4. (\A o \in Sockets : Sound(Ended(u)[o])) /\ Ended(u) = [o \in Sockets |-> Ended(u)[o]]
    BY <1>1, <2>2, EndedSound
  <2>5. PartialTo(account', Names, Given)
    BY <1>1 DEF Ind, Owned, accounts
  <2>6. sock' = [o \in Sockets |-> Ended(u)[o]]
    BY <2>1, <2>4
  <2>. QED  BY <1>1, <2>2, <2>3, <2>4, <2>5, <2>6, Managed DEF accounts
<1>4. CASE ~b
  <2>1. ids' = [ids EXCEPT !.rec[u].off = FALSE] /\ sock' = sock
    BY <1>4 DEF SetUserDisabled
  <2>2. Store(ids', minted) /\ Grown(ids, ids') /\ DOMAIN ids'.rec = DOMAIN ids.rec
    BY <1>1, <1>2, <2>1, OnKeeps
  <2>3. Kept'
    BY <1>1, <2>2, NextStore DEF KeptNext, Ind, Kept, Given
  <2>4. Owned'
    BY <1>1, OwnedFrame, Bounds DEF Ind, Owned
  <2>5. Waits'
    BY <1>1, WaitsFrame DEF Ind
  <2>6. minted <= minted' /\ minted' \in Nat /\ issued \subseteq issued'
    BY <1>1, <1>2
  <2>. QED  BY <2>1, <2>2, <2>3, <2>4, <2>5, <2>6, GrownStays, StoreAndSock
<1>. QED  BY <1>3, <1>4

LEMMA SignOutUserKeeps ==
  ASSUME Ind, NEW u \in Uids, SignOutUser(u)  PROVE Safe
<1>1. /\ ids' = Revoke(ids, TokensOf(u)) /\ sock' = Ended(u)
      /\ UNCHANGED <<accounts, job, claiming, issued, minted>>
  BY DEF SignOutUser
<1>2. Kept' /\ Stays /\ FitStay /\ Owned' /\ Waits'
  BY <1>1, RevokedKeeps
<1>3. Grown(ids, ids')
  BY <1>1, RevokeKeeps, Bounds DEF Ind, Kept
<1>4. (\A o \in Sockets : Sound(Ended(u)[o])) /\ Ended(u) = [o \in Sockets |-> Ended(u)[o]]
  BY <1>1, <1>3, EndedSound DEF Grown
<1>5. Tabs'
  BY <1>1, <1>4, TabsNext
<1>. QED  BY <1>2, <1>5 DEF Safe, Ind

LEMMA DeleteUserKeeps ==
  ASSUME Ind, NEW s \in Sockets, NEW u \in Uids, DeleteUser(s, u)  PROVE Safe
<1>. DEFINE h == Revoke(ids, TokensOf(u))
<1>1. /\ u \in DOMAIN ids.rec /\ ~WouldOrphan(u)
      /\ ids' = Remove(h, u) /\ sock' = Ended(u)
      /\ account' = Without(account, {n \in DOMAIN account : account[n] = u})
      /\ UNCHANGED <<pending, job, claiming, issued, minted>>
  BY DEF DeleteUser, MayDelete, Known
<1>2. minted \in Nat /\ Store(ids, minted)
  BY Bounds DEF Ind, Kept
<1>3. /\ Store(h, minted) /\ h.rec = ids.rec
      /\ DOMAIN h.tokens = DOMAIN ids.tokens \ TokensOf(u)
      /\ \A t \in DOMAIN ids.tokens \ TokensOf(u) : h.tokens[t] = ids.tokens[t]
  BY <1>2, RevokeKeeps
<1>. HIDE DEF h
<1>4. \A t \in DOMAIN h.tokens : h.tokens[t] # u
  BY <1>3 DEF TokensOf
<1>5. AdminsOf(h) = AdminsOf(ids) /\ Able(h) = Able(ids)
  BY <1>3 DEF AdminsOf, Able
<1>6. /\ Store(ids', minted) /\ DOMAIN ids'.rec = DOMAIN ids.rec \ {u}
      /\ AdminsOf(ids') = AdminsOf(ids) \ {u} /\ Able(ids') = Able(ids) \ {u}
  BY <1>1, <1>2, <1>3, <1>4, <1>5, RemoveKeeps
<1>7. Stays
  <2>1. AdminsOf(ids)' = AdminsOf(ids')
    BY DEF AdminsOf
  <2>. QED  BY <1>1, <1>6, <2>1, NotTheLast DEF Stays
<1>8. (\A o \in Sockets : Sound(Ended(u)[o])) /\ Ended(u) = [o \in Sockets |-> Ended(u)[o]]
  BY <1>1, <1>6, EndedSound
<1>9. PartialTo(account', Names, Given)
  BY <1>1, WithoutPartial DEF Ind, Owned
<1>10. sock' = [o \in Sockets |-> Ended(u)[o]]
  BY <1>1, <1>8
<1>. QED  BY <1>1, <1>6, <1>7, <1>8, <1>9, <1>10, Managed

LEMMA RestartKeeps ==
  ASSUME Ind, Restart  PROVE Safe
<1>. DEFINE st == [ids EXCEPT !.bornEmpty = DOMAIN ids.rec = {}]
            b == DOMAIN ids.rec = {}
<1>1. /\ ids' \in Promoted(st) /\ sock' = [s \in Sockets |-> Nobody]
      /\ job' = [s \in Sockets |-> Idle] /\ claiming' = FALSE
      /\ UNCHANGED <<accounts, issued, minted>>
  BY DEF Restart
<1>2. minted \in Nat /\ Store(ids, minted)
  BY Bounds DEF Ind, Kept
<1>3. st = [rec |-> ids.rec, byName |-> ids.byName, tokens |-> ids.tokens, bornEmpty |-> b]
  BY <1>2 DEF Store
<1>4. b \in BOOLEAN
  OBVIOUS
<1>. HIDE DEF b, st
<1>5. /\ st.rec = ids.rec /\ st.byName = ids.byName /\ st.tokens = ids.tokens /\ st.bornEmpty = b
      /\ st = [rec |-> st.rec, byName |-> st.byName, tokens |-> st.tokens, bornEmpty |-> st.bornEmpty]
  BY <1>3
<1>6. Able(st) = Able(ids) /\ AdminsOf(st) = AdminsOf(ids)
  BY <1>5 DEF Able, AdminsOf
<1>7. Store(st, minted)
  BY <1>2, <1>4, <1>5, <1>6 DEF Store
<1>8. Store(ids', minted) /\ DOMAIN ids'.rec = DOMAIN ids.rec /\ AdminsOf(ids) \subseteq AdminsOf(ids')
  <2>1. CASE ids' = st
    BY <2>1, <1>5, <1>6, <1>7
  <2>2. CASE \E n \in DOMAIN st.byName : ids' = SetRole(st, st.byName[n], TRUE)
    <3>1. PICK n \in DOMAIN st.byName : ids' = SetRole(st, st.byName[n], TRUE)
      BY <2>2
    <3>2. st.byName[n] \in DOMAIN st.rec
      BY <1>7 DEF Store
    <3>3. /\ Store(ids', minted) /\ DOMAIN ids'.rec = DOMAIN st.rec
          /\ AdminsOf(ids') = AdminsOf(st) \cup {st.byName[n]}
      BY <1>2, <1>7, <3>1, <3>2, SetRoleKeeps
    <3>. QED  BY <1>5, <1>6, <3>3
  <2>. QED  BY <1>1, <2>1, <2>2 DEF Promoted
<1>9. Stays
  <2>1. AdminsOf(ids)' = AdminsOf(ids')
    BY DEF AdminsOf
  <2>. QED  BY <1>8, <2>1 DEF Stays
<1>10. Kept'
  BY <1>1, <1>8, NextStore DEF KeptNext, Ind, Kept, Given
<1>11. Owned'
  BY <1>1, OwnedFrame, Bounds DEF Ind, Owned
<1>12. Tabs'
  <2>1. sock' = [s \in Sockets |-> [o \in Sockets |-> Nobody][s]]
    BY <1>1
  <2>. QED  BY <2>1, NobodySound, TabsNext
<1>13. Waits'
  <2>1. Idle \in Wait /\ Idle.kind = "none" /\ Idle.uid = None
    BY DEF Wait, Idle
  <2>. QED  BY <1>1, <2>1 DEF Waits, Wait
<1>. QED  BY <1>9, <1>10, <1>11, <1>12, <1>13 DEF Safe, Ind

LEMMA InitInd == Init => Ind
<1>. SUFFICES ASSUME Init  PROVE Ind
  OBVIOUS
<1>0. DOMAIN <<>> = {}
  OBVIOUS
<1>1. PICK old \in {{}, Founders} : \E name \in Injection(old, Names) :
        /\ ids = [rec |-> [u \in old |-> [name |-> name[u], admin |-> FALSE, off |-> FALSE, gn |-> FALSE]],
                  byName |-> [n \in Range(name) |-> CHOOSE u \in old : name[u] = n],
                  tokens |-> <<>>, bornEmpty |-> old = {}]
        /\ issued = old
  BY DEF Init
<1>2. PICK name \in Injection(old, Names) :
        /\ ids = [rec |-> [u \in old |-> [name |-> name[u], admin |-> FALSE, off |-> FALSE, gn |-> FALSE]],
                  byName |-> [n \in Range(name) |-> CHOOSE u \in old : name[u] = n],
                  tokens |-> <<>>, bornEmpty |-> old = {}]
        /\ issued = old
  BY <1>1
<1>3. /\ account = <<>> /\ pending = <<>> /\ sock = [s \in Sockets |-> Nobody]
      /\ job = [s \in Sockets |-> Idle] /\ claiming = FALSE /\ minted = 0
  BY DEF Init
<1>4. old \subseteq Locals /\ name \in [old -> Names]
  BY PeopleAssumption DEF Injection
<1>5. \A n \in Range(name) : (CHOOSE u \in old : name[u] = n) \in old
                             /\ name[CHOOSE u \in old : name[u] = n] = n
  BY <1>4 DEF Range
<1>6. Kept
  <2>. DEFINE R == [u \in old |-> [name |-> name[u], admin |-> FALSE, off |-> FALSE, gn |-> FALSE]]
              N == [n \in Range(name) |-> CHOOSE u \in old : name[u] = n]
              b == old = {}
  <2>1. \A u \in old : R[u] \in Person /\ R[u].name = name[u]
    BY <1>4 DEF Person
  <2>2. DOMAIN R = old /\ DOMAIN N = Range(name) /\ \A n \in Range(name) : N[n] \in old /\ name[N[n]] = n
    BY <1>5
  <2>3. b \in BOOLEAN
    OBVIOUS
  <2>4. ids = [rec |-> R, byName |-> N, tokens |-> <<>>, bornEmpty |-> b]
    BY <1>2
  <2>. HIDE DEF R, N, b
  <2>5. ids.rec = R /\ ids.byName = N /\ ids.tokens = <<>> /\ ids.bornEmpty = b
    BY <2>4
  <2>6. ids = [rec |-> ids.rec, byName |-> ids.byName, tokens |-> ids.tokens, bornEmpty |-> ids.bornEmpty]
    BY <2>4, <2>5
  <2>7. Store(ids, minted)
    BY <1>0, <1>3, <1>4, <2>1, <2>2, <2>3, <2>5, <2>6 DEF Store, Uids
  <2>. QED  BY <1>2, <2>2, <2>5, <2>7 DEF Kept, Given
<1>7. Owned
  BY <1>0, <1>2, <1>3, <1>4, PeopleAssumption DEF Owned, PartialTo, Range, Uids
<1>8. Tabs
  BY <1>3 DEF Tabs, Nobody, Device
<1>9. Waits
  BY <1>3 DEF Waits, Wait, Idle
<1>. QED  BY <1>6, <1>7, <1>8, <1>9 DEF Ind

LEMMA StepKeeps ==
  ASSUME Ind, [Next]_vars  PROVE Safe
<1>1. CASE UNCHANGED vars
  <2>1. Owned'
    BY <1>1, OwnedFrame, Bounds DEF Ind, Owned, vars
  <2>2. Waits'
    BY <1>1, WaitsFrame DEF Ind, vars
  <2>. QED  BY <1>1, <2>1, <2>2, OnlyAccounts DEF vars
<1>2. ASSUME NEW s \in Sockets,
             \/ Disconnect(s) \/ Connect(s) \/ SignOut(s)
             \/ SignUpHashed(s) \/ SignInChecked(s) \/ SignInRefused(s) \/ ClaimHashed(s)
      PROVE  Safe
  BY <1>2, DisconnectKeeps, ConnectKeeps, SignOutKeeps, SignUpHashedKeeps, SignInCheckedKeeps,
     SignInRefusedKeeps, ClaimHashedKeeps
<1>3. ASSUME NEW s \in Sockets, NEW t, Identify(s, t) \/ EndSession(s, t)  PROVE Safe
  BY <1>3, IdentifyKeeps, EndSessionKeeps
<1>4. ASSUME NEW s \in Sockets, NEW n \in Names,
             \/ GuestJoinViaCode(s, n) \/ StartSignUp(s, n) \/ SignIn(s, n) \/ ClaimServer(s, n)
             \/ AdmitUser(s, n) \/ CreateUser(s, n)
             \/ \E u \in GameNight : IdentifyFromGameNight(s, u, n)
      PROVE  Safe
  BY <1>4, GuestKeeps, StartSignUpKeeps, SignInKeeps, ClaimServerKeeps, AdmitUserKeeps,
     CreateUserKeeps, IdentifyFromGameNightKeeps
<1>5. ASSUME NEW s \in Sockets, NEW u \in Uids,
             DeleteUser(s, u) \/ \E b \in BOOLEAN : SetUserRole(s, u, b) \/ SetUserDisabled(s, u, b)
      PROVE  Safe
  BY <1>5, DeleteUserKeeps, SetUserRoleKeeps, SetUserDisabledKeeps
<1>6. ASSUME NEW u \in Uids, SignOutUser(u)  PROVE Safe
  BY <1>6, SignOutUserKeeps
<1>7. ASSUME NEW u \in GameNight, NEW n \in Names, ReserveFromGameNight(u, n)  PROVE Safe
  BY <1>7, ReserveKeeps
<1>8. ASSUME NEW n \in Names, Lapse(n) \/ CompleteSignUp(n)  PROVE Safe
  BY <1>8, LapseKeeps, CompleteSignUpKeeps
<1>9. ASSUME NEW t, ExpireDevices(t)  PROVE Safe
  BY <1>9, ExpireKeeps
<1>10. CASE Restart
  BY <1>10, RestartKeeps
<1>. QED  BY <1>1, <1>2, <1>3, <1>4, <1>5, <1>6, <1>7, <1>8, <1>9, <1>10 DEF Next

-----------------------------------------------------------------------------
(* What is proved.                                                         *)

LEMMA IndHolds == Spec => []Ind
<1>1. Ind /\ [Next]_vars => Ind'
  BY StepKeeps DEF Safe
<1>. QED  BY <1>1, InitInd, PTL DEF Spec

LEMMA IndTypes == Ind => TypeOK
<1>. SUFFICES ASSUME Ind  PROVE TypeOK
  OBVIOUS
<1>1. PartialTo(ids.rec, Uids, Person)
  BY DEF Ind, Kept, Store, PartialTo, Range
<1>2. PartialTo(ids.tokens, 1..minted, DOMAIN ids.rec)
  BY DEF Ind, Kept, Store, PartialTo, Range, Able
<1>3. ids.bornEmpty \in BOOLEAN /\ claiming \in BOOLEAN
  BY DEF Ind, Kept, Store, Waits
<1>. QED  BY <1>1, <1>2, <1>3 DEF Ind, Owned, Tabs, Waits, Device, Wait, Person, TypeOK, Given

LEMMA IndRights == Ind => RightsAreHeld
<1>. SUFFICES ASSUME Ind  PROVE RightsAreHeld
  OBVIOUS
<1>1. \A t \in DOMAIN ids.tokens : Welcome(ids.tokens[t])
  BY DEF Ind, Kept, Store, Able, Welcome
<1>2. \A s \in Live : SignedIn(s) /\ Administers(s) =>
        IsAdmin(sock[s].uid) /\ Welcome(sock[s].uid)
  BY DEF Ind, Tabs, Live, SignedIn, Administers, IsAdmin, Admins, Able, Welcome
<1>3. Cardinality({s \in Sockets : job[s].kind = "claim"}) = IF claiming THEN 1 ELSE 0
  <2>. DEFINE C == {s \in Sockets : job[s].kind = "claim"}
  <2>1. CASE claiming
    <3>1. PICK s \in Sockets : job[s].kind = "claim"
      BY <2>1 DEF Ind, Waits
    <3>2. C = {s}
      BY <3>1 DEF Ind, Waits
    <3>. QED  BY <2>1, <3>2, FS_Singleton
  <2>2. CASE ~claiming
    <3>1. C = {}
      BY <2>2 DEF Ind, Waits
    <3>. QED  BY <2>2, <3>1, FS_EmptySet
  <2>. QED  BY <2>1, <2>2
<1>. QED  BY <1>1, <1>2, <1>3 DEF RightsAreHeld

\* The stores of identities, accounts and sign-ups, and what connections and
\* waiting passwords refer to, have their types in every reachable state.
THEOREM PeopleTypes == Spec => []TypeOK
BY IndHolds, IndTypes, PTL

\* However people are renamed, signed in under an account's name, deleted or
\* renamed by GameNight, a name leads to somebody who goes by it.
THEOREM NamesAlwaysLead == Spec => []NamesLeadHome
<1>1. Ind => NamesLeadHome
  BY DEF Ind, Kept, Store, NamesLeadHome, Known
<1>. QED  BY <1>1, IndHolds, PTL

\* No device signs in as somebody suspended, a signed-in tab has a grant only
\* while its person administers the server, and the server is being claimed
\* exactly while one claim waits for its hash.
THEOREM RightsFollow == Spec => []RightsAreHeld
BY IndHolds, IndRights, PTL

\* No step leaves a server that has an administrator without one, and a claim
\* that finds one makes none.
THEOREM AdminsStay == Spec => AdminsByRule
<1>. DEFINE Rule == /\ Admins # {} => Admins' # {}
                    /\ claiming /\ ~claiming' /\ Admins # {} =>
                         \A s \in Sockets : ClaimHashed(s) => Admins' = Admins
<1>1. Ind /\ [Next]_vars => [Rule]_vars
  <2>. SUFFICES ASSUME Ind, [Next]_vars  PROVE Rule
    OBVIOUS
  <2>1. Admins # {} => Admins' # {}
    BY StepKeeps DEF Safe, Stays, Admins
  <2>2. ASSUME Admins # {}, NEW s \in Sockets, ClaimHashed(s)  PROVE Admins' = Admins
    <3>1. ~Granted(UidFor(job[s].uid))
      BY <2>2 DEF Granted
    <3>2. ids' = ids
      BY <2>2, <3>1 DEF ClaimHashed
    <3>. QED  BY <3>2 DEF Admins, AdminsOf
  <2>. QED  BY <2>1, <2>2
<1>. QED  BY <1>1, IndHolds, PTL DEF Spec, AdminsByRule
=============================================================================
