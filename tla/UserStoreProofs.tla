-------------------------- MODULE UserStoreProofs --------------------------
(***************************************************************************)
(* Proofs about UserStore, for any number of nicks, sessions and values:   *)
(* the tables of profiles agree, what is saved is what the hub works with, *)
(* and the database implements AccountStore.                               *)
(***************************************************************************)
EXTENDS UserStore, FiniteSetTheorems, FunctionTheorems, TLAPS

----------------------------------------------------------------------------
(* The inductive invariant. *)

\* Heap, rows, index and sessions as they have to be, of their types and in step.
Memory(h, rws, idx, ses) ==
    /\ h \in [Ids -> Profile \cup {None}]
    /\ idx \in [Nicks -> Ids \cup {None}]
    /\ ses \in [Sessions -> Session]
    /\ rws \subseteq Ids
    /\ \A i \in rws : h[i] \in Profile
    /\ \A s \in Sessions : ses[s] # Closed => h[ses[s].profile] \in Profile
    /\ \A n \in Nicks : idx[n] # None => idx[n] \in rws /\ h[idx[n]].nick = n
    /\ \A i \in rws : idx[h[i].nick] = i
    /\ \A i \in rws : h[i].is_online = 1 =>
            \E s \in Sessions : ses[s].state = "normal" /\ ses[s].profile = i

\* A nick has one profile in a copy.
OneEach(c) == \A p, q \in c : p.nick = q.nick => p = q

\* At most one copy is lost, and none where a write was refused.
DiskShape(d) ==
    /\ d \in Disk
    /\ d.file # Bad => OneEach(d.file)
    /\ d.backup # Bad => OneEach(d.backup)
    /\ d.fault = "none" => d.file # Bad /\ d.backup = d.file
    /\ d.fault = "write" => d.file # Bad
    /\ d.fault = "loss" => d.file # Bad \/ d.backup # Bad

IInv ==
    /\ up \in BOOLEAN
    /\ Memory(heap, rows, index, session)
    /\ DiskShape(disk)
    /\ Saved

----------------------------------------------------------------------------
(* Sessions and copies. *)

LEMMA SessionCases ==
    ASSUME NEW ses \in [Sessions -> Session], NEW s \in Sessions
    PROVE  \/ ses[s] = Closed
           \/ /\ ses[s] # Closed /\ ses[s].state \in {"verify", "normal"}
              /\ ses[s].nick \in Nicks /\ ses[s].profile \in Ids
BY DEF Session, Closed

LEMMA ClosedFields == Closed.state = "closed" /\ Closed.profile = None
BY DEF Closed

\* The accounts of two contents are the same if nick and data are.
SameAccounts(h, g, rws) == \A i \in rws : g[i].nick = h[i].nick /\ g[i].data = h[i].data

AccountAt(h, i) == [nick |-> h[i].nick, data |-> h[i].data]

LEMMA AccountsOfContent ==
    ASSUME NEW h, NEW rws
    PROVE  \A x : x \in Accounts(Content(h, rws)) <=> \E i \in rws : x = AccountAt(h, i)
BY DEF Accounts, Content, AccountAt

LEMMA SameContent ==
    ASSUME NEW h, NEW g, NEW rws, SameAccounts(h, g, rws)
    PROVE  Accounts(Content(g, rws)) = Accounts(Content(h, rws))
<1>1. \A i \in rws : AccountAt(g, i) = AccountAt(h, i)
  BY DEF SameAccounts, AccountAt
<1>2. \A x : x \in Accounts(Content(g, rws)) <=> x \in Accounts(Content(h, rws))
  BY <1>1, AccountsOfContent
<1> QED BY <1>2

\* What the tables hold is a copy with one profile per nick.
LEMMA ContentShape ==
    ASSUME NEW h, NEW rws, NEW idx, NEW ses, Memory(h, rws, idx, ses)
    PROVE  Content(h, rws) \in SUBSET Profile /\ OneEach(Content(h, rws))
BY DEF Memory, Content, OneEach

----------------------------------------------------------------------------
(* What the handlers do to the tables. *)

\* Tables nobody refers to are given back.
LEMMA KeptMemory ==
    ASSUME NEW h, NEW rws, NEW idx, NEW ses, Memory(h, rws, idx, ses)
    PROVE  /\ Memory(Kept(h, rws, ses), rws, idx, ses)
           /\ Content(Kept(h, rws, ses), rws) = Content(h, rws)
<1> DEFINE k == Kept(h, rws, ses)
<1>1. \A i \in rws : k[i] = h[i]
  BY DEF Kept, Referenced, Memory
<1>2. \A s \in Sessions : ses[s] # Closed => k[ses[s].profile] = h[ses[s].profile]
  <2> TAKE s \in Sessions
  <2> HAVE ses[s] # Closed
  <2>1. ses[s].profile \in Ids
    BY SessionCases DEF Memory
  <2> QED BY <2>1 DEF Kept, Referenced
<1>3. k \in [Ids -> Profile \cup {None}]
  BY DEF Kept, Memory
<1> HIDE DEF k
<1>4. Memory(k, rws, idx, ses)
  BY <1>1, <1>2, <1>3 DEF Memory
<1>5. Content(k, rws) = Content(h, rws)
  BY <1>1 DEF Content
<1> QED BY <1>4, <1>5 DEF k

LEMMA LeaveMemory ==
    ASSUME NEW h, NEW rws, NEW idx, NEW ses, Memory(h, rws, idx, ses),
           Leave(h, rws, ses), index' = idx
    PROVE  /\ Memory(heap, rows, index, session)'
           /\ Content(heap, rows)' = Content(h, rws)
<1>1. heap' = Kept(h, rws, ses) /\ rows' = rws /\ session' = ses
  BY DEF Leave
<1>2. Memory(heap', rows', index', session') /\ Content(heap', rows') = Content(h, rws)
  BY <1>1, KeptMemory
<1> QED BY <1>2

\* A session that was not logged in is dropped.
LEMMA DropMemory ==
    ASSUME NEW h, NEW rws, NEW idx, Memory(h, rws, idx, session),
           NEW K \in SUBSET Sessions, \A s \in K : session[s].state # "normal"
    PROVE  Memory(h, rws, idx, ClosedAll(K))
<1>1. ClosedAll(K) \in [Sessions -> Session]
  BY DEF ClosedAll, Memory, Session
<1>2. \A s \in Sessions : ClosedAll(K)[s] = IF s \in K THEN Closed ELSE session[s]
  BY DEF ClosedAll
<1> QED BY <1>1, <1>2 DEF Memory

\* Sessions are disconnected, and shown offline where they were logged in.
LEMMA LogoutMemory ==
    ASSUME NEW h, NEW rws, NEW idx, Memory(h, rws, idx, session),
           NEW K \in SUBSET Sessions
    PROVE  /\ Memory(LoggedOut(h, K), rws, idx, ClosedAll(K))
           /\ \A i \in Ids : h[i] \in Profile =>
                /\ LoggedOut(h, K)[i] \in Profile
                /\ LoggedOut(h, K)[i].nick = h[i].nick
                /\ LoggedOut(h, K)[i].data = h[i].data
           /\ SameAccounts(h, LoggedOut(h, K), rws)
<1> DEFINE g == LoggedOut(h, K)
           c == ClosedAll(K)
<1>0. \A s \in Sessions : session[s].state = "normal" =>
            session[s].profile \in Ids /\ h[session[s].profile] \in Profile
  BY SessionCases, ClosedFields DEF Memory
<1>1. c \in [Sessions -> Session] /\ \A s \in Sessions : c[s] = IF s \in K THEN Closed ELSE session[s]
  BY DEF ClosedAll, Memory, Session
<1>2. \A i \in Ids : h[i] \in Profile =>
            [h[i] EXCEPT !.is_online = 0] \in Profile
            /\ [h[i] EXCEPT !.is_online = 0].nick = h[i].nick
            /\ [h[i] EXCEPT !.is_online = 0].data = h[i].data
            /\ [h[i] EXCEPT !.is_online = 0].is_online = 0
  BY DEF Profile
<1>3. \A i \in Ids : g[i] = IF \E s \in K : session[s].state = "normal" /\ session[s].profile = i
                            THEN [h[i] EXCEPT !.is_online = 0] ELSE h[i]
  BY DEF LoggedOut
<1>4. \A i \in Ids : h[i] \in Profile =>
            g[i] \in Profile /\ g[i].nick = h[i].nick /\ g[i].data = h[i].data
  BY <1>2, <1>3
<1>5. g \in [Ids -> Profile \cup {None}]
  BY <1>0, <1>2 DEF LoggedOut, Memory
<1>6. \A i \in rws : g[i] \in Profile /\ g[i].nick = h[i].nick /\ g[i].data = h[i].data
  BY <1>4 DEF Memory
<1>7. ASSUME NEW i \in rws, g[i].is_online = 1
      PROVE  \E s \in Sessions : c[s].state = "normal" /\ c[s].profile = i
  <2>1. i \in Ids /\ h[i] \in Profile
    BY DEF Memory
  <2>2. ASSUME \E s \in K : session[s].state = "normal" /\ session[s].profile = i PROVE FALSE
    <3>1. g[i] = [h[i] EXCEPT !.is_online = 0]
      BY <1>3, <2>1, <2>2
    <3>2. g[i].is_online = 0
      BY <1>2, <2>1, <3>1
    <3> QED BY <1>7, <3>2
  <2>3. g[i] = h[i]
    BY <1>3, <2>1, <2>2
  <2>4. PICK s \in Sessions : session[s].state = "normal" /\ session[s].profile = i
    BY <1>7, <2>3 DEF Memory
  <2> QED BY <1>1, <2>2, <2>4
<1>8. \A s \in Sessions : c[s] # Closed => g[c[s].profile] \in Profile
  <2> TAKE s \in Sessions
  <2> HAVE c[s] # Closed
  <2>1. c[s] = session[s] /\ session[s].profile \in Ids /\ h[session[s].profile] \in Profile
    BY <1>1, SessionCases DEF Memory
  <2> QED BY <1>4, <2>1
<1> HIDE DEF g, c
<1>9. Memory(g, rws, idx, c)
  <2>1. \A n \in Nicks : idx[n] # None => idx[n] \in rws /\ g[idx[n]].nick = n
    BY <1>6 DEF Memory
  <2>2. \A i \in rws : idx[g[i].nick] = i
    BY <1>6 DEF Memory
  <2> QED BY <1>1, <1>5, <1>6, <1>7, <1>8, <2>1, <2>2 DEF Memory
<1>10. SameAccounts(h, g, rws)
  BY <1>6 DEF SameAccounts
<1> QED BY <1>4, <1>9, <1>10 DEF g, c

\* Other data in one profile.
LEMMA DataMemory ==
    ASSUME NEW h, NEW rws, NEW idx, NEW ses, Memory(h, rws, idx, ses),
           NEW i \in Ids, h[i] \in Profile, NEW d \in Data
    PROVE  /\ Memory([h EXCEPT ![i].data = d], rws, idx, ses)
           /\ SameAccounts(h, [h EXCEPT ![i].data = d], rws \ {i})
<1> DEFINE g == [h EXCEPT ![i].data = d]
<1>1. [h[i] EXCEPT !.data = d] \in Profile
  BY DEF Profile
<1>2. /\ g[i] \in Profile /\ g[i].nick = h[i].nick /\ g[i].is_online = h[i].is_online
      /\ \A j \in Ids \ {i} : g[j] = h[j]
      /\ g \in [Ids -> Profile \cup {None}]
  BY <1>1 DEF Memory, Profile
<1> HIDE DEF g
<1>3. \A j \in Ids : h[j] \in Profile =>
            g[j] \in Profile /\ g[j].nick = h[j].nick /\ g[j].is_online = h[j].is_online
  BY <1>2
<1>4. \A s \in Sessions : ses[s] # Closed => g[ses[s].profile] \in Profile
  BY <1>3, SessionCases DEF Memory
<1>5. Memory(g, rws, idx, ses)
  <2>1. \A n \in Nicks : idx[n] # None => idx[n] \in rws /\ g[idx[n]].nick = n
    BY <1>3 DEF Memory
  <2>2. \A j \in rws : idx[g[j].nick] = j /\ g[j] \in Profile
    BY <1>3 DEF Memory
  <2>3. \A j \in rws : g[j].is_online = 1 => h[j].is_online = 1
    BY <1>3 DEF Memory
  <2> QED BY <1>2, <1>4, <2>1, <2>2, <2>3 DEF Memory
<1>6. SameAccounts(h, g, rws \ {i})
  BY <1>2 DEF SameAccounts, Memory
<1> QED BY <1>5, <1>6 DEF g

\* A password is asked for.
LEMMA ChallengeMemory ==
    ASSUME NEW h, NEW rws, NEW idx, NEW ses, Memory(h, rws, idx, ses),
           NEW s \in Sessions, ses[s] = Closed, NEW n \in Nicks, idx[n] # None
    PROVE  Memory(h, rws, idx,
                  [ses EXCEPT ![s] = [state |-> "verify", nick |-> n, profile |-> idx[n]]])
<1> DEFINE v == [state |-> "verify", nick |-> n, profile |-> idx[n]]
           e == [ses EXCEPT ![s] = v]
<1>1. idx[n] \in rws /\ idx[n] \in Ids /\ h[idx[n]] \in Profile
  BY DEF Memory
<1>2. v \in Session /\ v.profile = idx[n]
  BY <1>1 DEF Session
<1>3. e \in [Sessions -> Session] /\ e[s] = v /\ \A t \in Sessions \ {s} : e[t] = ses[t]
  BY <1>2 DEF Memory
<1>4. \A t \in Sessions : ses[t].state = "normal" => t # s
  BY ClosedFields
<1> HIDE DEF v, e
<1>5. \A t \in Sessions : e[t] # Closed => h[e[t].profile] \in Profile
  BY <1>1, <1>2, <1>3 DEF Memory
<1>6. \A i \in rws : h[i].is_online = 1 =>
            \E t \in Sessions : e[t].state = "normal" /\ e[t].profile = i
  BY <1>3, <1>4 DEF Memory
<1>7. Memory(h, rws, idx, e)
  BY <1>3, <1>5, <1>6 DEF Memory
<1> QED BY <1>7 DEF e, v

\* The right password: the session is logged in with its profile.
LEMMA LoginMemory ==
    ASSUME NEW h, NEW rws, NEW idx, NEW ses, Memory(h, rws, idx, ses),
           NEW s \in Sessions, ses[s].state = "verify", NEW d \in Data
    PROVE  LET p == ses[s].profile
               g == [h EXCEPT ![p].data = d, ![p].is_online = 1] IN
           /\ Memory(g, rws, idx, [ses EXCEPT ![s].state = "normal"])
           /\ SameAccounts(h, g, rws \ {p})
<1> DEFINE p == ses[s].profile
           q == [[h[p] EXCEPT !.data = d] EXCEPT !.is_online = 1]
           g == [h EXCEPT ![p].data = d, ![p].is_online = 1]
           v == [ses[s] EXCEPT !.state = "normal"]
           e == [ses EXCEPT ![s].state = "normal"]
<1>1. ses[s] # Closed /\ p \in Ids /\ ses[s].nick \in Nicks /\ h[p] \in Profile
  BY SessionCases, ClosedFields DEF Memory
<1>2. q \in Profile /\ q.nick = h[p].nick
  <2>1. [h[p] EXCEPT !.data = d] \in Profile /\ [h[p] EXCEPT !.data = d].nick = h[p].nick
    BY <1>1 DEF Profile
  <2>2. \A f \in Profile : [f EXCEPT !.is_online = 1] \in Profile
                        /\ [f EXCEPT !.is_online = 1].nick = f.nick
    BY DEF Profile
  <2> HIDE DEF p
  <2> QED BY <2>1, <2>2
<1>3. g[p] = q /\ (\A j \in Ids \ {p} : g[j] = h[j]) /\ g \in [Ids -> Profile \cup {None}]
  BY <1>1, <1>2 DEF Memory
<1>4. ses[s] \in [state : {"verify", "normal"}, nick : Nicks, profile : Ids]
  BY <1>1 DEF Memory, Session
<1>5. v \in Session /\ v.state = "normal" /\ v.profile = p
  BY <1>4 DEF Session
<1>6. e \in [Sessions -> Session] /\ e[s] = v /\ \A t \in Sessions \ {s} : e[t] = ses[t]
  BY <1>5 DEF Memory
<1> HIDE DEF q, g, v, e
<1>7. \A j \in Ids : h[j] \in Profile => g[j] \in Profile /\ g[j].nick = h[j].nick
  BY <1>2, <1>3
<1>8. \A t \in Sessions : e[t] # Closed => g[e[t].profile] \in Profile
  <2> TAKE t \in Sessions
  <2> HAVE e[t] # Closed
  <2>1. CASE t = s
    BY <1>2, <1>3, <1>5, <1>6, <2>1
  <2>2. CASE t # s
    BY <1>6, <1>7, <2>2, SessionCases DEF Memory
  <2> QED BY <2>1, <2>2
<1>9. \A i \in rws : g[i].is_online = 1 =>
            \E t \in Sessions : e[t].state = "normal" /\ e[t].profile = i
  <2> TAKE i \in rws
  <2> HAVE g[i].is_online = 1
  <2>1. CASE i = p
    BY <1>5, <1>6, <2>1
  <2>2. CASE i # p
    <3>1. PICK t \in Sessions : ses[t].state = "normal" /\ ses[t].profile = i
      BY <1>3, <2>2 DEF Memory
    <3> QED BY <1>6, <3>1
  <2> QED BY <2>1, <2>2
<1>10. Memory(g, rws, idx, e)
  <2>1. \A n \in Nicks : idx[n] # None => idx[n] \in rws /\ g[idx[n]].nick = n
    BY <1>7 DEF Memory
  <2>2. \A j \in rws : idx[g[j].nick] = j /\ g[j] \in Profile
    BY <1>7 DEF Memory
  <2> QED BY <1>3, <1>6, <1>8, <1>9, <2>1, <2>2 DEF Memory
<1>11. SameAccounts(h, g, rws \ {p})
  BY <1>3 DEF SameAccounts, Memory
<1> QED BY <1>10, <1>11 DEF g, e

----------------------------------------------------------------------------
(* New tables: there are references enough. *)

LEMMA InjectionExists ==
    ASSUME NEW S, NEW T, IsFiniteSet(S), IsFiniteSet(T), Cardinality(S) <= Cardinality(T)
    PROVE  \E t \in [S -> T] : \A p, q \in S : p # q => t[p] # t[q]
<1>1. Cardinality(S) \in Nat /\ Cardinality(T) \in Nat
  BY FS_CardinalityType
<1>2. ExistsBijection(S, 1..Cardinality(S)) /\ ExistsBijection(1..Cardinality(T), T)
  BY FS_CardinalityType, Fun_ExistsBijSymmetric
<1>3. PICK f : f \in Bijection(S, 1..Cardinality(S))
  BY <1>2 DEF ExistsBijection
<1>4. PICK g : g \in Bijection(1..Cardinality(T), T)
  BY <1>2 DEF ExistsBijection
<1>5. /\ f \in [S -> 1..Cardinality(S)] /\ \A p, q \in S : f[p] = f[q] => p = q
      /\ g \in [1..Cardinality(T) -> T]
      /\ \A i, j \in 1..Cardinality(T) : g[i] = g[j] => i = j
  BY <1>3, <1>4 DEF Bijection, Injection, IsInjective
<1>6. \A p \in S : f[p] \in 1..Cardinality(T)
  BY <1>1, <1>5
<1> DEFINE t == [p \in S |-> g[f[p]]]
<1>7. t \in [S -> T] /\ \A p, q \in S : p # q => t[p] # t[q]
  BY <1>5, <1>6
<1> QED BY <1>7

\* A copy has no more profiles than there are nicks.
LEMMA CopyBound ==
    ASSUME NEW c \in SUBSET Profile, OneEach(c)
    PROVE  IsFiniteSet(c) /\ Cardinality(c) <= Cardinality(Nicks)
<1> DEFINE f == [p \in c |-> p.nick]
<1>1. f \in Injection(c, Nicks)
  BY DEF Injection, IsInjective, OneEach, Profile
<1> QED BY <1>1, FS_Injection, StoreAssumption

\* The sessions hold no more profiles than there are sessions.
LEMMA SessionBound ==
    ASSUME NEW ses
    PROVE  LET P == {ses[s].profile : s \in Sessions} IN
           IsFiniteSet(P) /\ Cardinality(P) <= Cardinality(Sessions)
<1> DEFINE P == {ses[s].profile : s \in Sessions}
           f == [s \in Sessions |-> ses[s].profile]
<1>1. f \in Surjection(Sessions, P)
  BY DEF Surjection
<1> QED BY <1>1, FS_Surjection, StoreAssumption

\* Tables for a copy, none of them in use.
LEMMA TablesShape ==
    ASSUME NEW c, NEW used, IsFiniteSet(c), Cardinality(c) <= Cardinality(Ids \ used)
    PROVE  /\ Tables(c, used) \in [c -> Ids \ used]
           /\ \A p, q \in c : p # q => Tables(c, used)[p] # Tables(c, used)[q]
<1>1. IsFiniteSet(Ids \ used)
  BY FS_Difference, StoreAssumption
<1>2. \E t \in [c -> Ids \ used] : \A p, q \in c : p # q => t[p] # t[q]
  BY <1>1, InjectionExists
<1> QED BY <1>2 DEF Tables

LEMMA OfflineShape ==
    ASSUME NEW c \in SUBSET Profile, OneEach(c)
    PROVE  /\ Offline(c) \in SUBSET Profile /\ OneEach(Offline(c))
           /\ \A p \in Offline(c) : p.is_online = 0
           /\ Accounts(Offline(c)) = Accounts(c)
<1> DEFINE off(p) == [p EXCEPT !.is_online = 0]
<1>1. \A p \in c : /\ off(p) \in Profile /\ off(p).is_online = 0
                   /\ off(p).nick = p.nick /\ off(p).data = p.data
  BY DEF Profile
<1>2. Offline(c) = {off(p) : p \in c}
  BY DEF Offline
<1> HIDE DEF off
<1>3. Offline(c) \in SUBSET Profile /\ \A p \in Offline(c) : p.is_online = 0
  BY <1>1, <1>2
<1>4. OneEach(Offline(c))
  BY <1>1, <1>2 DEF OneEach
<1>5. Accounts(Offline(c)) = Accounts(c)
  BY <1>1, <1>2 DEF Accounts
<1> QED BY <1>3, <1>4, <1>5

\* What is read back has everybody in place, and offline.
LEMMA LoadMemory ==
    ASSUME NEW c \in SUBSET Profile, OneEach(c), NEW h \in [Ids -> Profile \cup {None}],
           NEW ses \in [Sessions -> Session],
           \A s \in Sessions : ses[s] # Closed => h[ses[s].profile] \in Profile,
           Load(c, h, ses)
    PROVE  /\ Memory(heap, rows, index, session)'
           /\ Accounts(Content(heap, rows))' = Accounts(c)
<1> DEFINE O == Offline(c)
           used == Referenced({}, ses)
           t == Tables(O, used)
           g == [i \in Ids |-> IF \E p \in O : t[p] = i THEN CHOOSE p \in O : t[p] = i
                               ELSE h[i]]
           rws == {t[p] : p \in O}
           idx == [n \in Nicks |-> IF \E p \in O : p.nick = n
                                   THEN t[CHOOSE p \in O : p.nick = n] ELSE None]
<1>1. /\ O \in SUBSET Profile /\ OneEach(O) /\ \A p \in O : p.is_online = 0
      /\ Accounts(O) = Accounts(c)
  BY OfflineShape
<1>2. used = {ses[s].profile : s \in Sessions}
  BY DEF Referenced
<1>3. Cardinality(O) <= Cardinality(Ids \ used) /\ IsFiniteSet(O)
  <2>1. Cardinality(O) <= Cardinality(Nicks) /\ IsFiniteSet(O)
    BY <1>1, CopyBound
  <2>2. IsFiniteSet(used) /\ Cardinality(used) <= Cardinality(Sessions)
    BY <1>2, SessionBound
  <2>3. Cardinality(Ids \ used) = Cardinality(Ids) - Cardinality(Ids \cap used)
    BY FS_Difference, StoreAssumption
  <2>4. Cardinality(Ids \cap used) <= Cardinality(used)
    BY <2>2, FS_Intersection
  <2>5. /\ Cardinality(O) \in Nat /\ Cardinality(Nicks) \in Nat /\ Cardinality(Sessions) \in Nat
        /\ Cardinality(Ids) \in Nat /\ Cardinality(used) \in Nat
        /\ Cardinality(Ids \cap used) \in Nat /\ Cardinality(Ids \ used) \in Nat
    BY <2>1, <2>2, FS_CardinalityType, FS_Intersection, FS_Difference, StoreAssumption
  <2> QED BY <2>1, <2>2, <2>3, <2>4, <2>5, StoreAssumption
<1>4. t \in [O -> Ids \ used] /\ \A p, q \in O : p # q => t[p] # t[q]
  BY <1>3, TablesShape
<1>5. Leave(g, rws, ses) /\ index' = idx
  BY DEF Load
<1> HIDE DEF O, used, t
<1>6. \A p \in O : t[p] \in Ids /\ g[t[p]] = p
  <2> TAKE p \in O
  <2>1. t[p] \in Ids
    BY <1>4
  <2>2. (CHOOSE q \in O : t[q] = t[p]) = p
    BY <1>4
  <2> QED BY <2>1, <2>2
<1>7. \A i \in Ids : i \in used => g[i] = h[i]
  BY <1>4
<1>8. g \in [Ids -> Profile \cup {None}]
  BY <1>1
<1>9. \A n \in Nicks : (\E p \in O : p.nick = n) => \E p \in O : p.nick = n /\ idx[n] = t[p]
  <2> TAKE n \in Nicks
  <2> HAVE \E p \in O : p.nick = n
  <2>1. (CHOOSE p \in O : p.nick = n) \in O /\ (CHOOSE p \in O : p.nick = n).nick = n
    OBVIOUS
  <2> QED BY <2>1
<1>10. \A n \in Nicks : ~(\E p \in O : p.nick = n) => idx[n] = None
  OBVIOUS
<1>11. \A p \in O : p.nick \in Nicks /\ idx[p.nick] = t[p]
  BY <1>1, <1>9 DEF OneEach, Profile
<1>12. idx \in [Nicks -> Ids \cup {None}]
  BY <1>6, <1>9, <1>10
<1> HIDE DEF g, idx
<1>13. \A s \in Sessions : ses[s] # Closed => g[ses[s].profile] \in Profile
  BY <1>2, <1>7, SessionCases
<1>14. rws \subseteq Ids /\ \A i \in rws : g[i] \in Profile /\ g[i].is_online # 1 /\ idx[g[i].nick] = i
  BY <1>1, <1>6, <1>11
<1>15. \A n \in Nicks : idx[n] # None => idx[n] \in rws /\ g[idx[n]].nick = n
  BY <1>6, <1>9, <1>10
<1>16. Content(g, rws) = O
  BY <1>6 DEF Content
<1> HIDE DEF rws
<1>17. Memory(g, rws, idx, ses)
  BY <1>8, <1>12, <1>13, <1>14, <1>15 DEF Memory
<1>18. Memory(heap, rows, index, session)' /\ Content(heap, rows)' = Content(g, rws)
  BY <1>5, <1>17, LeaveMemory
<1> QED BY <1>1, <1>16, <1>18

\* An account is made: there is an unused table for it.
LEMMA NewTable ==
    ASSUME NEW h, NEW rws, NEW idx, NEW ses, Memory(h, rws, idx, ses),
           NEW n \in Nicks, idx[n] = None, NEW new
    PROVE  Tables({new}, Referenced(rws, ses))[new] \in Ids \ Referenced(rws, ses)
<1> DEFINE P == {ses[s].profile : s \in Sessions}
           used == Referenced(rws, ses)
           f == [i \in rws |-> h[i].nick]
<1>1. used = rws \cup P
  BY DEF Referenced
<1>2. f \in Injection(rws, Nicks \ {n})
  <2>1. \A i \in rws : h[i].nick \in Nicks /\ h[i].nick # n
    BY StoreAssumption DEF Memory, Profile
  <2>2. \A i, j \in rws : h[i].nick = h[j].nick => i = j
    BY DEF Memory
  <2> QED BY <2>1, <2>2 DEF Injection, IsInjective
<1>3. IsFiniteSet(Nicks \ {n}) /\ Cardinality(Nicks \ {n}) = Cardinality(Nicks) - 1
  BY FS_RemoveElement, StoreAssumption
<1>4. IsFiniteSet(rws) /\ Cardinality(rws) <= Cardinality(Nicks) - 1
  BY <1>2, <1>3, FS_Injection
<1>5. IsFiniteSet(P) /\ Cardinality(P) <= Cardinality(Sessions)
  BY SessionBound
<1>6. IsFiniteSet(used) /\ Cardinality(used) = Cardinality(rws) + Cardinality(P) - Cardinality(rws \cap P)
  BY <1>1, <1>4, <1>5, FS_Union
<1>7. Cardinality(Ids \ used) = Cardinality(Ids) - Cardinality(Ids \cap used)
  BY FS_Difference, StoreAssumption
<1>8. Cardinality(Ids \cap used) <= Cardinality(used)
  BY <1>6, FS_Intersection
<1>9. /\ Cardinality(rws) \in Nat /\ Cardinality(P) \in Nat /\ Cardinality(rws \cap P) \in Nat
      /\ Cardinality(used) \in Nat /\ Cardinality(Ids \cap used) \in Nat
      /\ Cardinality(Ids) \in Nat /\ Cardinality(Nicks) \in Nat /\ Cardinality(Sessions) \in Nat
      /\ Cardinality(Ids \ used) \in Nat
  BY <1>4, <1>5, <1>6, FS_CardinalityType, FS_Intersection, FS_Difference, StoreAssumption
<1> HIDE DEF P, used
<1>10. Cardinality(Ids \ used) >= 1
  BY <1>4, <1>5, <1>6, <1>7, <1>8, <1>9, StoreAssumption
<1>11. IsFiniteSet({new}) /\ Cardinality({new}) = 1
  BY FS_Singleton
<1>12. Tables({new}, used) \in [{new} -> Ids \ used]
  BY <1>9, <1>10, <1>11, TablesShape
<1> QED BY <1>12 DEF used

\* An account in a table of its own.
LEMMA RegMemory ==
    ASSUME NEW h, NEW rws, NEW idx, NEW ses, Memory(h, rws, idx, ses),
           NEW n \in Nicks, idx[n] = None, NEW i \in Ids \ Referenced(rws, ses),
           NEW new \in Profile, new.nick = n, new.is_online = 0
    PROVE  /\ Memory([h EXCEPT ![i] = new], rws \cup {i}, [idx EXCEPT ![n] = i], ses)
           /\ SameAccounts(h, [h EXCEPT ![i] = new], rws)
           /\ i \notin rws
<1> DEFINE g == [h EXCEPT ![i] = new]
           x == [idx EXCEPT ![n] = i]
<1>1. i \notin rws /\ \A s \in Sessions : ses[s].profile # i
  BY DEF Referenced
<1>2. g[i] = new /\ (\A j \in Ids \ {i} : g[j] = h[j]) /\ g \in [Ids -> Profile \cup {None}]
  BY DEF Memory
<1>3. x[n] = i /\ (\A m \in Nicks \ {n} : x[m] = idx[m]) /\ x \in [Nicks -> Ids \cup {None}]
  BY DEF Memory
<1> HIDE DEF g, x
<1>4. \A j \in rws : g[j] = h[j] /\ h[j].nick \in Nicks /\ h[j].nick # n /\ x[h[j].nick] = j
  BY <1>1, <1>2, <1>3, StoreAssumption DEF Memory, Profile
<1>5. \A s \in Sessions : ses[s] # Closed => g[ses[s].profile] \in Profile
  BY <1>1, <1>2, SessionCases DEF Memory
<1>6. \A m \in Nicks : x[m] # None => x[m] \in rws \cup {i} /\ g[x[m]].nick = m
  BY <1>2, <1>3, <1>4 DEF Memory
<1>7. \A j \in rws \cup {i} : g[j] \in Profile /\ x[g[j].nick] = j
  BY <1>2, <1>3, <1>4 DEF Memory
<1>8. \A j \in rws \cup {i} : g[j].is_online = 1 =>
            \E s \in Sessions : ses[s].state = "normal" /\ ses[s].profile = j
  BY <1>2, <1>4 DEF Memory
<1>9. Memory(g, rws \cup {i}, x, ses)
  BY <1>2, <1>3, <1>5, <1>6, <1>7, <1>8 DEF Memory
<1>10. SameAccounts(h, g, rws)
  BY <1>4 DEF SameAccounts
<1> QED BY <1>1, <1>9, <1>10 DEF g, x

\* An account is removed: row and index together.
LEMMA DelMemory ==
    ASSUME NEW h, NEW rws, NEW idx, NEW ses, Memory(h, rws, idx, ses),
           NEW n \in Nicks, idx[n] # None
    PROVE  Memory(h, rws \ {idx[n]}, [idx EXCEPT ![n] = None], ses)
<1> DEFINE x == [idx EXCEPT ![n] = None]
<1>1. x[n] = None /\ (\A m \in Nicks \ {n} : x[m] = idx[m]) /\ x \in [Nicks -> Ids \cup {None}]
  BY DEF Memory
<1> HIDE DEF x
<1>2. \A j \in rws \ {idx[n]} : h[j].nick \in Nicks \ {n} /\ x[h[j].nick] = j
  BY <1>1 DEF Memory, Profile
<1>3. \A m \in Nicks : x[m] # None => x[m] \in rws \ {idx[n]} /\ h[x[m]].nick = m
  BY <1>1 DEF Memory
<1>4. Memory(h, rws \ {idx[n]}, x, ses)
  BY <1>1, <1>2, <1>3 DEF Memory
<1> QED BY <1>4 DEF x

\* A profile has another nick, one that was free.
LEMMA NickMemory ==
    ASSUME NEW h, NEW rws, NEW idx, NEW ses, Memory(h, rws, idx, ses),
           NEW n \in Nicks, NEW m \in Nicks, idx[n] # None, idx[m] = None
    PROVE  /\ Memory([h EXCEPT ![idx[n]].nick = m], rws,
                     [[idx EXCEPT ![n] = None] EXCEPT ![m] = idx[n]], ses)
           /\ SameAccounts(h, [h EXCEPT ![idx[n]].nick = m], rws \ {idx[n]})
<1> DEFINE i == idx[n]
           g == [h EXCEPT ![i].nick = m]
           x == [[idx EXCEPT ![n] = None] EXCEPT ![m] = i]
<1>1. i \in Ids /\ i \in rws /\ h[i] \in Profile /\ h[i].nick = n /\ n # m
  BY DEF Memory
<1>2. [h[i] EXCEPT !.nick = m] \in Profile /\ [h[i] EXCEPT !.nick = m].nick = m
      /\ [h[i] EXCEPT !.nick = m].is_online = h[i].is_online
  BY <1>1 DEF Profile
<1>3. /\ g[i] \in Profile /\ g[i].nick = m /\ g[i].is_online = h[i].is_online
      /\ \A j \in Ids \ {i} : g[j] = h[j]
      /\ g \in [Ids -> Profile \cup {None}]
  BY <1>1, <1>2 DEF Memory
<1>4. /\ x[m] = i /\ x[n] = None /\ \A k \in Nicks \ {n, m} : x[k] = idx[k]
      /\ x \in [Nicks -> Ids \cup {None}]
  BY <1>1 DEF Memory
<1> HIDE DEF g, x
<1>5. \A j \in rws \ {i} : h[j].nick \in Nicks \ {n, m} /\ g[j] = h[j]
  BY <1>3, StoreAssumption DEF Memory, Profile
<1>6. \A j \in rws : g[j] \in Profile /\ x[g[j].nick] = j /\ g[j].is_online = h[j].is_online
  BY <1>3, <1>4, <1>5 DEF Memory
<1>7. \A k \in Nicks : x[k] # None => x[k] \in rws /\ g[x[k]].nick = k
  BY <1>1, <1>3, <1>4 DEF Memory
<1>8. \A s \in Sessions : ses[s] # Closed => g[ses[s].profile] \in Profile
  BY <1>3, SessionCases DEF Memory
<1>9. Memory(g, rws, x, ses)
  BY <1>3, <1>4, <1>6, <1>7, <1>8 DEF Memory
<1>10. SameAccounts(h, g, rws \ {i})
  BY <1>5 DEF SameAccounts
<1> QED BY <1>9, <1>10 DEF g, x, i

----------------------------------------------------------------------------
(* What a save does to the copies. *)

\* The accounts a restart would find.
Found(d) ==
    IF d.file # Bad THEN Accounts(d.file)
    ELSE IF d.backup # Bad THEN Accounts(d.backup) ELSE {}

LEMMA RecoveredIsFound == Recovered = Found(disk) /\ Recovered' = Found(disk')
BY DEF Recovered, Found

Copied(e, c) == e = [file |-> c, backup |-> c, fault |-> "none"]

\* After saves from d, the last one of content c: saved, or one write was refused.
SavedTo(d, e, C, c) ==
    /\ DiskShape(e) /\ e.file # Bad
    /\ Copied(e, c) \/ e.fault = "write"
    /\ e.file \in C \/ (e.file = d.file /\ d.fault = "none")

LEMMA SaveShape ==
    ASSUME NEW d, DiskShape(d), NEW c \in SUBSET Profile, OneEach(c), NEW e \in Save(d, c)
    PROVE  SavedTo(d, e, {c}, c)
<1>1. c # Bad /\ c \in Copy
  BY StoreAssumption DEF Copy
<1>2. CASE e = [file |-> c, backup |-> c, fault |-> "none"]
  <2>1. e \in Disk
    BY <1>1, <1>2 DEF Disk
  <2> QED BY <1>1, <1>2, <2>1 DEF SavedTo, DiskShape, Copied
<1>3. CASE d.fault = "none" /\ e = [d EXCEPT !.fault = "write"]
  BY <1>3 DEF SavedTo, DiskShape, Disk
<1>4. CASE d.fault = "none" /\ e = [d EXCEPT !.file = c, !.fault = "write"]
  <2>1. /\ e \in Disk /\ e.file = c /\ e.backup = d.backup /\ e.fault = "write"
    BY <1>1, <1>4 DEF DiskShape, Disk
  <2> QED BY <1>1, <2>1 DEF SavedTo, DiskShape
<1> QED BY <1>2, <1>3, <1>4 DEF Save

LEMMA AnySave ==
    ASSUME NEW d, DiskShape(d), NEW c \in SUBSET Profile, OneEach(c),
           NEW c2 \in SUBSET Profile, OneEach(c2),
           NEW e \in Save(d, c2) \cup SaveTwice(d, c, c2)
    PROVE  SavedTo(d, e, {c, c2}, c2)
<1>1. CASE e \in Save(d, c2)
  BY <1>1, SaveShape DEF SavedTo
<1>2. CASE e \in SaveTwice(d, c, c2)
  <2>1. PICK f \in Save(d, c) : e \in Save(f, c2)
    BY <1>2 DEF SaveTwice
  <2>2. SavedTo(d, f, {c}, c)
    BY <2>1, SaveShape
  <2>3. SavedTo(f, e, {c2}, c2)
    BY <2>1, <2>2, SaveShape DEF SavedTo
  <2> QED BY <2>2, <2>3 DEF SavedTo
<1> QED BY <1>1, <1>2

LEMMA SavedFound ==
    ASSUME NEW d, DiskShape(d), NEW e, NEW C, NEW c, SavedTo(d, e, C, c)
    PROVE  Found(e) = Found(d) \/ \E x \in C : Found(e) = Accounts(x)
BY DEF SavedTo, Found

----------------------------------------------------------------------------
(* One account at a time. *)

Near(A, B) == Store!AtMostOne(A \ B) /\ Store!AtMostOne(B \ A)

\* Tables that differ in one row hold contents that differ in one account.
LEMMA NearContent ==
    ASSUME NEW h, NEW g, NEW R, NEW T, NEW i, R \ {i} = T \ {i}, SameAccounts(h, g, R \ {i})
    PROVE  Near(Accounts(Content(h, R)), Accounts(Content(g, T)))
<1> DEFINE A == Accounts(Content(h, R))
           B == Accounts(Content(g, T))
<1>1. \A j \in R \ {i} : AccountAt(g, j) = AccountAt(h, j)
  BY DEF SameAccounts, AccountAt
<1>2. \A x : x \in A <=> \E j \in R : x = AccountAt(h, j)
  BY AccountsOfContent
<1>3. \A x : x \in B <=> \E j \in T : x = AccountAt(g, j)
  BY AccountsOfContent
<1> HIDE DEF A, B
<1>4. A \ B \subseteq {AccountAt(h, i)}
  BY <1>1, <1>2, <1>3
<1>5. B \ A \subseteq {AccountAt(g, i)}
  BY <1>1, <1>2, <1>3
<1>6. Near(A, B)
  BY <1>4, <1>5 DEF Near, Store!AtMostOne
<1> QED BY <1>6 DEF A, B

LEMMA NearSame == ASSUME NEW A PROVE Near(A, A)
BY DEF Near, Store!AtMostOne

LEMMA AccountsShape ==
    ASSUME NEW c \in SUBSET Profile, OneEach(c)
    PROVE  Accounts(c) \in SUBSET Account /\ Store!Distinct(Accounts(c))
BY DEF Accounts, Account, Profile, OneEach, Store!Distinct

Known == Accounts(Content(heap, rows))

\* A handler: it changes one account at most, and saves what it leaves, or changes
\* none and saves nothing.
LEMMA Handler ==
    ASSUME IInv, up, up', Memory(heap, rows, index, session)', Near(Known, Known'),
           NEW c \in SUBSET Profile, OneEach(c), Accounts(c) \in {Known, Known'},
           \/ disk' = disk /\ Known' = Known
           \/ disk' \in Save(disk, Content(heap, rows)') \cup SaveTwice(disk, c, Content(heap, rows)')
    PROVE  IInv' /\ Store!Change
<1> DEFINE e == Content(heap, rows)'
<1>1. e \in SUBSET Profile /\ OneEach(e) /\ Known' = Accounts(e)
  BY ContentShape DEF Known
<1>2. DiskShape(disk')
  <2>1. CASE disk' = disk
    BY <2>1 DEF IInv
  <2>2. CASE disk' \in Save(disk, e) \cup SaveTwice(disk, c, e)
    BY <1>1, <2>2, AnySave DEF IInv, SavedTo
  <2> QED BY <2>1, <2>2
<1>3. Saved'
  <2>1. CASE disk' = disk /\ Known' = Known
    BY <2>1 DEF IInv, Saved, Known
  <2>2. CASE disk' \in Save(disk, e) \cup SaveTwice(disk, c, e)
    <3>1. Copied(disk', e) \/ disk'.fault = "write"
      BY <1>1, <2>2, AnySave DEF IInv, SavedTo
    <3> QED BY <1>1, <3>1 DEF Saved, Copied, Known
  <2> QED BY <2>1, <2>2
<1>4. Found(disk') \in {Found(disk), Known, Known'}
  <2>1. CASE disk' = disk
    BY <2>1
  <2>2. CASE disk' \in Save(disk, e) \cup SaveTwice(disk, c, e)
    <3>1. SavedTo(disk, disk', {c, e}, e)
      BY <1>1, <2>2, AnySave DEF IInv
    <3>2. Found(disk') = Found(disk) \/ \E x \in {c, e} : Found(disk') = Accounts(x)
      BY <3>1, SavedFound DEF IInv
    <3> QED BY <1>1, <3>2
  <2> QED BY <2>1, <2>2
<1>5. IInv'
  BY <1>2, <1>3 DEF IInv
<1>6. Known' \in SUBSET Account /\ Store!Distinct(Known')
  BY <1>1, AccountsShape
<1>7. Recovered' \in {Recovered, Known, Known'}
  BY <1>4, RecoveredIsFound
<1>8. Store!Change
  <2>1. (IF up THEN Known ELSE Recovered) = Known
    OBVIOUS
  <2>2. (IF up' THEN Known' ELSE Recovered') = Known'
    OBVIOUS
  <2> QED BY <1>6, <1>7, <2>1, <2>2 DEF Store!Change, Near, Known
<1> QED BY <1>5, <1>8

\* A handler that saved a content with the accounts it leaves.
LEMMA SavedHandler ==
    ASSUME IInv, up, up' = up, Memory(heap, rows, index, session)',
           NEW c \in SUBSET Profile, OneEach(c), Known' = Accounts(c),
           Near(Known, Accounts(c)), SavedTo(disk, disk', {c}, c)
    PROVE  IInv' /\ Store!Change
<1>1. DiskShape(disk')
  BY DEF SavedTo
<1>2. Saved'
  BY DEF SavedTo, Saved, Copied, Known
<1>3. IInv'
  BY <1>1, <1>2 DEF IInv
<1>4. Found(disk') \in {Found(disk), Known'}
  BY SavedFound DEF IInv
<1>5. Recovered' \in {Recovered, Known'}
  BY <1>4, RecoveredIsFound
<1>6. Known' \in SUBSET Account /\ Store!Distinct(Known')
  BY AccountsShape
<1>7. (IF up THEN Known ELSE Recovered) = Known
  OBVIOUS
<1>8. (IF up' THEN Known' ELSE Recovered') = Known'
  OBVIOUS
<1>9. Store!Change
  BY <1>5, <1>6, <1>7, <1>8 DEF Store!Change, Near, Known
<1> QED BY <1>3, <1>9

\* The same for a handler that leaves its tables with Leave, and may have saved
\* content c before.
LEMMA LeaveHandler ==
    ASSUME IInv, up, up' = up, NEW h, NEW rws, NEW idx, NEW ses,
           Memory(h, rws, idx, ses), Leave(h, rws, ses), index' = idx,
           Near(Known, Accounts(Content(h, rws))),
           NEW c \in SUBSET Profile, OneEach(c),
           Accounts(c) \in {Known, Accounts(Content(h, rws))},
           \/ disk' = disk /\ Accounts(Content(h, rws)) = Known
           \/ disk' \in Save(disk, Content(h, rws)) \cup SaveTwice(disk, c, Content(h, rws))
    PROVE  IInv' /\ Store!Change
<1>1. Memory(heap, rows, index, session)' /\ Content(heap, rows)' = Content(h, rws)
  BY LeaveMemory
<1>2. Known' = Accounts(Content(h, rws))
  BY <1>1 DEF Known
<1> QED BY <1>1, <1>2, Handler

\* ... or that saved only what it leaves.
LEMMA SaveHandler ==
    ASSUME IInv, up, up' = up, NEW h, NEW rws, NEW idx, NEW ses,
           Memory(h, rws, idx, ses), Leave(h, rws, ses), index' = idx,
           Near(Known, Accounts(Content(h, rws))),
           \/ disk' = disk /\ Accounts(Content(h, rws)) = Known
           \/ disk' \in Save(disk, Content(h, rws))
    PROVE  IInv' /\ Store!Change
<1>1. Content(h, rws) \in SUBSET Profile /\ OneEach(Content(h, rws))
  BY ContentShape
<1> QED BY <1>1, LeaveHandler

LEMMA SameTrans ==
    ASSUME NEW f, NEW g, NEW h, NEW R, NEW i, SameAccounts(f, g, R), SameAccounts(g, h, R \ {i})
    PROVE  SameAccounts(f, h, R \ {i})
BY DEF SameAccounts

----------------------------------------------------------------------------
(* The handlers. *)

Mem == Memory(heap, rows, index, session)

LEMMA ClosedAllShape ==
    ASSUME NEW K \in SUBSET Sessions
    PROVE  \A s \in Sessions : ClosedAll(K)[s] = IF s \in K THEN Closed ELSE session[s]
BY DEF ClosedAll

LEMMA ChallengeStep ==
    ASSUME IInv, NEW s \in Sessions, NEW n \in Nicks, Challenge(s, n)
    PROVE  IInv' /\ Store!Change
<1>1. PICK K \in {{}} \cup {{t} : t \in Sessions \ {s}} :
        /\ disk' \in IF \E t \in K : session[t].state = "normal"
                     THEN Save(disk, Content(LoggedOut(heap, K), rows)) ELSE {disk}
        /\ Leave(LoggedOut(heap, K), rows, [ClosedAll(K) EXCEPT
                ![s] = [state |-> "verify", nick |-> n, profile |-> index[n]]])
  BY DEF Challenge
<1>2. K \in SUBSET Sessions
  BY <1>1
<1>3. ClosedAll(K)[s] = Closed
  BY <1>2, ClosedAllShape DEF Challenge
<1>4. /\ Memory(LoggedOut(heap, K), rows, index, ClosedAll(K))
      /\ SameAccounts(heap, LoggedOut(heap, K), rows)
  BY <1>2, LogoutMemory DEF IInv
<1>5. Memory(LoggedOut(heap, K), rows, index, [ClosedAll(K) EXCEPT
                ![s] = [state |-> "verify", nick |-> n, profile |-> index[n]]])
  BY <1>3, <1>4, ChallengeMemory DEF Challenge
<1>6. Accounts(Content(LoggedOut(heap, K), rows)) = Known
  BY <1>4, SameContent DEF Known
<1>7. Near(Known, Known)
  BY NearSame
<1> QED BY <1>1, <1>5, <1>6, <1>7, SaveHandler DEF Challenge

\* A session holds a profile that is there.
LEMMA SessionProfile ==
    ASSUME IInv, NEW s \in Sessions, session[s].state \in {"verify", "normal"}
    PROVE  session[s].profile \in Ids /\ heap[session[s].profile] \in Profile
BY SessionCases, ClosedFields DEF IInv, Memory

LEMMA SetDataStep ==
    ASSUME IInv, up, up' = up, NEW i \in Ids, heap[i] \in Profile, NEW d \in Data,
           index' = index, NEW ses,
           \/ ses = session
           \/ \E K \in SUBSET Sessions :
                 ses = ClosedAll(K) /\ \A s \in K : session[s].state # "normal",
           disk' \in Save(disk, Content([heap EXCEPT ![i].data = d], rows)),
           Leave([heap EXCEPT ![i].data = d], rows, ses)
    PROVE  IInv' /\ Store!Change
<1> DEFINE h == [heap EXCEPT ![i].data = d]
<1>1. Memory(h, rows, index, session) /\ SameAccounts(heap, h, rows \ {i})
  BY DataMemory DEF IInv
<1>2. Near(Known, Accounts(Content(h, rows)))
  BY <1>1, NearContent DEF Known
<1> HIDE DEF h
<1>3. Memory(h, rows, index, ses)
  BY <1>1, DropMemory DEF IInv
<1> QED BY <1>2, <1>3, SaveHandler DEF h

LEMMA WrongPasswordStep ==
    ASSUME IInv, NEW s \in Sessions, WrongPassword(s)
    PROVE  IInv' /\ Store!Change
<1> DEFINE p == session[s].profile
<1>1. p \in Ids /\ heap[p] \in Profile
  BY SessionProfile DEF WrongPassword
<1>2. PICK d \in Data :
        /\ disk' \in Save(disk, Content([heap EXCEPT ![p].data = d], rows))
        /\ Leave([heap EXCEPT ![p].data = d], rows, ClosedAll({s}))
  BY DEF WrongPassword
<1>3. \A t \in {s} : session[t].state # "normal"
  BY DEF WrongPassword
<1> QED BY <1>1, <1>2, <1>3, SetDataStep DEF WrongPassword

LEMMA PluginSetPasswordStep ==
    ASSUME IInv, NEW s \in Sessions, NEW d \in Data, PluginSetPassword(s, d)
    PROVE  IInv' /\ Store!Change
<1> DEFINE p == session[s].profile
<1>1. p \in Ids /\ heap[p] \in Profile
  BY SessionProfile DEF PluginSetPassword
<1> QED BY <1>1, SetDataStep DEF PluginSetPassword

LEMMA SetPassStep ==
    ASSUME IInv, NEW n \in Nicks, NEW d \in Data, SetPass(n, d)
    PROVE  IInv' /\ Store!Change
<1>1. index[n] \in Ids /\ heap[index[n]] \in Profile
  BY DEF SetPass, IInv, Memory
<1> QED BY <1>1, SetDataStep DEF SetPass

LEMMA LoginStep ==
    ASSUME IInv, NEW s \in Sessions, Login(s)
    PROVE  IInv' /\ Store!Change
<1> DEFINE p == session[s].profile
           K == Of(session[s].nick, "normal")
           g == LoggedOut(heap, K)
<1>1. PICK d \in Data :
        LET h == [g EXCEPT ![p].data = d, ![p].is_online = 1] IN
        /\ SaveAround(K, heap, Content(h, rows))
        /\ Leave(h, rows, [ClosedAll(K) EXCEPT ![s].state = "normal"])
  BY DEF Login
<1> DEFINE h == [g EXCEPT ![p].data = d, ![p].is_online = 1]
           e == [ClosedAll(K) EXCEPT ![s].state = "normal"]
<1>2. K \in SUBSET Sessions /\ s \notin K
  BY DEF Of, Login
<1>3. ClosedAll(K)[s] = session[s]
  BY <1>2, ClosedAllShape
<1>4. Memory(g, rows, index, ClosedAll(K)) /\ SameAccounts(heap, g, rows)
  BY <1>2, LogoutMemory DEF IInv
<1>5. Accounts(Content(g, rows)) = Known
  BY <1>4, SameContent DEF Known
<1>6. Content(g, rows) \in SUBSET Profile /\ OneEach(Content(g, rows))
  BY <1>4, ContentShape
<1>7. session[s].state = "verify" /\ up /\ up' = up /\ index' = index
  BY DEF Login
<1> HIDE DEF g, K
<1>8. Memory(h, rows, index, e) /\ SameAccounts(g, h, rows \ {p})
  BY <1>3, <1>4, <1>7, LoginMemory
<1>9. Leave(h, rows, e) /\ SaveAround(K, heap, Content(h, rows))
  BY <1>1
<1> HIDE DEF h, e
<1>10. Near(Known, Accounts(Content(h, rows)))
  BY <1>4, <1>8, SameTrans, NearContent DEF Known
<1>11. disk' \in Save(disk, Content(h, rows)) \cup SaveTwice(disk, Content(g, rows), Content(h, rows))
  BY <1>9 DEF SaveAround, g
<1> QED BY <1>5, <1>6, <1>7, <1>8, <1>9, <1>10, <1>11, LeaveHandler

\* Sessions are disconnected and nothing else.
LEMMA DisconnectStep ==
    ASSUME IInv, up, up' = up, index' = index, NEW K \in SUBSET Sessions,
           NEW ses, Memory(LoggedOut(heap, K), rows, index, ses),
           disk' \in Save(disk, Content(LoggedOut(heap, K), rows)),
           Leave(LoggedOut(heap, K), rows, ses)
    PROVE  IInv' /\ Store!Change
<1>1. SameAccounts(heap, LoggedOut(heap, K), rows)
  BY LogoutMemory DEF IInv
<1>2. Accounts(Content(LoggedOut(heap, K), rows)) = Known
  BY <1>1, SameContent DEF Known
<1> QED BY <1>2, NearSame, SaveHandler

LEMMA LogoutStep ==
    ASSUME IInv, NEW s \in Sessions, Logout(s)
    PROVE  IInv' /\ Store!Change
<1>1. Memory(LoggedOut(heap, {s}), rows, index, ClosedAll({s}))
  BY LogoutMemory DEF IInv
<1> QED BY <1>1, DisconnectStep DEF Logout

LEMMA LoginStoppedStep ==
    ASSUME IInv, NEW s \in Sessions, LoginStopped(s)
    PROVE  IInv' /\ Store!Change
<1> DEFINE K == Of(session[s].nick, "normal")
           g == LoggedOut(heap, K)
<1>1. PICK gone \in {{}, {s}} : Leave(g, rows, ClosedAll(K \cup gone))
  BY DEF LoginStopped
<1>2. K \in SUBSET Sessions /\ K \cup gone \in SUBSET Sessions
  BY DEF Of
<1>3. LoggedOut(heap, K \cup gone) = g
  <2>1. \A i \in Ids :
            (\E t \in K \cup gone : session[t].state = "normal" /\ session[t].profile = i)
            <=> \E t \in K : session[t].state = "normal" /\ session[t].profile = i
    BY DEF LoginStopped
  <2> QED BY <2>1 DEF LoggedOut
<1>4. Memory(g, rows, index, ClosedAll(K \cup gone))
  BY <1>2, <1>3, LogoutMemory DEF IInv
<1> QED BY <1>1, <1>2, <1>4, DisconnectStep DEF LoginStopped

LEMMA AbandonStep ==
    ASSUME IInv, NEW s \in Sessions, Abandon(s)
    PROVE  IInv' /\ Store!Change
<1>1. Memory(heap, rows, index, ClosedAll({s}))
  BY DropMemory DEF Abandon, IInv
<1>2. Near(Known, Known) /\ Known = Accounts(Content(heap, rows))
  BY NearSame DEF Known
<1> QED BY <1>1, <1>2, SaveHandler DEF Abandon

LEMMA RegUserStep ==
    ASSUME IInv, NEW n \in Nicks, NEW d \in Data, RegUser(n, d)
    PROVE  IInv' /\ Store!Change
<1> DEFINE new == [nick |-> n, data |-> d, is_online |-> 0]
           i == Tables({new}, Referenced(rows, session))[new]
<1>1. PICK K \in Owners(n) :
        LET g == [LoggedOut(heap, K) EXCEPT ![i] = new] IN
        /\ SaveAround(K, heap, Content(g, rows \cup {i}))
        /\ Leave(g, rows \cup {i}, ClosedAll(K))
        /\ index' = [index EXCEPT ![n] = i]
  BY DEF RegUser
<1> DEFINE h == LoggedOut(heap, K)
           g == [h EXCEPT ![i] = new]
           x == [index EXCEPT ![n] = i]
<1>2. up /\ up' = up /\ index[n] = None
  BY DEF RegUser
<1>3. K \in SUBSET Sessions
  BY DEF Owners, Of
<1>4. new \in Profile /\ new.nick = n /\ new.is_online = 0
  BY DEF Profile
<1>5. i \in Ids \ Referenced(rows, session)
  BY <1>2, NewTable DEF IInv
<1>6. Memory(h, rows, index, ClosedAll(K)) /\ SameAccounts(heap, h, rows)
  BY <1>3, LogoutMemory DEF IInv
<1>7. i \in Ids \ Referenced(rows, ClosedAll(K))
  <2>1. \A s \in Sessions : ClosedAll(K)[s].profile \in {session[s].profile, None}
    BY <1>3, ClosedAllShape, ClosedFields
  <2> QED BY <1>5, <2>1, StoreAssumption DEF Referenced
<1>8. Content(h, rows) \in SUBSET Profile /\ OneEach(Content(h, rows))
  BY <1>6, ContentShape
<1>9. Accounts(Content(h, rows)) = Known
  BY <1>6, SameContent DEF Known
<1> HIDE DEF i, new
<1>10. Memory(g, rows \cup {i}, x, ClosedAll(K)) /\ SameAccounts(h, g, rows) /\ i \notin rows
  <2> HIDE DEF h
  <2> QED BY <1>2, <1>4, <1>6, <1>7, RegMemory
<1>11. Leave(g, rows \cup {i}, ClosedAll(K)) /\ SaveAround(K, heap, Content(g, rows \cup {i}))
       /\ index' = x
  BY <1>1
<1>12. disk' \in Save(disk, Content(g, rows \cup {i}))
               \cup SaveTwice(disk, Content(h, rows), Content(g, rows \cup {i}))
  BY <1>11 DEF SaveAround
<1> HIDE DEF g, h, x
<1>13. rows \ {i} = (rows \cup {i}) \ {i} /\ SameAccounts(heap, g, rows \ {i})
  BY <1>6, <1>10 DEF SameAccounts
<1>14. Near(Known, Accounts(Content(g, rows \cup {i})))
  BY <1>13, NearContent DEF Known
<1> QED BY <1>2, <1>8, <1>9, <1>10, <1>11, <1>12, <1>14, LeaveHandler

LEMMA DelRegStep ==
    ASSUME IInv, NEW n \in Nicks, DelReg(n)
    PROVE  IInv' /\ Store!Change
<1> DEFINE i == index[n]
           left == rows \ {i}
           x == [index EXCEPT ![n] = None]
           c == Content(heap, left)
<1>1. PICK K \in {{}, Of(n, "normal")} :
        /\ disk' \in IF K = {} THEN Save(disk, c) ELSE SaveTwice(disk, c, c)
        /\ Leave(LoggedOut(heap, K), left, ClosedAll(K))
  BY DEF DelReg
<1> DEFINE h == LoggedOut(heap, K)
<1>2. up /\ up' = up /\ index[n] # None /\ index' = x
  BY DEF DelReg
<1>3. K \in SUBSET Sessions
  BY DEF Of
<1>4. Memory(heap, left, x, session)
  BY <1>2, DelMemory DEF IInv
<1>5. Memory(h, left, x, ClosedAll(K)) /\ SameAccounts(heap, h, left)
  BY <1>3, <1>4, LogoutMemory
<1>6. c \in SUBSET Profile /\ OneEach(c)
  BY <1>4, ContentShape
<1>7. Accounts(c) = Accounts(Content(h, left))
  BY <1>5, SameContent
<1>8. Near(Known, Accounts(Content(h, left)))
  <2>1. SameAccounts(heap, heap, rows \ {i}) /\ rows \ {i} = left \ {i}
    BY DEF SameAccounts
  <2>2. Near(Known, Accounts(c))
    BY <2>1, NearContent DEF Known
  <2> QED BY <1>7, <2>2
<1>9. SavedTo(disk, disk', {c}, c)
  <2>1. disk' \in Save(disk, c) \cup SaveTwice(disk, c, c)
    BY <1>1
  <2>2. SavedTo(disk, disk', {c, c}, c)
    BY <1>6, <2>1, AnySave DEF IInv
  <2> QED BY <2>2
<1>10. Memory(heap, rows, index, session)' /\ Content(heap, rows)' = Content(h, left)
  BY <1>1, <1>2, <1>5, LeaveMemory
<1> HIDE DEF h, c, left, x
<1>11. Known' = Accounts(c) /\ Near(Known, Accounts(c))
  BY <1>7, <1>8, <1>10 DEF Known
<1>12. Memory(heap, rows, index, session)'
  BY <1>10
<1> QED BY <1>2, <1>6, <1>9, <1>11, <1>12, SavedHandler

LEMMA SaveDatesStep ==
    ASSUME IInv, SaveDates
    PROVE  IInv' /\ Store!Change
<1>1. Memory(heap, rows, index, session)' /\ Known' = Known
      /\ Content(heap, rows)' = Content(heap, rows)
  BY DEF SaveDates, memory, IInv, Known
<1>2. Content(heap, rows) \in SUBSET Profile /\ OneEach(Content(heap, rows))
  BY ContentShape DEF IInv
<1>3. Near(Known, Known') /\ Known = Accounts(Content(heap, rows))
  BY <1>1, NearSame DEF Known
<1> QED BY <1>1, <1>2, <1>3, Handler DEF SaveDates, memory

\* A rename reads back what it could save, or what was saved before.
LEMMA RenameStep ==
    ASSUME IInv, NEW n \in Nicks, NEW m \in Nicks, Rename(n, m)
    PROVE  IInv' /\ Store!Change
<1> DEFINE i == index[n]
           K == Of(n, "normal")
           r == [heap EXCEPT ![i].nick = m]
           h == LoggedOut(r, K)
           c == Content(h, rows)
           x == [[index EXCEPT ![n] = None] EXCEPT ![m] = i]
<1>1. /\ up /\ up' = up /\ index[n] # None /\ index[m] = None
      /\ SaveAround(K, r, c)
      /\ Load(IF disk'.file = Bad THEN {} ELSE disk'.file, h, ClosedAll(K))
  BY DEF Rename
<1>2. K \in SUBSET Sessions
  BY DEF Of
<1>3. Memory(r, rows, x, session) /\ SameAccounts(heap, r, rows \ {i})
  BY <1>1, NickMemory DEF IInv
<1> HIDE DEF r, x, K
<1>4. Memory(h, rows, x, ClosedAll(K)) /\ SameAccounts(r, h, rows)
  BY <1>2, <1>3, LogoutMemory
<1>5. c \in SUBSET Profile /\ OneEach(c)
  BY <1>4, ContentShape
<1>6. SavedTo(disk, disk', {c}, c)
  <2>1. disk' \in Save(disk, c) \cup SaveTwice(disk, c, c)
    BY <1>1 DEF SaveAround
  <2>2. SavedTo(disk, disk', {c, c}, c)
    BY <1>5, <2>1, AnySave DEF IInv
  <2> QED BY <2>2
<1>7. /\ disk'.file # Bad /\ disk'.file \in SUBSET Profile /\ OneEach(disk'.file)
      /\ DiskShape(disk')
  BY <1>6 DEF SavedTo, DiskShape, Disk, Copy
<1>8. /\ h \in [Ids -> Profile \cup {None}] /\ ClosedAll(K) \in [Sessions -> Session]
      /\ \A s \in Sessions : ClosedAll(K)[s] # Closed => h[ClosedAll(K)[s].profile] \in Profile
  BY <1>4 DEF Memory
<1>9. Load(disk'.file, h, ClosedAll(K))
  BY <1>1, <1>7
<1> HIDE DEF h
<1>10. Memory(heap, rows, index, session)' /\ Known' = Accounts(disk'.file)
  BY <1>7, <1>8, <1>9, LoadMemory DEF Known
<1>11. SameAccounts(heap, h, rows \ {i})
  BY <1>3, <1>4 DEF SameAccounts
<1>12. Near(Known, Accounts(c))
  BY <1>11, NearContent DEF Known
<1>13. disk'.file = c \/ Accounts(disk'.file) = Known
  BY <1>1, <1>6 DEF SavedTo, IInv, Saved, Known
<1> HIDE DEF c, i
<1>14. Near(Known, Known')
  BY <1>10, <1>12, <1>13, NearSame
<1>15. Saved'
  BY <1>1, <1>6, <1>10 DEF SavedTo, Saved, Copied, Known
<1>16. IInv'
  BY <1>1, <1>7, <1>10, <1>15 DEF IInv
<1>17. Recovered' = Known'
  BY <1>7, <1>10 DEF Recovered
<1>18. Known' \in SUBSET Account /\ Store!Distinct(Known')
  BY <1>7, <1>10, AccountsShape
<1>19. Store!Change
  <2>1. (IF up THEN Known ELSE Recovered) = Known
    BY <1>1
  <2>2. (IF up' THEN Known' ELSE Recovered') = Known'
    BY <1>1
  <2> QED BY <1>14, <1>17, <1>18, <2>1, <2>2 DEF Store!Change, Near, Known
<1> QED BY <1>16, <1>19

----------------------------------------------------------------------------
(* Crashes, starts and lost copies. *)

StoreVars == <<IF up THEN Known ELSE Recovered, Recovered>>

LEMMA CrashStep ==
    ASSUME IInv, Crash
    PROVE  IInv' /\ Store!Reload
<1>1. up /\ ~up' /\ up' \in BOOLEAN /\ disk' = disk
  BY DEF Crash
<1>2. Recovered' = Recovered
  BY <1>1 DEF Recovered
<1>3. Memory(heap, rows, index, session)'
  <2>1. /\ heap' = [i \in Ids |-> None] /\ rows' = {} /\ index' = [n \in Nicks |-> None]
        /\ session' = [s \in Sessions |-> Closed]
    BY DEF Crash, NoMemory
  <2> QED BY <2>1 DEF Memory, Session
<1>4. Saved'
  BY <1>1 DEF Saved
<1>5. IInv'
  BY <1>1, <1>3, <1>4 DEF IInv
<1>6. (IF up' THEN Known' ELSE Recovered') = Recovered
  BY <1>1, <1>2
<1>7. Store!Reload
  BY <1>2, <1>6 DEF Store!Reload, Known
<1> QED BY <1>5, <1>7

LEMMA StartStep ==
    ASSUME IInv, Start
    PROVE  IInv' /\ UNCHANGED StoreVars
<1> DEFINE d == Checked(disk)
           c == IF d.file = Bad THEN {} ELSE d.file
<1>1. ~up /\ up' = TRUE /\ disk' \in Save(d, Offline(c)) /\ Load(c, heap, session)
  BY DEF Start
<1>2. DiskShape(d) /\ d.file # Bad /\ Accounts(d.file) = Recovered
  <2>1. disk.file = Bad => disk.backup # Bad
    BY DEF IInv, DiskShape, Disk
  <2>2. CASE disk.file = Bad
    <3>1. d = [disk EXCEPT !.file = disk.backup]
      BY <2>1, <2>2 DEF Checked
    <3>2. /\ d \in Disk /\ d.file = disk.backup /\ d.backup = disk.backup /\ d.fault = disk.fault
      BY <3>1 DEF IInv, DiskShape, Disk
    <3> QED BY <2>1, <2>2, <3>2 DEF IInv, DiskShape, Recovered
  <2>3. CASE disk.file # Bad
    BY <2>3 DEF Checked, IInv, DiskShape, Recovered
  <2> QED BY <2>2, <2>3
<1>3. c = d.file /\ c \in SUBSET Profile /\ OneEach(c)
  BY <1>2 DEF DiskShape, Disk, Copy
<1> HIDE DEF d, c
<1>4. Offline(c) \in SUBSET Profile /\ OneEach(Offline(c)) /\ Accounts(Offline(c)) = Recovered
  BY <1>2, <1>3, OfflineShape
<1>5. Memory(heap, rows, index, session)' /\ Known' = Recovered
  <2>1. /\ heap \in [Ids -> Profile \cup {None}] /\ session \in [Sessions -> Session]
        /\ \A s \in Sessions : session[s] # Closed => heap[session[s].profile] \in Profile
    BY DEF IInv, Memory
  <2> QED BY <1>1, <1>2, <1>3, <2>1, LoadMemory DEF Known
<1>6. SavedTo(d, disk', {Offline(c)}, Offline(c))
  BY <1>1, <1>2, <1>4, SaveShape
<1>7. Recovered' = Recovered
  BY <1>2, <1>4, <1>6 DEF SavedTo, Recovered
<1>8. Saved'
  BY <1>4, <1>5, <1>6 DEF SavedTo, Saved, Copied, Known
<1>9. IInv'
  BY <1>1, <1>5, <1>6, <1>8 DEF IInv, SavedTo
<1>10. (IF up THEN Known ELSE Recovered) = Recovered
  BY <1>1
<1>11. (IF up' THEN Known' ELSE Recovered') = Recovered
  BY <1>1, <1>5
<1> QED BY <1>7, <1>9, <1>10, <1>11 DEF StoreVars

LEMMA LoseStep ==
    ASSUME IInv, NEW copy \in {"file", "backup"}, Lose(copy)
    PROVE  IInv' /\ UNCHANGED StoreVars
<1>1. /\ disk.fault = "none" /\ disk \in Disk /\ disk.file # Bad /\ disk.backup = disk.file
      /\ OneEach(disk.file)
  BY DEF Lose, IInv, DiskShape
<1>2. /\ disk' = [disk EXCEPT ![copy] = Bad, !.fault = "loss"]
      /\ UNCHANGED memory
  BY DEF Lose
<1>3. /\ disk' \in Disk /\ disk'.fault = "loss"
      /\ \/ disk'.file = Bad /\ disk'.backup = disk.file
         \/ disk'.file = disk.file /\ disk'.backup = Bad
  <2>1. CASE copy = "file"
    BY <1>1, <1>2, <2>1 DEF Disk, Copy
  <2>2. CASE copy = "backup"
    BY <1>1, <1>2, <2>2 DEF Disk, Copy
  <2> QED BY <2>1, <2>2
<1>4. DiskShape(disk')
  BY <1>1, <1>3 DEF DiskShape
<1>5. Recovered' = Recovered
  BY <1>1, <1>3 DEF Recovered
<1>6. Known' = Known /\ up' = up /\ Memory(heap, rows, index, session)'
  BY <1>2 DEF Known, memory, IInv
<1>7. up => Known = Accounts(disk.file)
  BY <1>1 DEF IInv, Saved, Known
<1>8. Saved'
  <2> SUFFICES ASSUME up PROVE Known' \in {Accounts(c) : c \in {disk'.file, disk'.backup} \ {Bad}}
    BY <1>3, <1>6 DEF Saved, Known
  <2>1. disk.file \in {disk'.file, disk'.backup} \ {Bad}
    BY <1>1, <1>3
  <2> QED BY <1>6, <1>7, <2>1
<1>9. IInv'
  BY <1>4, <1>6, <1>8 DEF IInv
<1> QED BY <1>5, <1>6, <1>9 DEF StoreVars

----------------------------------------------------------------------------
(* The theorems. *)

LEMMA InitInv == Init => IInv /\ Store!Init
<1> SUFFICES ASSUME Init PROVE IInv /\ Store!Init
  OBVIOUS
<1>1. PICK n \in Nicks, d \in Data :
        LET c == {[nick |-> n, data |-> d, is_online |-> 0]} IN
        disk = [file |-> c, backup |-> c, fault |-> "none"]
  BY DEF Init
<1> DEFINE c == {[nick |-> n, data |-> d, is_online |-> 0]}
<1>2. c \in SUBSET Profile /\ OneEach(c)
  BY DEF Profile, OneEach
<1>3. disk = [file |-> c, backup |-> c, fault |-> "none"]
  BY <1>1
<1> HIDE DEF c
<1>4. c # Bad /\ c \in Copy
  BY <1>2, StoreAssumption DEF Copy
<1>5. DiskShape(disk) /\ disk.file = c
  BY <1>2, <1>3, <1>4 DEF DiskShape, Disk
<1>6. up = FALSE
  BY DEF Init
<1>7. Memory(heap, rows, index, session)
  <2>1. /\ heap = [i \in Ids |-> None] /\ rows = {} /\ index = [k \in Nicks |-> None]
        /\ session = [s \in Sessions |-> Closed]
    BY DEF Init
  <2> QED BY <2>1 DEF Memory, Session
<1>8. IInv
  BY <1>5, <1>6, <1>7 DEF IInv, Saved
<1>9. Recovered = Accounts(c)
  BY <1>4, <1>5 DEF Recovered
<1>10. Store!Init
  <2>1. Recovered \in SUBSET Account /\ Store!Distinct(Recovered)
    BY <1>2, <1>9, AccountsShape
  <2>2. (IF up THEN Known ELSE Recovered) = Recovered
    BY <1>6
  <2> QED BY <2>1, <2>2 DEF Store!Init, Known
<1> QED BY <1>8, <1>10

\* Every step keeps the invariant, and is a step of the account store or of none.
LEMMA NextStep ==
    ASSUME IInv, [Next]_vars
    PROVE  IInv' /\ (Store!Next \/ UNCHANGED StoreVars)
<1>1. ASSUME NEW s \in Sessions, NEW n \in Nicks, Challenge(s, n)
      PROVE  IInv' /\ Store!Next
  BY <1>1, ChallengeStep DEF Store!Next
<1>2. ASSUME NEW s \in Sessions, WrongPassword(s) PROVE IInv' /\ Store!Next
  BY <1>2, WrongPasswordStep DEF Store!Next
<1>3. ASSUME NEW s \in Sessions, Login(s) PROVE IInv' /\ Store!Next
  BY <1>3, LoginStep DEF Store!Next
<1>4. ASSUME NEW s \in Sessions, LoginStopped(s) PROVE IInv' /\ Store!Next
  BY <1>4, LoginStoppedStep DEF Store!Next
<1>5. ASSUME NEW s \in Sessions, Logout(s) PROVE IInv' /\ Store!Next
  BY <1>5, LogoutStep DEF Store!Next
<1>6. ASSUME NEW s \in Sessions, Abandon(s) PROVE IInv' /\ Store!Next
  BY <1>6, AbandonStep DEF Store!Next
<1>7. ASSUME NEW s \in Sessions, NEW d \in Data, PluginSetPassword(s, d)
      PROVE  IInv' /\ Store!Next
  BY <1>7, PluginSetPasswordStep DEF Store!Next
<1>8. ASSUME NEW n \in Nicks, DelReg(n) PROVE IInv' /\ Store!Next
  BY <1>8, DelRegStep DEF Store!Next
<1>9. ASSUME NEW n \in Nicks, NEW d \in Data, RegUser(n, d) PROVE IInv' /\ Store!Next
  BY <1>9, RegUserStep DEF Store!Next
<1>10. ASSUME NEW n \in Nicks, NEW d \in Data, SetPass(n, d) PROVE IInv' /\ Store!Next
  BY <1>10, SetPassStep DEF Store!Next
<1>11. ASSUME NEW n \in Nicks, NEW m \in Nicks, Rename(n, m) PROVE IInv' /\ Store!Next
  BY <1>11, RenameStep DEF Store!Next
<1>12. ASSUME SaveDates PROVE IInv' /\ Store!Next
  BY <1>12, SaveDatesStep DEF Store!Next
<1>13. ASSUME Crash PROVE IInv' /\ Store!Next
  BY <1>13, CrashStep DEF Store!Next
<1>14. ASSUME Start PROVE IInv' /\ UNCHANGED StoreVars
  BY <1>14, StartStep
<1>15. ASSUME NEW copy \in {"file", "backup"}, Lose(copy) PROVE IInv' /\ UNCHANGED StoreVars
  BY <1>15, LoseStep
<1>16. ASSUME UNCHANGED vars PROVE IInv' /\ UNCHANGED StoreVars
  BY <1>16 DEF vars, IInv, Saved, StoreVars, Known, Recovered
<1> QED
  BY <1>1, <1>2, <1>3, <1>4, <1>5, <1>6, <1>7, <1>8, <1>9, <1>10, <1>11, <1>12, <1>13,
     <1>14, <1>15, <1>16 DEF Next

\* The inductive invariant of the user database.
THEOREM Invariance == Spec => []IInv
<1>1. IInv /\ [Next]_vars => IInv'
  BY NextStep
<1> QED BY <1>1, InitInv, PTL DEF Spec

\* Every variable has its type: a row is never a table that was given back, and a
\* session that was let in holds a profile, whatever was renamed, removed or read
\* back in between.
THEOREM TypeCorrect == Spec => []TypeOK
<1>1. IInv => TypeOK
  <2> SUFFICES ASSUME IInv PROVE TypeOK
    OBVIOUS
  <2>1. rows \in SUBSET {i \in Ids : heap[i] # None}
    BY StoreAssumption DEF IInv, Memory
  <2> QED BY <2>1 DEF IInv, Memory, DiskShape, TypeOK
<1> QED BY <1>1, Invariance, PTL

\* The rows and the index by nick are the same accounts, and only a session that is
\* logged in shows a profile online (reguser, delreguser, updateusers, disconnect).
THEOREM TablesCorrect == Spec => []TablesAgree
<1>1. IInv => TablesAgree
  BY DEF IInv, Memory, TablesAgree
<1> QED BY <1>1, Invariance, PTL

\* What a save that went through left on disk is what the hub works with, in both
\* copies, and one of them is left when one is lost (saveusers, checkusers).
THEOREM SavedCorrect == Spec => []Saved
<1>1. IInv => Saved
  BY DEF IInv
<1> QED BY <1>1, Invariance, PTL

\* The user database implements the account store: no step of a handler, a crash, a
\* refused write or a lost copy changes or loses more than one account.
THEOREM StoreImplemented == Spec => ImplementsStore
<1>1. Init => Store!Init
  BY InitInv
<1>2. IInv /\ [Next]_vars =>
        [Store!Next]_<<IF up THEN Accounts(Content(heap, rows)) ELSE Recovered, Recovered>>
  BY NextStep DEF StoreVars, Known
<1> QED BY <1>1, <1>2, Invariance, PTL DEF Spec, ImplementsStore, Store!Spec
=============================================================================
