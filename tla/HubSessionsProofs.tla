------------------------- MODULE HubSessionsProofs -------------------------
(***************************************************************************)
(* TLAPS proofs about HubSessions: its safety properties hold for every    *)
(* number of connections, bots, nicks and CIDs.                            *)
(***************************************************************************)
EXTENDS HubSessions, FiniteSetTheorems, TLAPS

Fresh == {"none", "protocol", "identify"}
Known == {"verify", "hbri", "normal"}
Entered == {"hbri", "normal"}

\* What a connection has in each state: an INF from "verify" on, a takeover
\* target only while its password is awaited.
ConnShape ==
    \A c \in Conns :
        /\ c \in online <=> state[c] = "normal"
        /\ state[c] \in Fresh => nick[c] = None /\ cid[c] = None
        /\ state[c] \in Known => nick[c] \in Nicks /\ cid[c] \in ClientCids
        /\ takeover[c] # None => /\ state[c] = "verify" /\ takeover[c] # c
                                 /\ RegOnly
        /\ state[c] = "verify" => profile[c] # "none"

\* A running bot has its nick and its CID, in its INF and in the slots.
BotShape ==
    \A b \in Bots :
        /\ b \in online => /\ nick[b] = BotNick[b] /\ nickSlot[BotNick[b]] = b
                           /\ cid[b] = BotCid[b] /\ cidSlot[BotCid[b]] = b
        /\ b \notin online => nick[b] = None /\ cid[b] = None

\* A connection that is not waiting for another user's nick owns its own.
NickHeld ==
    \A c \in Conns :
        state[c] \in Known /\ takeover[c] = None /\ nick[c] \notin BotNicks
            => nickSlot[nick[c]] = c

\* In an open hub every connection with an INF owns its CID.
CidHeld ==
    ~RegOnly => \A c \in Conns : state[c] \in Known => cidSlot[cid[c]] = c

\* A user that answered no challenge has, and owns, a nick nobody registered.
Guests ==
    ~NickChange => \A c \in Conns :
        state[c] \in Entered /\ profile[c] # "user"
            => account[nick[c]] = "none" /\ nickSlot[nick[c]] = c

IInv ==
    /\ TypeOK /\ CountExact /\ SlotsLive /\ TokenMatchesState
    /\ ConnShape /\ BotShape /\ NickHeld /\ CidHeld /\ Guests

-----------------------------------------------------------------------------
(***************************************************************************)
(* The count.                                                              *)
(***************************************************************************)
\* The people still online when the users of K left, and their number.
LEMMA CountLeaving ==
    ASSUME TypeOK, CountExact, ConnShape, NEW K
    PROVE  /\ userCount - HumansLeaving(K) = Cardinality((online \ K) \cap Conns)
           /\ userCount - HumansLeaving(K) \in Nat
           /\ IsFiniteSet((online \ K) \cap Conns)
<1> DEFINE O == online \cap Conns
<1>1. IsFiniteSet(O)
  BY FS_Subset, ConstantsAssumption DEF ConstantsAssumption
<1>2. {c \in K \cap Conns : state[c] = "normal"} = O \cap K
  BY DEF ConnShape
<1>3. (online \ K) \cap Conns = O \ K
  OBVIOUS
<1>4. /\ IsFiniteSet(O \ K)
      /\ Cardinality(O \ K) = Cardinality(O) - Cardinality(O \cap K)
  BY <1>1, FS_Difference
<1>5. Cardinality(O \ K) \in Nat
  BY <1>4, FS_CardinalityType
<1> QED
  BY <1>2, <1>3, <1>4, <1>5 DEF CountExact, HumansLeaving

\* The same when c enters "normal" after them.
LEMMA CountEntering ==
    ASSUME TypeOK, CountExact, ConnShape, NEW K, NEW c \in Conns, NEW s,
           state[c] # "normal", EnterOnline(c, K, s)
    PROVE  CountExact' /\ userCount' \in Nat
<1> DEFINE P == (online \ K) \cap Conns
<1>1. /\ userCount - HumansLeaving(K) = Cardinality(P)
      /\ Cardinality(P) \in Nat /\ IsFiniteSet(P)
  BY CountLeaving
<1>2. c \notin P
  BY DEF ConnShape
<1>3. Cardinality(P \cup {c}) = Cardinality(P) + 1
  BY <1>1, <1>2, FS_AddElement
<1>4. CASE s = "normal"
  <2>1. online' \cap Conns = P \cup {c}
    BY <1>4 DEF EnterOnline
  <2>2. userCount' = Cardinality(P) + 1
    BY <1>1, <1>4 DEF EnterOnline
  <2>3. Cardinality(online' \cap Conns) = Cardinality(P) + 1
    BY <2>1, <1>3
  <2> HIDE DEF P
  <2> QED
    BY <2>2, <2>3, <1>1 DEF CountExact
<1>5. CASE s # "normal"
  <2>1. online' \cap Conns = P
    BY <1>5 DEF EnterOnline
  <2>2. userCount' = Cardinality(P)
    BY <1>1, <1>5 DEF EnterOnline
  <2> QED
    BY <2>1, <2>2, <1>1 DEF CountExact
<1> QED
  BY <1>4, <1>5

-----------------------------------------------------------------------------
(***************************************************************************)
(* Who shows a CID.                                                        *)
(***************************************************************************)
\* Nobody shows the CID of a running bot but the bot.
LEMMA BotCidUnique ==
    ASSUME IInv, NEW b \in Bots, b \in online, NEW u \in Users,
           cid[u] = BotCid[b]
    PROVE  u = b
<1> USE ConstantsAssumption DEF ConstantsAssumption
<1>1. BotCid[b] \in Cids \ ClientCids /\ BotCid[b] # None
  BY DEF ClientCids
<1>2. CASE u \in Conns
  BY <1>1, <1>2 DEF IInv, TypeOK, ConnShape, States, Fresh, Known
<1>3. CASE u \in Bots
  BY <1>1, <1>3 DEF IInv, BotShape
<1> QED
  BY <1>2, <1>3 DEF Users

\* In an open hub no two connections show one CID.
LEMMA ConnCidUnique ==
    ASSUME IInv, ~RegOnly, NEW c \in Conns, state[c] \in Known, NEW u \in Users,
           cid[u] = cid[c]
    PROVE  u = c
<1> USE ConstantsAssumption DEF ConstantsAssumption
<1>1. cid[c] \in ClientCids /\ cid[c] # None /\ cidSlot[cid[c]] = c
  BY DEF IInv, ConnShape, CidHeld, ClientCids
<1>2. CASE u \in Conns
  BY <1>1, <1>2 DEF IInv, TypeOK, ConnShape, CidHeld, States, Fresh, Known
<1>3. CASE u \in Bots
  BY <1>1, <1>3 DEF IInv, BotShape, ClientCids
<1> QED
  BY <1>2, <1>3 DEF Users

-----------------------------------------------------------------------------
(***************************************************************************)
(* Users that leave.                                                       *)
(***************************************************************************)
\* The nick of a guest that stays is not registered meanwhile.
GuestsStay(K) ==
    ~NickChange => \A c \in Conns \ K :
        state[c] \in Entered /\ profile[c] # "user"
            => account'[nick[c]] = "none"

\* Depart disturbs nothing that the others rely on.
LEMMA DepartKeeps ==
    ASSUME IInv, NEW K \in SUBSET Users, Depart(K), GuestsStay(K),
           account' \in [Nicks -> Kinds]
    PROVE  IInv'
<1> USE ConstantsAssumption DEF ConstantsAssumption
<1> DEFINE Gone(u, x, v) == IF u \in K THEN v ELSE x
<1>0. /\ \A c \in Conns : /\ state'[c] = Gone(c, state[c], "none")
                         /\ profile'[c] = Gone(c, profile[c], "none")
                         /\ takeover'[c] = Gone(c, takeover[c], None)
      /\ \A u \in Users : /\ nick'[u] = Gone(u, nick[u], None)
                         /\ cid'[u] = Gone(u, cid[u], None)
      /\ \A n \in Nicks :
            nickSlot'[n] = IF nickSlot[n] \in K /\ nick[nickSlot[n]] = n
                           THEN None ELSE nickSlot[n]
      /\ \A h \in Cids :
            cidSlot'[h] = IF \E u \in K : cid[u] = h THEN None ELSE cidSlot[h]
      /\ online' = online \ K
  BY DEF IInv, TypeOK, Depart, FreeNicks, FreeCids, Reset, Users
<1>1. TypeOK'
  <2>1. userCount' \in Nat
    BY CountLeaving DEF IInv, Depart
  <2>2. /\ nickSlot' \in [Nicks -> Users \cup {None}]
        /\ cidSlot' \in [Cids -> Users \cup {None}]
    BY DEF IInv, TypeOK, Depart, FreeNicks, FreeCids
  <2> QED
    BY <2>1, <2>2 DEF IInv, TypeOK, Depart, Forget, Reset, States, Kinds, Users
<1>2. CountExact'
  BY CountLeaving DEF IInv, CountExact, Depart
<1>3. SlotsLive'
  <2>1. ASSUME NEW n \in Nicks, nickSlot'[n] # None
        PROVE  nick'[nickSlot'[n]] = n
    BY <2>1, <1>0 DEF IInv, TypeOK, SlotsLive
  <2>2. ASSUME NEW h \in Cids, cidSlot'[h] # None
        PROVE  cid'[cidSlot'[h]] = h
    BY <2>2, <1>0 DEF IInv, TypeOK, SlotsLive
  <2> QED
    BY <2>1, <2>2 DEF SlotsLive
<1>4. TokenMatchesState'
  BY DEF IInv, TypeOK, TokenMatchesState, Depart, Reset
<1>5. ConnShape'
  BY DEF IInv, TypeOK, ConnShape, Depart, Reset, Fresh, Known, Users
<1>6. BotShape'
  <2>1. ASSUME NEW b \in Bots, b \in online'
        PROVE  /\ nick'[b] = BotNick[b] /\ nickSlot'[BotNick[b]] = b
               /\ cid'[b] = BotCid[b] /\ cidSlot'[BotCid[b]] = b
    <3>1. b \in Users /\ b \notin K /\ b \in online
      BY <2>1, <1>0 DEF Users
    <3>2. /\ nick[b] = BotNick[b] /\ nickSlot[BotNick[b]] = b
          /\ cid[b] = BotCid[b] /\ cidSlot[BotCid[b]] = b
      BY <3>1 DEF IInv, BotShape
    <3>3. ~ \E u \in K : cid[u] = BotCid[b]
      BY <3>1, BotCidUnique
    <3> QED
      BY <3>1, <3>2, <3>3, <1>0
  <2>2. ASSUME NEW b \in Bots, b \notin online'
        PROVE  nick'[b] = None /\ cid'[b] = None
    <3>1. b \in Users /\ (b \in K \/ b \notin online)
      BY <2>2, <1>0 DEF Users
    <3>2. b \notin online => nick[b] = None /\ cid[b] = None
      BY DEF IInv, BotShape
    <3> QED
      BY <3>1, <3>2, <1>0
  <2> QED
    BY <2>1, <2>2 DEF BotShape
<1>7. NickHeld'
  BY <1>0 DEF IInv, TypeOK, ConnShape, NickHeld, Known, Users, BotNicks
<1>8. CidHeld'
  <2> SUFFICES ASSUME ~RegOnly, NEW c \in Conns, state'[c] \in Known
               PROVE  cidSlot'[cid'[c]] = c
    BY DEF CidHeld
  <2>1. c \in Users /\ c \notin K /\ state[c] \in Known
    BY <1>0 DEF Users, Known
  <2>2. cid[c] \in Cids /\ cidSlot[cid[c]] = c
    BY <2>1 DEF IInv, CidHeld, ConnShape, ClientCids
  <2>3. ~ \E u \in K : cid[u] = cid[c]
    BY <2>1, ConnCidUnique
  <2> QED
    BY <2>1, <2>2, <2>3, <1>0
<1>9. Guests'
  <2> SUFFICES ASSUME ~NickChange, NEW c \in Conns,
                      state'[c] \in Entered, profile'[c] # "user"
               PROVE  account'[nick'[c]] = "none" /\ nickSlot'[nick'[c]] = c
    BY DEF Guests
  <2>1. c \notin K /\ c \in Users /\ nick'[c] = nick[c]
    BY <1>0 DEF Users, Entered
  <2>2. /\ account[nick[c]] = "none" /\ nickSlot[nick[c]] = c
        /\ account'[nick[c]] = "none" /\ nick[c] \in Nicks
    BY <2>1, <1>0 DEF IInv, Guests, GuestsStay, ConnShape, Known, Entered
  <2> QED
    BY <2>1, <2>2, <1>0
<1> QED
  BY <1>1, <1>2, <1>3, <1>4, <1>5, <1>6, <1>7, <1>8, <1>9 DEF IInv

\* The fields of the users that did not leave.
LEMMA ResetTypes ==
    ASSUME TypeOK, NEW K
    PROVE  /\ Reset(state, K, "none") \in [Conns -> States]
           /\ Reset(nick, K, None) \in [Users -> Nicks \cup {None}]
           /\ Reset(firstnick, K, None) \in [Conns -> Nicks \cup {None}]
           /\ Reset(cid, K, None) \in [Users -> Cids \cup {None}]
           /\ Reset(profile, K, "none") \in [Conns -> Kinds]
           /\ Reset(takeover, K, None) \in [Conns -> Users \cup {None}]
           /\ Reset(token, K, "none") \in [Conns -> {"none", "login", "post"}]
           /\ FreeNicks(K) \in [Nicks -> Users \cup {None}]
           /\ FreeCids(K) \in [Cids -> Users \cup {None}]
BY DEF TypeOK, Reset, FreeNicks, FreeCids, States, Kinds

-----------------------------------------------------------------------------
(***************************************************************************)
(* A connection that gets a nick and a CID: BINF, or HPAS after a takeover. *)
(***************************************************************************)
Left(K, u, x, v) == IF u \in K THEN v ELSE x

\* c shows the nick n and the CID h and enters s, the users of K left before.
Arrival(c, K, s, n, h) ==
    /\ \A d \in Conns \ {c} : /\ state'[d] = Left(K, d, state[d], "none")
                              /\ profile'[d] = Left(K, d, profile[d], "none")
                              /\ takeover'[d] = Left(K, d, takeover[d], None)
                              /\ token'[d] = Left(K, d, token[d], "none")
    /\ \A u \in Users \ {c} : /\ nick'[u] = Left(K, u, nick[u], None)
                              /\ cid'[u] = Left(K, u, cid[u], None)
    /\ state'[c] = s /\ nick'[c] = n /\ cid'[c] = h /\ takeover'[c] = None
    /\ token'[c] = IF s = "hbri" THEN "login" ELSE "none"
    /\ \A m \in Nicks : nickSlot'[m] = IF m = n THEN c ELSE FreeNicks(K)[m]
    /\ \A g \in Cids : cidSlot'[g] = IF g = h THEN c ELSE FreeCids(K)[g]
    /\ EnterOnline(c, K, s)
    /\ account' = account

\* The nick is free, nobody else is left with the CID (in an open hub), c has
\* no other slot, and it is a guest only under a nick nobody registered.
MayArrive(c, K, s, n, h) ==
    /\ c \notin K /\ s \in Known /\ state[c] \in {"identify", "verify"}
    /\ n \in Nicks /\ h \in ClientCids
    /\ FreeNicks(K)[n] = None
    /\ \A m \in Nicks : nickSlot[m] # c
    /\ \A g \in Cids : cidSlot[g] = c => g = h
    /\ ~RegOnly => \A u \in Users \ (K \cup {c}) : cid[u] # h
    /\ s = "verify" => profile'[c] # "none"
    /\ s \in Entered => profile'[c] = "user" \/ account[n] = "none"

\* An arrival under these conditions takes nothing from anybody.
LEMMA ArrivalKeeps ==
    ASSUME IInv, NEW K \in SUBSET Users, NEW c \in Conns, NEW s, NEW n, NEW h,
           MayArrive(c, K, s, n, h), Arrival(c, K, s, n, h), TypeOK'
    PROVE  IInv'
<1> USE ConstantsAssumption DEF ConstantsAssumption
<1>1. CountExact'
  BY CountEntering DEF IInv, MayArrive, Arrival
<1>2. online' = (online \ K) \cup (IF s = "normal" THEN {c} ELSE {})
  BY DEF Arrival, EnterOnline
<1>3. /\ c \notin online /\ c \in Users /\ c \notin Bots /\ c # None
      /\ h \in Cids /\ h # None /\ n # None
  BY DEF IInv, MayArrive, ConnShape, Users, ClientCids
<1>4. /\ \A m \in Nicks : FreeNicks(K)[m] =
            IF nickSlot[m] \in K /\ nick[nickSlot[m]] = m THEN None ELSE nickSlot[m]
      /\ \A g \in Cids : FreeCids(K)[g] =
            IF \E u \in K : cid[u] = g THEN None ELSE cidSlot[g]
  BY DEF FreeNicks, FreeCids
<1>5. SlotsLive'
  <2>1. ASSUME NEW m \in Nicks, nickSlot'[m] # None
        PROVE  nick'[nickSlot'[m]] = m
    BY <2>1, <1>3, <1>4 DEF IInv, TypeOK, SlotsLive, Arrival, MayArrive, Left
  <2>2. ASSUME NEW g \in Cids, cidSlot'[g] # None
        PROVE  cid'[cidSlot'[g]] = g
    BY <2>2, <1>3, <1>4 DEF IInv, TypeOK, SlotsLive, Arrival, MayArrive, Left
  <2> QED
    BY <2>1, <2>2 DEF SlotsLive
<1>6. TokenMatchesState'
  BY DEF IInv, TokenMatchesState, Arrival, Left
<1>7. ConnShape'
  <2> SUFFICES ASSUME NEW d \in Conns
               PROVE  /\ d \in online' <=> state'[d] = "normal"
                      /\ state'[d] \in Fresh => nick'[d] = None /\ cid'[d] = None
                      /\ state'[d] \in Known => nick'[d] \in Nicks /\ cid'[d] \in ClientCids
                      /\ takeover'[d] # None => /\ state'[d] = "verify"
                                                /\ takeover'[d] # d /\ RegOnly
                      /\ state'[d] = "verify" => profile'[d] # "none"
    BY DEF ConnShape
  <2>1. CASE d = c
    BY <2>1, <1>2, <1>3 DEF Arrival, MayArrive, Fresh, Known
  <2>2. CASE d # c
    BY <2>2, <1>2 DEF IInv, ConnShape, Arrival, Left, Users, Fresh, Known
  <2> QED
    BY <2>1, <2>2
<1>8. BotShape'
  <2>1. ASSUME NEW b \in Bots, b \in online'
        PROVE  /\ nick'[b] = BotNick[b] /\ nickSlot'[BotNick[b]] = b
               /\ cid'[b] = BotCid[b] /\ cidSlot'[BotCid[b]] = b
    <3>1. b \in Users /\ b \notin K /\ b \in online /\ b # c /\ b # None
      BY <2>1, <1>2, <1>3 DEF Users
    <3>2. /\ nick[b] = BotNick[b] /\ nickSlot[BotNick[b]] = b
          /\ cid[b] = BotCid[b] /\ cidSlot[BotCid[b]] = b
      BY <3>1 DEF IInv, BotShape
    <3>3. ~ \E u \in K : cid[u] = BotCid[b]
      BY <3>1, BotCidUnique
    <3>4. BotCid[b] # h /\ BotNick[b] # n
      BY <3>1, <3>2, <1>4 DEF MayArrive, ClientCids
    <3> QED
      BY <3>1, <3>2, <3>3, <3>4, <1>4 DEF Arrival, Left
  <2>2. ASSUME NEW b \in Bots, b \notin online'
        PROVE  nick'[b] = None /\ cid'[b] = None
    <3>1. b \in Users /\ b # c /\ (b \in K \/ b \notin online)
      BY <2>2, <1>2, <1>3 DEF Users
    <3>2. b \notin online => nick[b] = None /\ cid[b] = None
      BY DEF IInv, BotShape
    <3> QED
      BY <3>1, <3>2 DEF Arrival, Left
  <2> QED
    BY <2>1, <2>2 DEF BotShape
<1>9. ASSUME NEW d \in Conns, d # c, state'[d] \in Known
      PROVE  /\ d \notin K /\ d \in Users /\ d # None /\ state[d] \in Known
             /\ state'[d] = state[d] /\ profile'[d] = profile[d]
             /\ takeover'[d] = takeover[d]
             /\ nick'[d] = nick[d] /\ cid'[d] = cid[d]
             /\ nick[d] \in Nicks /\ cid[d] \in Cids
             /\ nickSlot[nick[d]] = d => nickSlot'[nick[d]] = d
  <2>1. /\ d \notin K /\ d \in Users /\ d # None
        /\ state'[d] = state[d] /\ profile'[d] = profile[d]
        /\ takeover'[d] = takeover[d]
        /\ nick'[d] = nick[d] /\ cid'[d] = cid[d]
    BY <1>9 DEF Arrival, Left, Users, Known
  <2>2. nick[d] \in Nicks /\ cid[d] \in Cids
    BY <1>9, <2>1 DEF IInv, ConnShape, ClientCids
  <2>3. nickSlot[nick[d]] = d => nickSlot'[nick[d]] = d
    BY <2>1, <2>2, <1>4 DEF Arrival, MayArrive
  <2> QED
    BY <1>9, <2>1, <2>2, <2>3
<1>10. NickHeld'
  <2> SUFFICES ASSUME NEW d \in Conns, state'[d] \in Known, takeover'[d] = None,
                      nick'[d] \notin BotNicks
               PROVE  nickSlot'[nick'[d]] = d
    BY DEF NickHeld, BotNicks
  <2>1. CASE d = c
    BY <2>1 DEF Arrival, MayArrive
  <2>2. CASE d # c
    BY <2>2, <1>9 DEF IInv, NickHeld
  <2> QED
    BY <2>1, <2>2
<1>11. CidHeld'
  <2> SUFFICES ASSUME ~RegOnly, NEW d \in Conns, state'[d] \in Known
               PROVE  cidSlot'[cid'[d]] = d
    BY DEF CidHeld
  <2>1. CASE d = c
    BY <2>1, <1>3 DEF Arrival
  <2>2. CASE d # c
    <3>1. ~ \E u \in K : cid[u] = cid[d]
      BY <2>2, <1>9, ConnCidUnique
    <3>2. cidSlot[cid[d]] = d
      BY <2>2, <1>9 DEF IInv, CidHeld
    <3>3. cid[d] # h
      BY <2>2, <1>9 DEF MayArrive
    <3> QED
      BY <2>2, <3>1, <3>2, <3>3, <1>9, <1>4 DEF Arrival
  <2> QED
    BY <2>1, <2>2
<1>12. Guests'
  <2> SUFFICES ASSUME ~NickChange, NEW d \in Conns,
                      state'[d] \in Entered, profile'[d] # "user"
               PROVE  account'[nick'[d]] = "none" /\ nickSlot'[nick'[d]] = d
    BY DEF Guests
  <2>1. CASE d = c
    BY <2>1 DEF Arrival, MayArrive
  <2>2. CASE d # c
    <3>1. state'[d] \in Known
      BY DEF Entered, Known
    <3>2. account[nick[d]] = "none" /\ nickSlot[nick[d]] = d
      BY <2>2, <3>1, <1>9 DEF IInv, Guests
    <3> QED
      BY <2>2, <3>1, <3>2, <1>9 DEF Arrival
  <2> QED
    BY <2>1, <2>2
<1> QED
  BY <1>1, <1>5, <1>6, <1>7, <1>8, <1>10, <1>11, <1>12 DEF IInv

-----------------------------------------------------------------------------
(***************************************************************************)
(* The initial states.                                                     *)
(***************************************************************************)
LEMMA InitIInv == Init => IInv
<1> USE ConstantsAssumption DEF ConstantsAssumption
<1> SUFFICES ASSUME Init PROVE IInv
  OBVIOUS
<1>1. /\ \A b \in Bots : /\ nick[b] = BotNick[b] /\ cid[b] = BotCid[b]
                         /\ b \in Users /\ BotNick[b] \in Nicks /\ BotCid[b] \in Cids
      /\ \A c \in Conns : nick[c] = None /\ cid[c] = None /\ c \notin Bots
  BY DEF Init, Users
<1>2. ASSUME NEW n \in Nicks
      PROVE  \/ nickSlot[n] = None /\ \A b \in Bots : BotNick[b] # n
             \/ nickSlot[n] \in Bots /\ BotNick[nickSlot[n]] = n
  <2>1. CASE \E b \in Bots : BotNick[b] = n
    BY <2>1 DEF Init
  <2>2. CASE ~ \E b \in Bots : BotNick[b] = n
    BY <2>2 DEF Init
  <2> QED
    BY <2>1, <2>2
<1>3. ASSUME NEW h \in Cids
      PROVE  \/ cidSlot[h] = None /\ \A b \in Bots : BotCid[b] # h
             \/ cidSlot[h] \in Bots /\ BotCid[cidSlot[h]] = h
  <2>1. CASE \E b \in Bots : BotCid[b] = h
    BY <2>1 DEF Init
  <2>2. CASE ~ \E b \in Bots : BotCid[b] = h
    BY <2>2 DEF Init
  <2> QED
    BY <2>1, <2>2
<1>4. TypeOK
  <2>1. /\ nickSlot \in [Nicks -> Users \cup {None}]
        /\ cidSlot \in [Cids -> Users \cup {None}]
    <3>1. /\ \A n \in Nicks : nickSlot[n] \in Users \cup {None}
          /\ \A h \in Cids : cidSlot[h] \in Users \cup {None}
      BY <1>2, <1>3 DEF Users
    <3>2. /\ nickSlot = [n \in Nicks |-> nickSlot[n]]
          /\ cidSlot = [h \in Cids |-> cidSlot[h]]
      BY DEF Init
    <3> QED
      BY <3>1, <3>2
  <2> QED
    BY <2>1 DEF Init, TypeOK, Users, States, Kinds
<1>5. CountExact
  <2>1. online \cap Conns = {}
    BY DEF Init
  <2> QED
    BY <2>1, FS_EmptySet DEF Init, CountExact
<1>6. SlotsLive
  BY <1>1, <1>2, <1>3 DEF SlotsLive
<1>7. TokenMatchesState
  BY DEF Init, TokenMatchesState
<1>8. ConnShape
  BY <1>1 DEF Init, ConnShape, Fresh, Known
<1>9. BotShape
  <2>1. ASSUME NEW b \in Bots
        PROVE  nickSlot[BotNick[b]] = b /\ cidSlot[BotCid[b]] = b
    <3>1. nickSlot[BotNick[b]] \in Bots /\ BotNick[nickSlot[BotNick[b]]] = BotNick[b]
      BY <1>1, <1>2
    <3>2. cidSlot[BotCid[b]] \in Bots /\ BotCid[cidSlot[BotCid[b]]] = BotCid[b]
      BY <1>1, <1>3
    <3> QED
      BY <3>1, <3>2
  <2>2. online = Bots
    BY DEF Init
  <2> QED
    BY <1>1, <2>1, <2>2 DEF BotShape
<1>10. NickHeld /\ CidHeld /\ Guests
  BY DEF Init, NickHeld, CidHeld, Guests, Known, Entered
<1> QED
  BY <1>4, <1>5, <1>6, <1>7, <1>8, <1>9, <1>10 DEF IInv

-----------------------------------------------------------------------------
(***************************************************************************)
(* The steps before the INF.                                               *)
(***************************************************************************)
\* Closing a connection, and moving it between the states without an INF,
\* disturbs nothing.
LEMMA FreshKeeps ==
    ASSUME IInv, NEW c \in Conns, state[c] \in Fresh, NEW s \in Fresh,
           state' = [state EXCEPT ![c] = s], closing' \in SUBSET Conns,
           UNCHANGED <<nick, firstnick, cid, profile, claim, secondary,
                       takeover, token, slotVars, account>>
    PROVE  IInv'
<1> USE DEF slotVars
<1>1. TypeOK' /\ CountExact' /\ SlotsLive' /\ BotShape'
  BY DEF IInv, TypeOK, CountExact, SlotsLive, BotShape, States, Fresh
<1>2. TokenMatchesState'
  BY DEF IInv, TypeOK, TokenMatchesState, Fresh
<1>3. ConnShape'
  BY DEF IInv, TypeOK, ConnShape, Fresh, Known
<1>4. NickHeld' /\ CidHeld'
  BY DEF IInv, TypeOK, NickHeld, CidHeld, Fresh, Known, BotNicks
<1>5. Guests'
  BY DEF IInv, TypeOK, Guests, Fresh, Entered
<1> QED
  BY <1>1, <1>2, <1>3, <1>4, <1>5 DEF IInv

\* newuser.
LEMMA AcceptKeeps == ASSUME IInv, NEW c \in Conns, Accept(c) PROVE IInv'
BY FreshKeeps DEF Accept, Fresh, IInv, TypeOK

\* A closed connection is still registered.
LEMMA ServerCloseKeeps == ASSUME IInv, NEW c \in Conns, ServerClose(c) PROVE IInv'
<1>1. closing' \in SUBSET Conns
  BY DEF IInv, TypeOK, ServerClose
<1> QED
  BY <1>1 DEF ServerClose, IInv, TypeOK, CountExact, SlotsLive,
     TokenMatchesState, ConnShape, BotShape, NickHeld, CidHeld, Guests, slotVars

\* disconnect, with the accounts as they were.
LEMMA DisconnectKeeps ==
    ASSUME IInv, NEW K \in SUBSET Users, Depart(K), UNCHANGED account
    PROVE  IInv'
<1>1. GuestsStay(K) /\ account' \in [Nicks -> Kinds]
  BY DEF IInv, TypeOK, Guests, GuestsStay
<1> QED
  BY <1>1, DepartKeeps

\* HSUP.
LEMMA HSUPKeeps == ASSUME IInv, NEW c \in Conns, HSUP(c) PROVE IInv'
<1>1. CASE Depart({c})
  BY <1>1, DisconnectKeeps DEF HSUP, Users
<1>2. CASE ~Depart({c})
  BY <1>2, FreshKeeps DEF HSUP, CanRead, Fresh, IInv, TypeOK
<1> QED
  BY <1>1, <1>2

-----------------------------------------------------------------------------
(***************************************************************************)
(* BINF.                                                                   *)
(***************************************************************************)
\* The owner of a slot is a user, and the only one if the slot is a CID's in
\* an open hub.
LEMMA CidOwner ==
    ASSUME IInv, NEW h \in ClientCids
    PROVE  /\ Owner(cidSlot, h) \in SUBSET Users
           /\ \A u \in Owner(cidSlot, h) : cid[u] = h /\ u \in Users
           /\ ~RegOnly => \A u \in Users \ Owner(cidSlot, h) : cid[u] # h
<1> USE ConstantsAssumption DEF ConstantsAssumption
<1>1. h \in Cids /\ h # None
  BY DEF ClientCids
<1>2. \A u \in Owner(cidSlot, h) : u = cidSlot[h] /\ u # None
  BY DEF Owner
<1>3. cidSlot[h] \in Users \cup {None}
  BY <1>1 DEF IInv, TypeOK
<1>4. Owner(cidSlot, h) \in SUBSET Users
  BY <1>2, <1>3
<1>5. \A u \in Owner(cidSlot, h) : cid[u] = h
  BY <1>1, <1>2 DEF IInv, SlotsLive
<1>6. ASSUME ~RegOnly, NEW u \in Users, cid[u] = h
      PROVE  u \in Owner(cidSlot, h)
  <2>1. CASE u \in Conns
    <3>1. state[u] \in Known
      BY <1>1, <1>6, <2>1 DEF IInv, TypeOK, ConnShape, States, Fresh, Known
    <3> QED
      BY <1>6, <2>1, <3>1 DEF IInv, CidHeld, Owner
  <2>2. CASE u \in Bots
    BY <1>1, <1>6, <2>2 DEF IInv, BotShape, ClientCids
  <2> QED
    BY <2>1, <2>2 DEF Users
<1> QED
  BY <1>4, <1>5, <1>6

\* A connection without an INF is in no slot.
LEMMA FreshOwnsNothing ==
    ASSUME IInv, NEW c \in Conns, state[c] \in Fresh
    PROVE  /\ \A n \in Nicks : nickSlot[n] # c
           /\ \A h \in Cids : cidSlot[h] # c
BY ConstantsAssumption DEF ConstantsAssumption, IInv, ConnShape, SlotsLive

\* BINF that gets its nick at once.
LEMMA AcceptINFKeeps ==
    ASSUME IInv, NEW c \in Conns, CanRead(c, "identify"),
           NEW n \in Nicks, NEW h \in ClientCids, NEW w \in BOOLEAN,
           AcceptINF(c, n, h, w, Owner(cidSlot, h)), UNCHANGED account
    PROVE  IInv'
<1> USE ConstantsAssumption DEF ConstantsAssumption
<1> DEFINE K == Owner(cidSlot, h)
           s == IF account[n] = "none" THEN LoginState(w) ELSE "verify"
           shown == Shown(n, account[n])
<1>1. /\ K \in SUBSET Users /\ c \notin K /\ c \in Users
      /\ ~RegOnly => \A u \in Users \ (K \cup {c}) : cid[u] # h
      /\ h \in Cids /\ state[c] = "identify"
      /\ shown \in Nicks /\ s \in Known /\ account[n] \in Kinds
  BY CidOwner, FreshOwnsNothing
     DEF IInv, TypeOK, CanRead, Owner, Fresh, Known, Users, ClientCids, Shown,
         LoginState
<1>2. /\ \A m \in Nicks : nickSlot[m] # c
      /\ \A g \in Cids : cidSlot[g] # c
  BY <1>1, FreshOwnsNothing DEF Fresh
<1>3. /\ FreeNicks(K) \in [Nicks -> Users \cup {None}]
      /\ FreeCids(K) \in [Cids -> Users \cup {None}]
  BY ResetTypes DEF IInv
<1>4. /\ FreeNicks(K)[shown] = None
      /\ s \in Entered => account[shown] = "none"
      /\ s = "verify" => account[n] # "none"
  BY DEF AcceptINF, CanShow, Shown, LoginState, Entered
<1>5. /\ state' = [Reset(state, K, "none") EXCEPT ![c] = s]
      /\ nick' = [Reset(nick, K, None) EXCEPT ![c] = shown]
      /\ firstnick' = [Reset(firstnick, K, None) EXCEPT ![c] = n]
      /\ cid' = [Reset(cid, K, None) EXCEPT ![c] = h]
      /\ profile' = [Reset(profile, K, "none") EXCEPT ![c] = account[n]]
      /\ takeover' = Reset(takeover, K, None)
      /\ token' = [Reset(token, K, "none") EXCEPT
                      ![c] = IF s = "hbri" THEN "login" ELSE "none"]
      /\ closing' = closing \ K
      /\ claim' = IF w THEN (claim \ K) \cup {c} ELSE claim \ K
      /\ secondary' = secondary \ K
      /\ nickSlot' = [FreeNicks(K) EXCEPT ![shown] = c]
      /\ cidSlot' = [FreeCids(K) EXCEPT ![h] = c]
      /\ EnterOnline(c, K, s)
  BY DEF AcceptINF
<1>6. userCount' \in Nat
  BY <1>1, <1>5, CountEntering DEF IInv
<1> HIDE DEF K, s, shown
<1>7. TypeOK'
  <2>1. s \in States
    BY <1>1 DEF Known, States
  <2>2. online' \in SUBSET Users
    BY <1>1, <1>5 DEF EnterOnline, IInv, TypeOK
  <2>3. TypeOK /\ n \in Nicks /\ account' = account
    BY DEF IInv
  <2>4. /\ state' \in [Conns -> States]
        /\ nick' \in [Users -> Nicks \cup {None}]
        /\ firstnick' \in [Conns -> Nicks \cup {None}]
        /\ cid' \in [Users -> Cids \cup {None}]
        /\ profile' \in [Conns -> Kinds]
    BY <1>1, <1>5, <2>1, <2>3, ResetTypes
  <2>5. /\ takeover' \in [Conns -> Users \cup {None}]
        /\ token' \in [Conns -> {"none", "login", "post"}]
        /\ nickSlot' \in [Nicks -> Users \cup {None}]
        /\ cidSlot' \in [Cids -> Users \cup {None}]
    BY <1>1, <1>5, <2>3, ResetTypes
  <2>6. closing' \in SUBSET Conns /\ claim' \in SUBSET Conns /\ secondary' \in SUBSET Conns
    BY <1>5, <2>3 DEF TypeOK
  <2> QED
    BY <1>6, <2>2, <2>3, <2>4, <2>5, <2>6 DEF TypeOK
<1>8. takeover[c] = None
  BY <1>1 DEF IInv, ConnShape, Fresh
<1>9. MayArrive(c, K, s, shown, h)
  <2>1. profile'[c] = account[n]
    BY <1>5 DEF IInv, TypeOK, Reset
  <2> QED
    BY <1>1, <1>2, <1>4, <2>1 DEF MayArrive
<1>10. Arrival(c, K, s, shown, h)
  BY <1>1, <1>3, <1>5, <1>8 DEF Arrival, Left, Reset, IInv, TypeOK, Users
<1> QED
  BY <1>1, <1>7, <1>9, <1>10, ArrivalKeeps

\* BINF that waits for the nick of another user.
LEMMA PendTakeoverKeeps ==
    ASSUME IInv, NEW c \in Conns, CanRead(c, "identify"),
           NEW n \in Nicks, NEW h \in ClientCids, NEW w \in BOOLEAN,
           PendTakeover(c, n, h, w, Owner(cidSlot, h)), UNCHANGED account
    PROVE  IInv'
<1> USE ConstantsAssumption DEF ConstantsAssumption
<1> DEFINE K == Owner(cidSlot, h)
           t == FreeNicks(K)[n]
<1>1. /\ K \in SUBSET Users /\ c \notin K /\ c \in Users /\ c # None
      /\ h \in Cids /\ state[c] = "identify" /\ RegOnly
      /\ TypeOK /\ account' = account /\ account[n] \in Kinds \ {"none"}
  BY CidOwner, FreshOwnsNothing
     DEF IInv, TypeOK, CanRead, Owner, Fresh, Users, ClientCids, PendTakeover
<1>2. /\ \A m \in Nicks : nickSlot[m] # c
      /\ \A g \in Cids : cidSlot[g] # c
  BY <1>1, FreshOwnsNothing DEF Fresh
<1>3. t \in Users /\ t # c /\ t # None
  BY <1>2, ResetTypes DEF PendTakeover, FreeNicks, IInv
<1>4. /\ state' = [Reset(state, K, "none") EXCEPT ![c] = "verify"]
      /\ nick' = [Reset(nick, K, None) EXCEPT ![c] = n]
      /\ firstnick' = [Reset(firstnick, K, None) EXCEPT ![c] = n]
      /\ cid' = [Reset(cid, K, None) EXCEPT ![c] = h]
      /\ profile' = [Reset(profile, K, "none") EXCEPT ![c] = account[n]]
      /\ takeover' = [Reset(takeover, K, None) EXCEPT ![c] = t]
      /\ token' = Reset(token, K, "none")
      /\ closing' = closing \ K
      /\ claim' = IF w THEN (claim \ K) \cup {c} ELSE claim \ K
      /\ secondary' = secondary \ K
      /\ nickSlot' = FreeNicks(K) /\ cidSlot' = FreeCids(K)
      /\ online' = online \ K
      /\ userCount' = userCount - HumansLeaving(K)
  BY DEF PendTakeover
<1> HIDE DEF K, t
<1>5. CountExact' /\ userCount' \in Nat
  BY <1>4, CountLeaving DEF IInv, CountExact
<1>6. TypeOK'
  <2>1. /\ state' \in [Conns -> States]
        /\ nick' \in [Users -> Nicks \cup {None}]
        /\ firstnick' \in [Conns -> Nicks \cup {None}]
        /\ cid' \in [Users -> Cids \cup {None}]
        /\ profile' \in [Conns -> Kinds]
    BY <1>1, <1>4, ResetTypes DEF States
  <2>2. /\ takeover' \in [Conns -> Users \cup {None}]
        /\ token' \in [Conns -> {"none", "login", "post"}]
        /\ nickSlot' \in [Nicks -> Users \cup {None}]
        /\ cidSlot' \in [Cids -> Users \cup {None}]
    BY <1>1, <1>3, <1>4, ResetTypes
  <2>3. /\ closing' \in SUBSET Conns /\ claim' \in SUBSET Conns
        /\ secondary' \in SUBSET Conns /\ online' \in SUBSET Users
    BY <1>1, <1>4 DEF TypeOK
  <2> QED
    BY <1>1, <1>5, <2>1, <2>2, <2>3 DEF TypeOK
<1>7. /\ \A d \in Conns \ {c} :
            /\ state'[d] = Left(K, d, state[d], "none")
            /\ profile'[d] = Left(K, d, profile[d], "none")
            /\ takeover'[d] = Left(K, d, takeover[d], None)
            /\ token'[d] = Left(K, d, token[d], "none")
      /\ \A u \in Users \ {c} : /\ nick'[u] = Left(K, u, nick[u], None)
                                /\ cid'[u] = Left(K, u, cid[u], None)
      /\ state'[c] = "verify" /\ nick'[c] = n /\ cid'[c] = h /\ takeover'[c] = t
      /\ profile'[c] = account[n] /\ token'[c] = token[c]
      /\ \A m \in Nicks : nickSlot'[m] =
            IF nickSlot[m] \in K /\ nick[nickSlot[m]] = m THEN None ELSE nickSlot[m]
      /\ \A g \in Cids : cidSlot'[g] =
            IF \E u \in K : cid[u] = g THEN None ELSE cidSlot[g]
  BY <1>1, <1>4 DEF TypeOK, Reset, Left, Users, FreeNicks, FreeCids
<1>8. SlotsLive'
  <2>1. ASSUME NEW m \in Nicks, nickSlot'[m] # None
        PROVE  nick'[nickSlot'[m]] = m
    BY <2>1, <1>1, <1>2, <1>7 DEF IInv, TypeOK, SlotsLive, Left
  <2>2. ASSUME NEW g \in Cids, cidSlot'[g] # None
        PROVE  cid'[cidSlot'[g]] = g
    BY <2>2, <1>1, <1>2, <1>7 DEF IInv, TypeOK, SlotsLive, Left
  <2> QED
    BY <2>1, <2>2 DEF SlotsLive
<1>9. TokenMatchesState'
  BY <1>1, <1>7 DEF IInv, TypeOK, TokenMatchesState, Left
<1>10. ConnShape'
  <2> SUFFICES ASSUME NEW d \in Conns
               PROVE  /\ d \in online' <=> state'[d] = "normal"
                      /\ state'[d] \in Fresh => nick'[d] = None /\ cid'[d] = None
                      /\ state'[d] \in Known => nick'[d] \in Nicks /\ cid'[d] \in ClientCids
                      /\ takeover'[d] # None => /\ state'[d] = "verify"
                                                /\ takeover'[d] # d /\ RegOnly
                      /\ state'[d] = "verify" => profile'[d] # "none"
    BY DEF ConnShape
  <2>1. CASE d = c
    BY <2>1, <1>1, <1>3, <1>4, <1>7 DEF IInv, ConnShape, Fresh
  <2>2. CASE d # c
    BY <2>2, <1>1, <1>4, <1>7 DEF IInv, ConnShape, Left, Users, Fresh, Known
  <2> QED
    BY <2>1, <2>2
<1>11. BotShape'
  <2>1. ASSUME NEW b \in Bots, b \in online'
        PROVE  /\ nick'[b] = BotNick[b] /\ nickSlot'[BotNick[b]] = b
               /\ cid'[b] = BotCid[b] /\ cidSlot'[BotCid[b]] = b
    <3>1. b \in Users /\ b \notin K /\ b \in online /\ b # c
      BY <2>1, <1>4 DEF Users
    <3>2. /\ nick[b] = BotNick[b] /\ nickSlot[BotNick[b]] = b
          /\ cid[b] = BotCid[b] /\ cidSlot[BotCid[b]] = b
      BY <3>1 DEF IInv, BotShape
    <3>3. ~ \E u \in K : cid[u] = BotCid[b]
      BY <3>1, <1>1, BotCidUnique
    <3> QED
      BY <3>1, <3>2, <3>3, <1>7 DEF Left
  <2>2. ASSUME NEW b \in Bots, b \notin online'
        PROVE  nick'[b] = None /\ cid'[b] = None
    <3>1. b \in Users /\ b # c /\ (b \in K \/ b \notin online)
      BY <2>2, <1>4 DEF Users
    <3>2. b \notin online => nick[b] = None /\ cid[b] = None
      BY DEF IInv, BotShape
    <3> QED
      BY <3>1, <3>2, <1>7 DEF Left
  <2> QED
    BY <2>1, <2>2 DEF BotShape
<1>12. NickHeld'
  <2> SUFFICES ASSUME NEW d \in Conns, state'[d] \in Known, takeover'[d] = None,
                      nick'[d] \notin BotNicks
               PROVE  nickSlot'[nick'[d]] = d
    BY DEF NickHeld, BotNicks
  <2>1. d # c
    BY <1>3, <1>7
  <2>2. /\ d \notin K /\ state'[d] = state[d] /\ takeover'[d] = takeover[d]
        /\ nick'[d] = nick[d]
    BY <2>1, <1>7 DEF Left, Known, Users
  <2>3. nick[d] \in Nicks /\ nickSlot[nick[d]] = d
    BY <2>2 DEF IInv, NickHeld, ConnShape
  <2> QED
    BY <2>2, <2>3, <1>7
<1>13. CidHeld'
  BY <1>1 DEF CidHeld
<1>14. Guests'
  <2> SUFFICES ASSUME ~NickChange, NEW d \in Conns,
                      state'[d] \in Entered, profile'[d] # "user"
               PROVE  account'[nick'[d]] = "none" /\ nickSlot'[nick'[d]] = d
    BY DEF Guests
  <2>1. d # c
    BY <1>7 DEF Entered
  <2>2. /\ d \notin K /\ state'[d] = state[d] /\ profile'[d] = profile[d]
        /\ nick'[d] = nick[d]
    BY <2>1, <1>7 DEF Left, Entered, Users
  <2>3. /\ nick[d] \in Nicks /\ nickSlot[nick[d]] = d
        /\ account[nick[d]] = "none"
    BY <2>2 DEF IInv, Guests, ConnShape, Entered, Known
  <2> QED
    BY <2>2, <2>3, <1>1, <1>7
<1> QED
  BY <1>5, <1>6, <1>8, <1>9, <1>10, <1>11, <1>12, <1>13, <1>14 DEF IInv

\* BINF.
LEMMA BINFKeeps == ASSUME IInv, NEW c \in Conns, BINF(c) PROVE IInv'
<1>1. CASE RejectINF(c)
  BY <1>1, DisconnectKeeps DEF BINF, RejectINF, Users
<1>2. ASSUME NEW n \in Nicks, NEW h \in ClientCids, NEW w \in BOOLEAN,
             \/ RefuseINF(c, Owner(cidSlot, h))
             \/ PendTakeover(c, n, h, w, Owner(cidSlot, h))
             \/ AcceptINF(c, n, h, w, Owner(cidSlot, h))
      PROVE  IInv'
  <2>1. UNCHANGED account /\ CanRead(c, "identify")
    BY DEF BINF
  <2>2. CASE RefuseINF(c, Owner(cidSlot, h))
    <3>1. Owner(cidSlot, h) \cup {c} \in SUBSET Users
      BY CidOwner DEF Users
    <3> QED
      BY <2>1, <2>2, <3>1, DisconnectKeeps DEF RefuseINF
  <2>3. CASE PendTakeover(c, n, h, w, Owner(cidSlot, h))
    BY <2>1, <2>3, PendTakeoverKeeps
  <2>4. CASE AcceptINF(c, n, h, w, Owner(cidSlot, h))
    BY <2>1, <2>4, AcceptINFKeeps
  <2> QED
    BY <1>2, <2>2, <2>3, <2>4
<1> QED
  BY <1>1, <1>2 DEF BINF

-----------------------------------------------------------------------------
(***************************************************************************)
(* HPAS and HBRI.                                                          *)
(***************************************************************************)
\* A connection that already has what is its own moves on to "hbri" or
\* "normal".
LEMMA EnterKeeps ==
    ASSUME IInv, NEW c \in Conns, takeover[c] = None, NEW s \in Entered,
           \/ state[c] = "verify" /\ profile[c] = "user"
           \/ state[c] = "hbri",
           state' = [state EXCEPT ![c] = s],
           token' = [token EXCEPT ![c] = IF s = "hbri" THEN "login" ELSE "none"],
           EnterOnline(c, {}, s),
           closing' \in SUBSET Conns, secondary' \in SUBSET Conns,
           UNCHANGED <<nick, firstnick, cid, profile, claim, takeover, nickSlot,
                       cidSlot, account>>
    PROVE  IInv'
<1>1. CountExact' /\ userCount' \in Nat
  BY CountEntering DEF IInv
<1>2. online' = online \cup (IF s = "normal" THEN {c} ELSE {})
  BY DEF EnterOnline
<1>3. TypeOK'
  BY <1>1, <1>2 DEF IInv, TypeOK, States, Entered, Users
<1>4. SlotsLive'
  BY DEF IInv, SlotsLive
<1>5. TokenMatchesState'
  BY DEF IInv, TypeOK, TokenMatchesState, Entered
<1>6. ConnShape'
  BY <1>2 DEF IInv, TypeOK, ConnShape, Entered, Known, Fresh
<1>7. BotShape'
  <2>1. c \notin Bots
    BY ConstantsAssumption DEF ConstantsAssumption
  <2>2. \A b \in Bots : b \in online' <=> b \in online
    BY <1>2, <2>1
  <2> QED
    BY <2>2 DEF IInv, BotShape
<1>8. NickHeld' /\ CidHeld'
  BY DEF IInv, TypeOK, NickHeld, CidHeld, Known, Entered, BotNicks
<1>9. Guests'
  BY DEF IInv, TypeOK, Guests, Entered
<1> QED
  BY <1>1, <1>3, <1>4, <1>5, <1>6, <1>7, <1>8, <1>9 DEF IInv

\* A takeover never aims at the connection itself.
LEMMA ReplacedIsUser ==
    ASSUME IInv, NEW c \in Conns
    PROVE  Replaced(c) \in SUBSET Users /\ c \notin Replaced(c)
BY DEF IInv, TypeOK, ConnShape, Replaced

\* The nick is free when the user that had it is gone.
LEMMA TakenNickFree ==
    ASSUME IInv, NEW c \in Conns, state[c] = "verify", takeover[c] # None,
           StillOwner(c)
    PROVE  FreeNicks(Replaced(c))[nick[c]] = None
<1> USE ConstantsAssumption DEF ConstantsAssumption
<1>1. nick[c] \in Nicks /\ takeover[c] \in Users
  BY DEF IInv, TypeOK, ConnShape, Known
<1>2. CASE nickSlot[nick[c]] = None
  BY <1>1, <1>2 DEF FreeNicks
<1>3. CASE nickSlot[nick[c]] = takeover[c]
  <2>1. nick[takeover[c]] = nick[c]
    BY <1>1, <1>3 DEF IInv, SlotsLive
  <2>2. takeover[c] \in Conns => state[takeover[c]] # "none"
    BY <1>1, <2>1 DEF IInv, ConnShape, Fresh
  <2>3. takeover[c] \in Replaced(c)
    BY <2>2 DEF Replaced
  <2> QED
    BY <1>1, <1>3, <2>1, <2>3 DEF FreeNicks
<1> QED
  BY <1>2, <1>3 DEF StillOwner

\* HPAS of a pending takeover.
LEMMA SwapKeeps ==
    ASSUME IInv, NEW c \in Conns, CanRead(c, "verify"), takeover[c] # None,
           AcceptPassword(c), UNCHANGED account
    PROVE  IInv'
<1> USE ConstantsAssumption DEF ConstantsAssumption
<1> DEFINE K == Replaced(c)
           s == LoginState(c \in claim)
           shown == Shown(nick[c], profile[c])
           h == cid[c]
<1>1. /\ K \in SUBSET Users /\ c \notin K /\ c \in Users
      /\ state[c] = "verify" /\ profile[c] = "user" /\ RegOnly /\ StillOwner(c)
      /\ TypeOK /\ account' = account
      /\ nick[c] \in Nicks /\ h \in ClientCids /\ h \in Cids
      /\ shown \in Nicks /\ s \in Entered /\ s \in Known
  BY ReplacedIsUser
     DEF IInv, TypeOK, ConnShape, CanRead, AcceptPassword, Users, Known, Entered,
         Shown, LoginState, ClientCids
<1>2. FreeNicks(K)[shown] = None
  BY <1>1, TakenNickFree DEF AcceptPassword, CanShow
<1>3. /\ \A m \in Nicks : nickSlot[m] # c
      /\ \A g \in Cids : cidSlot[g] = c => g = h
  <2>1. takeover[c] # c /\ c # None
    BY DEF IInv, ConnShape
  <2>2. nickSlot[nick[c]] # c
    BY <1>1, <2>1 DEF StillOwner
  <2> QED
    BY <2>1, <2>2 DEF IInv, SlotsLive
<1>4. /\ state' = [Reset(state, K, "none") EXCEPT ![c] = s]
      /\ nick' = [Reset(nick, K, None) EXCEPT ![c] = shown]
      /\ firstnick' = Reset(firstnick, K, None)
      /\ cid' = Reset(cid, K, None)
      /\ profile' = Reset(profile, K, "none")
      /\ takeover' = [Reset(takeover, K, None) EXCEPT ![c] = None]
      /\ token' = [Reset(token, K, "none") EXCEPT
                      ![c] = IF s = "hbri" THEN "login" ELSE "none"]
      /\ closing' = closing \ K /\ claim' = claim \ K /\ secondary' = secondary \ K
      /\ nickSlot' = [FreeNicks(K) EXCEPT ![shown] = c]
      /\ cidSlot' = [FreeCids(K) EXCEPT ![h] = c]
      /\ EnterOnline(c, K, s)
  BY DEF AcceptPassword, Forget
<1>5. userCount' \in Nat
  BY <1>1, <1>4, CountEntering DEF IInv
<1> HIDE DEF K, s, shown, h
<1>6. TypeOK'
  <2>1. s \in States /\ online' \in SUBSET Users
    BY <1>1, <1>4 DEF Known, States, EnterOnline, TypeOK
  <2>2. /\ state' \in [Conns -> States]
        /\ nick' \in [Users -> Nicks \cup {None}]
        /\ firstnick' \in [Conns -> Nicks \cup {None}]
        /\ cid' \in [Users -> Cids \cup {None}]
        /\ profile' \in [Conns -> Kinds]
    BY <1>1, <1>4, <2>1, ResetTypes
  <2>3. /\ takeover' \in [Conns -> Users \cup {None}]
        /\ token' \in [Conns -> {"none", "login", "post"}]
        /\ nickSlot' \in [Nicks -> Users \cup {None}]
        /\ cidSlot' \in [Cids -> Users \cup {None}]
    BY <1>1, <1>4, ResetTypes
  <2>4. closing' \in SUBSET Conns /\ claim' \in SUBSET Conns /\ secondary' \in SUBSET Conns
    BY <1>1, <1>4 DEF TypeOK
  <2> QED
    BY <1>1, <1>5, <2>1, <2>2, <2>3, <2>4 DEF TypeOK
<1>7. profile'[c] = "user" /\ cid'[c] = h
  BY <1>1, <1>4 DEF TypeOK, Reset, h
<1>8. MayArrive(c, K, s, shown, h)
  BY <1>1, <1>2, <1>3, <1>7 DEF MayArrive
<1>9. Arrival(c, K, s, shown, h)
  BY <1>1, <1>4, <1>7, ResetTypes DEF Arrival, Left, Reset, TypeOK, Users
<1> QED
  BY <1>1, <1>6, <1>8, <1>9, ArrivalKeeps

\* HPAS.
LEMMA HPASKeeps == ASSUME IInv, NEW c \in Conns, HPAS(c) PROVE IInv'
<1>1. UNCHANGED account /\ CanRead(c, "verify") /\ c \in Users
  BY DEF HPAS, Users
<1>2. CASE RefusePassword(c)
  BY <1>1, <1>2, DisconnectKeeps DEF RefusePassword
<1>3. CASE RefuseAfterSwap(c)
  BY <1>1, <1>3, DisconnectKeeps, ReplacedIsUser DEF RefuseAfterSwap
<1>4. CASE AcceptPassword(c) /\ takeover[c] # None
  BY <1>1, <1>4, SwapKeeps
<1>5. CASE AcceptPassword(c) /\ takeover[c] = None
  <2> DEFINE s == LoginState(c \in claim)
  <2>1. Replaced(c) = {}
    BY <1>5 DEF Replaced
  <2>2. /\ Reset(state, {}, "none") = state /\ Reset(nick, {}, None) = nick
        /\ Reset(firstnick, {}, None) = firstnick /\ Reset(cid, {}, None) = cid
        /\ Reset(profile, {}, "none") = profile
        /\ Reset(takeover, {}, None) = takeover /\ Reset(token, {}, "none") = token
    BY DEF IInv, TypeOK, Reset
  <2>3. /\ state' = [state EXCEPT ![c] = s] /\ nick' = [nick EXCEPT ![c] = nick[c]]
        /\ takeover' = [takeover EXCEPT ![c] = None]
        /\ token' = [token EXCEPT ![c] = IF s = "hbri" THEN "login" ELSE "none"]
        /\ EnterOnline(c, {}, s)
        /\ closing' = closing \ {} /\ claim' = claim \ {}
        /\ secondary' = secondary \ {}
        /\ UNCHANGED <<firstnick, cid, profile, nickSlot, cidSlot>>
        /\ profile[c] = "user"
    BY <1>5, <2>1, <2>2 DEF AcceptPassword, Forget
  <2>4. nick' = nick /\ takeover' = takeover /\ claim' = claim
    BY <1>5, <2>3 DEF IInv, TypeOK, Users
  <2>5. s \in Entered /\ state[c] = "verify"
    BY <1>1 DEF Entered, LoginState, CanRead
  <2>6. closing' \in SUBSET Conns /\ secondary' \in SUBSET Conns
    BY <2>3 DEF IInv, TypeOK
  <2> HIDE DEF s
  <2> QED
    BY <1>1, <1>5, <2>3, <2>4, <2>5, <2>6, EnterKeeps
<1> QED
  BY <1>2, <1>3, <1>4, <1>5 DEF HPAS

\* What a step leaves of the post-login attempts.
LEMMA PostKeeps ==
    ASSUME IInv, NEW c \in Conns, state[c] = "normal",
           NEW t \in {"none", "post"}, token' = [token EXCEPT ![c] = t],
           closing' \in SUBSET Conns, secondary' \in SUBSET Conns,
           UNCHANGED <<state, nick, firstnick, cid, profile, claim, takeover,
                       slotVars, account>>
    PROVE  IInv'
<1> USE DEF slotVars
<1>1. TypeOK' /\ TokenMatchesState'
  BY DEF IInv, TypeOK, TokenMatchesState
<1>2. CountExact' /\ SlotsLive' /\ ConnShape' /\ BotShape' /\ NickHeld' /\ CidHeld' /\ Guests'
  BY DEF IInv, CountExact, SlotsLive, ConnShape, BotShape, NickHeld, CidHeld, Guests
<1> QED
  BY <1>1, <1>2 DEF IInv

\* A token resolves.
LEMMA ResolveKeeps ==
    ASSUME IInv, NEW u \in Conns, token[u] # "none", NEW proven \in BOOLEAN,
           Resolve(u, proven), closing' \in SUBSET Conns
    PROVE  IInv'
<1>1. secondary' \in SUBSET Conns
  BY DEF Resolve, IInv, TypeOK
<1>2. CASE token[u] = "login"
  <2>1. state[u] = "hbri" /\ takeover[u] = None
    BY <1>2 DEF IInv, TokenMatchesState, ConnShape
  <2> QED
    BY <1>1, <1>2, <2>1, EnterKeeps DEF Resolve, Entered
<1>3. CASE token[u] = "post"
  <2>1. state[u] = "normal"
    BY <1>3 DEF IInv, TokenMatchesState
  <2> QED
    BY <1>1, <1>3, <2>1, PostKeeps DEF Resolve, slotVars
<1> QED
  BY <1>2, <1>3 DEF IInv, TypeOK

\* The steps of the side channel.
LEMMA HbriKeeps ==
    ASSUME IInv, NEW c \in Conns, HTCP(c) \/ Sweep(c) \/ PostloginINF(c)
    PROVE  IInv'
<1>1. CASE ServerClose(c)
  BY <1>1, ServerCloseKeeps
<1>2. CASE HTCP(c) /\ ~ServerClose(c)
  <2>1. PICK u \in Conns, proven \in BOOLEAN : token[u] # "none" /\ Resolve(u, proven)
    BY <1>2 DEF HTCP
  <2>2. closing' \in SUBSET Conns
    BY <1>2 DEF HTCP, IInv, TypeOK
  <2> QED
    BY <2>1, <2>2, ResolveKeeps
<1>3. CASE Sweep(c)
  BY <1>3, ResolveKeeps DEF Sweep, IInv, TypeOK
<1>4. CASE PostloginINF(c)
  BY <1>4, PostKeeps DEF PostloginINF, CanRead, IInv, TypeOK
<1> QED
  BY <1>1, <1>2, <1>3, <1>4

-----------------------------------------------------------------------------
(***************************************************************************)
(* Nick changes, accounts and bots.                                        *)
(***************************************************************************)
LEMMA UpdateNickKeeps ==
    ASSUME IInv, NickChange => Bots = {}, NEW c \in Conns, NEW n \in Nicks,
           UpdateNick(c, n)
    PROVE  IInv'
<1> USE ConstantsAssumption DEF ConstantsAssumption
<1>1. /\ NickChange /\ state[c] = "normal" /\ n # nick[c] /\ nickSlot[n] = None
      /\ nick' = [nick EXCEPT ![c] = n]
      /\ nickSlot' = [nickSlot EXCEPT ![nick[c]] = None, ![n] = c]
      /\ UNCHANGED <<state, closing, firstnick, cid, profile, claim, secondary,
                     takeover, token, cidSlot, online, userCount, account>>
  BY DEF UpdateNick, CanRead
<1>2. /\ Bots = {} /\ BotNicks = {} /\ c \in Users /\ c # None
      /\ takeover[c] = None /\ nick[c] \in Nicks
      /\ TypeOK
  BY <1>1 DEF BotNicks, Users, IInv, ConnShape, Known
<1>3. nickSlot[nick[c]] = c
  BY <1>1, <1>2 DEF IInv, NickHeld, Known
<1>4. TypeOK' /\ CountExact' /\ TokenMatchesState' /\ BotShape' /\ CidHeld' /\ Guests'
  <2>1. TypeOK'
    BY <1>1, <1>2 DEF TypeOK
  <2>2. CountExact' /\ TokenMatchesState' /\ CidHeld'
    BY <1>1 DEF IInv, CountExact, TokenMatchesState, CidHeld
  <2>3. BotShape' /\ Guests'
    BY <1>1, <1>2 DEF BotShape, Guests
  <2> QED
    BY <2>1, <2>2, <2>3
<1>5. SlotsLive'
  <2>1. ASSUME NEW m \in Nicks, nickSlot'[m] # None
        PROVE  nick'[nickSlot'[m]] = m
    BY <2>1, <1>1, <1>2 DEF IInv, TypeOK, SlotsLive
  <2>2. ASSUME NEW g \in Cids, cidSlot'[g] # None
        PROVE  cid'[cidSlot'[g]] = g
    BY <2>2, <1>1 DEF IInv, SlotsLive
  <2> QED
    BY <2>1, <2>2 DEF SlotsLive
<1>6. ConnShape'
  BY <1>1, <1>2 DEF IInv, TypeOK, ConnShape, Fresh, Known
<1>7. NickHeld'
  BY <1>1, <1>2, <1>3 DEF IInv, TypeOK, NickHeld, ConnShape, Known, BotNicks
<1> QED
  BY <1>4, <1>5, <1>6, <1>7 DEF IInv

\* The owner of a nick slot is a user that shows the nick.
LEMMA NickOwner ==
    ASSUME IInv, NEW n \in Nicks
    PROVE  /\ Owner(nickSlot, n) \in SUBSET Users
           /\ \A u \in Owner(nickSlot, n) : nick[u] = n
           /\ nickSlot[n] # None => nickSlot[n] \in Owner(nickSlot, n)
BY DEF IInv, TypeOK, SlotsLive, Owner

\* reguser from +reg.
LEMMA RegUserKeeps == ASSUME IInv, NEW n \in Nicks, RegUser(n) PROVE IInv'
<1> DEFINE K == Owner(nickSlot, n)
<1>1. /\ account' = [account EXCEPT ![n] = "user"] /\ Depart(K)
      /\ K \in SUBSET Users
  BY NickOwner DEF RegUser
<1>2. GuestsStay(K)
  <2> SUFFICES ASSUME ~NickChange, NEW c \in Conns \ K, state[c] \in Entered,
                      profile[c] # "user"
               PROVE  account'[nick[c]] = "none"
    BY DEF GuestsStay
  <2>1. account[nick[c]] = "none" /\ nickSlot[nick[c]] = c /\ nick[c] \in Nicks
    BY DEF IInv, Guests, ConnShape, Entered, Known
  <2>2. nick[c] # n
    BY <2>1, ConstantsAssumption DEF Owner, ConstantsAssumption
  <2> QED
    BY <1>1, <2>1, <2>2 DEF IInv, TypeOK
<1>3. account' \in [Nicks -> Kinds]
  BY <1>1 DEF IInv, TypeOK, Kinds
<1> QED
  BY <1>1, <1>2, <1>3, DepartKeeps

\* delreguser from +delreg.
LEMMA DelRegUserKeeps == ASSUME IInv, NEW n \in Nicks, DelRegUser(n) PROVE IInv'
<1> DEFINE K == Owner(nickSlot, Prefix[n]) \cap online \cap Conns
<1>1. /\ account' = [account EXCEPT ![n] = "none"] /\ Depart(K)
      /\ K \in SUBSET Users
  BY DEF DelRegUser, Users
<1>2. GuestsStay(K) /\ account' \in [Nicks -> Kinds]
  BY <1>1 DEF IInv, TypeOK, Guests, GuestsStay, Kinds, ConnShape, Entered, Known
<1> QED
  BY <1>1, <1>2, DepartKeeps

\* delreguser from hub_bot_cleaner.
LEMMA CleanBotKeeps == ASSUME IInv, NEW b \in Bots, CleanBot(b) PROVE IInv'
<1>1. /\ account' = [account EXCEPT ![BotNick[b]] = "none"]
      /\ UNCHANGED <<connVars, slotVars>>
  BY DEF CleanBot
<1>2. TypeOK' /\ Guests'
  BY <1>1 DEF IInv, TypeOK, Guests, Kinds, ConnShape, Entered, Known, connVars, slotVars
<1> QED
  BY <1>1, <1>2 DEF IInv, CountExact, SlotsLive, TokenMatchesState, ConnShape,
     BotShape, NickHeld, CidHeld, connVars, slotVars

\* regbot: the nick slot it overwrites is no guest's.
LEMMA RegBotKeeps == ASSUME IInv, NEW b \in Bots, RegBot(b) PROVE IInv'
<1> USE ConstantsAssumption DEF ConstantsAssumption
<1> DEFINE n == BotNick[b]
           h == BotCid[b]
           K == IF account[n] = "none" THEN Owner(nickSlot, n) ELSE {}
<1>1. /\ n \in Nicks /\ h \in Cids /\ h \notin ClientCids /\ h # None /\ n # None
      /\ b \in Users /\ b \notin Conns /\ b \notin online /\ b # None
      /\ nick[b] = None /\ cid[b] = None /\ TypeOK
  BY DEF ClientCids, Users, IInv, BotShape, RegBot
<1>2. K \in SUBSET Users
  BY <1>1, NickOwner
<1>3. b \notin K /\ \A u \in K : u # None
  BY <1>1, NickOwner DEF Owner
<1>4. /\ account' = [account EXCEPT ![n] = "bot"]
      /\ state' = Reset(state, K, "none")
      /\ nick' = [Reset(nick, K, None) EXCEPT ![b] = n]
      /\ firstnick' = Reset(firstnick, K, None)
      /\ cid' = [Reset(cid, K, None) EXCEPT ![b] = h]
      /\ profile' = Reset(profile, K, "none")
      /\ takeover' = Reset(takeover, K, None)
      /\ token' = Reset(token, K, "none")
      /\ closing' = closing \ K /\ claim' = claim \ K /\ secondary' = secondary \ K
      /\ nickSlot' = [FreeNicks(K) EXCEPT ![n] = b]
      /\ cidSlot' = [FreeCids(K) EXCEPT ![h] = b]
      /\ online' = (online \ K) \cup {b}
      /\ userCount' = userCount - HumansLeaving(K)
  BY DEF RegBot, Forget
<1>5. \/ account[n] = "none" /\ (nickSlot[n] # None => nickSlot[n] \in K)
      \/ account[n] = "bot"
  BY <1>1, NickOwner DEF RegBot, TypeOK, Kinds
<1> HIDE DEF n, h, K
<1>6. CountExact' /\ userCount' \in Nat
  <2>1. online' \cap Conns = (online \ K) \cap Conns
    BY <1>1, <1>4
  <2> QED
    BY <2>1, <1>4, CountLeaving DEF IInv, CountExact
<1>7. TypeOK'
  <2>1. /\ state' \in [Conns -> States]
        /\ nick' \in [Users -> Nicks \cup {None}]
        /\ firstnick' \in [Conns -> Nicks \cup {None}]
        /\ cid' \in [Users -> Cids \cup {None}]
        /\ profile' \in [Conns -> Kinds]
    BY <1>1, <1>4, ResetTypes
  <2>2. /\ takeover' \in [Conns -> Users \cup {None}]
        /\ token' \in [Conns -> {"none", "login", "post"}]
        /\ nickSlot' \in [Nicks -> Users \cup {None}]
        /\ cidSlot' \in [Cids -> Users \cup {None}]
    BY <1>1, <1>4, ResetTypes
  <2>3. /\ closing' \in SUBSET Conns /\ claim' \in SUBSET Conns
        /\ secondary' \in SUBSET Conns /\ online' \in SUBSET Users
        /\ account' \in [Nicks -> Kinds]
    BY <1>1, <1>2, <1>4 DEF TypeOK, Kinds
  <2> QED
    BY <1>6, <2>1, <2>2, <2>3 DEF TypeOK
<1>8. /\ \A d \in Conns : /\ state'[d] = Left(K, d, state[d], "none")
                          /\ profile'[d] = Left(K, d, profile[d], "none")
                          /\ takeover'[d] = Left(K, d, takeover[d], None)
                          /\ token'[d] = Left(K, d, token[d], "none")
      /\ \A u \in Users \ {b} : /\ nick'[u] = Left(K, u, nick[u], None)
                                /\ cid'[u] = Left(K, u, cid[u], None)
      /\ nick'[b] = n /\ cid'[b] = h
      /\ \A m \in Nicks : nickSlot'[m] =
            IF m = n THEN b
            ELSE IF nickSlot[m] \in K /\ nick[nickSlot[m]] = m THEN None
            ELSE nickSlot[m]
      /\ \A g \in Cids : cidSlot'[g] =
            IF g = h THEN b
            ELSE IF \E u \in K : cid[u] = g THEN None ELSE cidSlot[g]
  BY <1>1, <1>4 DEF TypeOK, Reset, Left, Users, FreeNicks, FreeCids
<1>9. SlotsLive'
  <2>1. ASSUME NEW m \in Nicks, nickSlot'[m] # None
        PROVE  nick'[nickSlot'[m]] = m
    BY <2>1, <1>1, <1>8 DEF IInv, TypeOK, SlotsLive, Left
  <2>2. ASSUME NEW g \in Cids, cidSlot'[g] # None
        PROVE  cid'[cidSlot'[g]] = g
    BY <2>2, <1>1, <1>8 DEF IInv, TypeOK, SlotsLive, Left
  <2> QED
    BY <2>1, <2>2 DEF SlotsLive
<1>10. TokenMatchesState'
  BY <1>8 DEF IInv, TokenMatchesState, Left
<1>11. ConnShape'
  <2> SUFFICES ASSUME NEW d \in Conns
               PROVE  /\ d \in online' <=> state'[d] = "normal"
                      /\ state'[d] \in Fresh => nick'[d] = None /\ cid'[d] = None
                      /\ state'[d] \in Known => nick'[d] \in Nicks /\ cid'[d] \in ClientCids
                      /\ takeover'[d] # None => /\ state'[d] = "verify"
                                                /\ takeover'[d] # d /\ RegOnly
                      /\ state'[d] = "verify" => profile'[d] # "none"
    BY DEF ConnShape
  <2>1. d # b /\ d \in Users
    BY <1>1 DEF Users
  <2> QED
    BY <2>1, <1>4, <1>8 DEF IInv, ConnShape, Left, Fresh, Known
<1>12. BotShape'
  <2>1. ASSUME NEW a \in Bots, a \in online'
        PROVE  /\ nick'[a] = BotNick[a] /\ nickSlot'[BotNick[a]] = a
               /\ cid'[a] = BotCid[a] /\ cidSlot'[BotCid[a]] = a
    <3>1. CASE a = b
      BY <3>1, <1>1, <1>8 DEF n, h
    <3>2. CASE a # b
      <4>1. a \in Users \ {b} /\ a \notin K /\ a \in online
        BY <2>1, <3>2, <1>4 DEF Users
      <4>2. /\ nick[a] = BotNick[a] /\ nickSlot[BotNick[a]] = a
            /\ cid[a] = BotCid[a] /\ cidSlot[BotCid[a]] = a
        BY <4>1 DEF IInv, BotShape
      <4>3. ~ \E u \in K : cid[u] = BotCid[a]
        BY <4>1, <1>2, BotCidUnique
      <4>4. BotNick[a] # n /\ BotCid[a] # h
        BY <3>2 DEF n, h
      <4> QED
        BY <4>1, <4>2, <4>3, <4>4, <1>8 DEF Left
    <3> QED
      BY <3>1, <3>2
  <2>2. ASSUME NEW a \in Bots, a \notin online'
        PROVE  nick'[a] = None /\ cid'[a] = None
    <3>1. a \in Users \ {b} /\ (a \in K \/ a \notin online)
      BY <2>2, <1>4 DEF Users
    <3>2. a \notin online => nick[a] = None /\ cid[a] = None
      BY DEF IInv, BotShape
    <3> QED
      BY <3>1, <3>2, <1>8 DEF Left
  <2> QED
    BY <2>1, <2>2 DEF BotShape
<1>13. NickHeld'
  <2> SUFFICES ASSUME NEW d \in Conns, state'[d] \in Known, takeover'[d] = None,
                      nick'[d] \notin BotNicks
               PROVE  nickSlot'[nick'[d]] = d
    BY DEF NickHeld, BotNicks
  <2>1. /\ d \notin K /\ d \in Users /\ d # b /\ state'[d] = state[d]
        /\ takeover'[d] = takeover[d] /\ nick'[d] = nick[d]
    BY <1>1, <1>8 DEF Left, Known, Users
  <2>2. nick[d] \in Nicks /\ nickSlot[nick[d]] = d /\ nick[d] # n
    BY <2>1 DEF IInv, NickHeld, ConnShape, BotNicks, n
  <2> QED
    BY <2>1, <2>2, <1>8
<1>14. CidHeld'
  <2> SUFFICES ASSUME ~RegOnly, NEW d \in Conns, state'[d] \in Known
               PROVE  cidSlot'[cid'[d]] = d
    BY DEF CidHeld
  <2>1. /\ d \notin K /\ d \in Users /\ d # b /\ state[d] \in Known
        /\ cid'[d] = cid[d]
    BY <1>1, <1>8 DEF Left, Known, Users
  <2>2. cid[d] \in ClientCids /\ cid[d] \in Cids /\ cidSlot[cid[d]] = d
    BY <2>1 DEF IInv, CidHeld, ConnShape, ClientCids
  <2>3. ~ \E u \in K : cid[u] = cid[d]
    BY <2>1, <1>2, ConnCidUnique
  <2> QED
    BY <2>1, <2>2, <2>3, <1>1, <1>8
<1>15. Guests'
  <2> SUFFICES ASSUME ~NickChange, NEW d \in Conns,
                      state'[d] \in Entered, profile'[d] # "user"
               PROVE  account'[nick'[d]] = "none" /\ nickSlot'[nick'[d]] = d
    BY DEF Guests
  <2>1. /\ d \notin K /\ d \in Users /\ d # b /\ state'[d] = state[d]
        /\ profile'[d] = profile[d] /\ nick'[d] = nick[d]
    BY <1>1, <1>8 DEF Left, Entered, Users
  <2>2. /\ nick[d] \in Nicks /\ nickSlot[nick[d]] = d
        /\ account[nick[d]] = "none"
    BY <2>1 DEF IInv, Guests, ConnShape, Entered, Known
  <2>3. nick[d] # n /\ d # None
    BY <2>1, <2>2, <1>5
  <2> QED
    BY <2>1, <2>2, <2>3, <1>1, <1>4, <1>8 DEF TypeOK
<1> QED
  BY <1>6, <1>7, <1>9, <1>10, <1>11, <1>12, <1>13, <1>14, <1>15 DEF IInv

-----------------------------------------------------------------------------
(***************************************************************************)
(* The invariant and what it implies.                                      *)
(***************************************************************************)
LEMMA StepKeeps ==
    ASSUME IInv, NickChange => Bots = {}, [Next]_vars
    PROVE  IInv'
<1>1. CASE UNCHANGED vars
  BY <1>1 DEF vars, connVars, slotVars, IInv, TypeOK, CountExact, SlotsLive,
     TokenMatchesState, ConnShape, BotShape, NickHeld, CidHeld, Guests
<1>2. ASSUME NEW c \in Conns, ConnNext(c) PROVE IInv'
  <2>1. CASE Accept(c)
    BY <2>1, AcceptKeeps
  <2>2. CASE Disconnect(c)
    BY <2>2, DisconnectKeeps DEF Disconnect, Users
  <2>3. CASE ServerClose(c) \/ HQUI(c)
    BY <2>3, ServerCloseKeeps DEF HQUI
  <2>4. CASE HSUP(c)
    BY <2>4, HSUPKeeps
  <2>5. CASE BINF(c)
    BY <2>5, BINFKeeps
  <2>6. CASE HPAS(c)
    BY <2>6, HPASKeeps
  <2>7. CASE HTCP(c) \/ Sweep(c) \/ PostloginINF(c)
    BY <2>7, HbriKeeps
  <2>8. CASE \E n \in Nicks : UpdateNick(c, n)
    BY <2>8, UpdateNickKeeps
  <2> QED
    BY <1>2, <2>1, <2>2, <2>3, <2>4, <2>5, <2>6, <2>7, <2>8 DEF ConnNext
<1>3. ASSUME NEW n \in Nicks, RegUser(n) \/ DelRegUser(n) PROVE IInv'
  BY <1>3, RegUserKeeps, DelRegUserKeeps
<1>4. ASSUME NEW b \in Bots, RegBot(b) \/ KillBot(b) \/ CleanBot(b) PROVE IInv'
  <2>1. CASE KillBot(b)
    BY <2>1, DisconnectKeeps DEF KillBot, Users
  <2> QED
    BY <1>4, <2>1, RegBotKeeps, CleanBotKeeps
<1> QED
  BY <1>1, <1>2, <1>3, <1>4 DEF Next

\* The inductive invariant.  The hypothesis is needed by updatenick only: see
\* the comment at NickOwned.
THEOREM Invariance ==
    ASSUME NickChange => Bots = {}
    PROVE  Spec => []IInv
<1>1. Init => IInv
  BY InitIInv
<1>2. IInv /\ [Next]_vars => IInv'
  BY StepKeeps
<1> QED
  BY <1>1, <1>2, PTL DEF Spec

\* The type invariant: in particular _user_count never goes below zero,
\* whatever leaves the hub in whatever state.
THEOREM TypeCorrect ==
    ASSUME NickChange => Bots = {}
    PROVE  Spec => []TypeOK
<1>1. IInv => TypeOK
  BY DEF IInv
<1> QED
  BY <1>1, Invariance, PTL

\* disconnect, login and the HBRI side channel keep _user_count equal to the
\* number of people online.
THEOREM CountCorrect ==
    ASSUME NickChange => Bots = {}
    PROVE  Spec => []CountExact
<1>1. IInv => CountExact
  BY DEF IInv
<1> QED
  BY <1>1, Invariance, PTL

\* isnickonline finds every user online.
THEOREM NickCorrect ==
    ASSUME NickChange => Bots = {}
    PROVE  Spec => []NickOwned
<1>1. IInv => NickOwned
  <2> SUFFICES ASSUME IInv, NEW u \in online, u \in Bots \/ nick[u] \notin BotNicks
               PROVE  nickSlot[nick[u]] = u
    BY DEF NickOwned, BotNicks
  <2>1. CASE u \in Bots
    BY <2>1 DEF IInv, BotShape
  <2>2. CASE u \in Conns /\ u \notin Bots
    BY <2>2 DEF IInv, ConnShape, NickHeld, Known
  <2> QED
    BY <2>1, <2>2 DEF IInv, TypeOK, Users
<1> QED
  BY <1>1, Invariance, PTL

\* In an open hub iscidonline finds every user online.
THEOREM CidCorrect ==
    ASSUME NickChange => Bots = {}
    PROVE  Spec => []CidOwned
<1>1. IInv => CidOwned
  <2> SUFFICES ASSUME IInv, ~RegOnly, NEW u \in online
               PROVE  cidSlot[cid[u]] = u
    BY DEF CidOwned
  <2>1. CASE u \in Bots
    BY <2>1 DEF IInv, BotShape
  <2>2. CASE u \in Conns
    BY <2>2 DEF IInv, ConnShape, CidHeld, Known
  <2> QED
    BY <2>1, <2>2 DEF IInv, TypeOK, Users
<1> QED
  BY <1>1, Invariance, PTL

\* No slot of the registry outlives the user it leads to.
THEOREM SlotsCorrect ==
    ASSUME NickChange => Bots = {}
    PROVE  Spec => []SlotsLive
<1>1. IInv => SlotsLive
  BY DEF IInv
<1> QED
  BY <1>1, Invariance, PTL

\* A registered nick is online only with its password proven, however
\* registrations and logins interleave.
THEOREM AccountsCorrect ==
    ASSUME NickChange => Bots = {}
    PROVE  Spec => []AuthenticatedNick
<1>1. IInv => AuthenticatedNick
  BY DEF IInv, ConnShape, Guests, AuthenticatedNick, Entered
<1> QED
  BY <1>1, Invariance, PTL

\* A parked user always has the token that wakes it, and only then.
THEOREM TokensCorrect ==
    ASSUME NickChange => Bots = {}
    PROVE  Spec => []TokenMatchesState
<1>1. IInv => TokenMatchesState
  BY DEF IInv
<1> QED
  BY <1>1, Invariance, PTL

-----------------------------------------------------------------------------
(***************************************************************************)
(* The action property.                                                    *)
(***************************************************************************)
\* Departures hand a nick slot to nobody.
LEMMA FreeNicksGives ==
    ASSUME TypeOK, NEW K, NEW n \in Nicks
    PROVE  FreeNicks(K)[n] \in {None, nickSlot[n]}
BY DEF FreeNicks

\* The three steps that give a connection a nick slot.
LEMMA SlotMoves ==
    ASSUME IInv, [Next]_vars, NEW n \in Nicks,
           nickSlot'[n] \in Conns \ {nickSlot[n]}
    PROVE  \E c \in Conns :
              \/ /\ CanRead(c, "identify")
                 /\ \E m \in Nicks, h \in ClientCids, w \in BOOLEAN :
                       AcceptINF(c, m, h, w, Owner(cidSlot, h))
              \/ /\ CanRead(c, "verify") /\ AcceptPassword(c)
                 /\ takeover[c] # None
              \/ \E m \in Nicks : UpdateNick(c, m)
<1> USE ConstantsAssumption DEF ConstantsAssumption
<1>1. nickSlot'[n] # nickSlot[n] /\ nickSlot'[n] # None /\ nickSlot'[n] \notin Bots
  OBVIOUS
<1>2. \A K : nickSlot' # FreeNicks(K)
  BY <1>1, FreeNicksGives DEF IInv
<1>3. \A K : ~Depart(K)
  BY <1>2 DEF Depart
<1>4. nickSlot' # nickSlot
  BY <1>1
<1>5. ASSUME NEW c \in Conns, ConnNext(c)
      PROVE  \/ BINF(c) \/ HPAS(c) \/ \E m \in Nicks : UpdateNick(c, m)
  BY <1>3, <1>4, <1>5 DEF ConnNext, Accept, Disconnect, ServerClose, HQUI, HSUP,
     HTCP, Resolve, Sweep, PostloginINF, slotVars
<1>6. ASSUME NEW c \in Conns, BINF(c)
      PROVE  /\ CanRead(c, "identify")
             /\ \E m \in Nicks, h \in ClientCids, w \in BOOLEAN :
                   AcceptINF(c, m, h, w, Owner(cidSlot, h))
  <2>1. ~RejectINF(c) /\ \A K : ~RefuseINF(c, K)
    BY <1>3 DEF RejectINF, RefuseINF
  <2>2. \A m, h, w, K : ~PendTakeover(c, m, h, w, K)
    BY <1>2 DEF PendTakeover
  <2> QED
    BY <1>6, <2>1, <2>2 DEF BINF
<1>7. ASSUME NEW c \in Conns, HPAS(c)
      PROVE  CanRead(c, "verify") /\ AcceptPassword(c) /\ takeover[c] # None
  BY <1>3, <1>4, <1>7 DEF HPAS, RefusePassword, RefuseAfterSwap, AcceptPassword
<1>8. ASSUME NEW m \in Nicks, RegUser(m) \/ DelRegUser(m) PROVE FALSE
  BY <1>3, <1>8 DEF RegUser, DelRegUser
<1>9. ASSUME NEW b \in Bots, RegBot(b) \/ KillBot(b) \/ CleanBot(b) PROVE FALSE
  <2>1. RegBot(b)
    BY <1>3, <1>4, <1>9 DEF KillBot, CleanBot, slotVars
  <2>2. PICK K : nickSlot' = [FreeNicks(K) EXCEPT ![BotNick[b]] = b]
    BY <2>1 DEF RegBot
  <2>3. nickSlot'[n] = b \/ nickSlot'[n] = FreeNicks(K)[n]
    BY <2>2, ResetTypes DEF IInv
  <2> QED
    BY <2>3, <1>1, FreeNicksGives DEF IInv
<1> QED
  BY <1>4, <1>5, <1>6, <1>7, <1>8, <1>9 DEF Next, vars, slotVars

\* Each of them hands it over as HandoverStep says.
LEMMA HandoverOfStep ==
    ASSUME IInv, [Next]_vars
    PROVE  HandoverStep
<1> USE ConstantsAssumption DEF ConstantsAssumption
<1> SUFFICES ASSUME NEW n \in Nicks, nickSlot[n] \in online,
                    nickSlot'[n] \in Conns \ {nickSlot[n]}
             PROVE  LET old == nickSlot[n]
                        new == nickSlot'[n] IN
                    \/ /\ state[new] = "verify" /\ profile[new] = "user"
                       /\ takeover[new] = old
                    \/ state[new] = "identify" /\ cid'[new] = cid[old]
  BY DEF HandoverStep
<1>1. nickSlot[n] \in Users /\ nickSlot[n] # None /\ TypeOK
  BY DEF IInv, TypeOK, Users
<1>2. ASSUME NEW K, FreeNicks(K)[n] = None
      PROVE  nickSlot[n] \in K
  BY <1>1, <1>2 DEF FreeNicks
<1>3. ASSUME NEW c \in Conns, NEW m \in Nicks, NEW h \in ClientCids,
             NEW w \in BOOLEAN, CanRead(c, "identify"),
             AcceptINF(c, m, h, w, Owner(cidSlot, h))
      PROVE  /\ nickSlot'[n] = c /\ state[c] = "identify"
             /\ cid'[c] = cid[nickSlot[n]]
  <2> DEFINE K == Owner(cidSlot, h)
             shown == Shown(m, account[m])
  <2>1. /\ FreeNicks(K)[shown] = None
        /\ nickSlot' = [FreeNicks(K) EXCEPT ![shown] = c]
        /\ cid' = [Reset(cid, K, None) EXCEPT ![c] = h]
    BY <1>3 DEF AcceptINF, CanShow, Shown
  <2>2. nickSlot'[n] \notin {None, nickSlot[n]}
    OBVIOUS
  <2> HIDE DEF shown, K
  <2>3. n = shown /\ nickSlot'[n] = c
    BY <2>1, <2>2, <1>1, FreeNicksGives, ResetTypes
  <2>4. nickSlot[n] \in K
    BY <2>1, <2>3, <1>2
  <2>5. cid[nickSlot[n]] = h
    BY <2>4, CidOwner DEF K
  <2>6. cid'[c] = h
    BY <2>1, <1>1, ResetTypes DEF Users
  <2> QED
    BY <1>3, <2>3, <2>5, <2>6 DEF CanRead
<1>4. ASSUME NEW c \in Conns, CanRead(c, "verify"), AcceptPassword(c),
             takeover[c] # None
      PROVE  /\ nickSlot'[n] = c /\ state[c] = "verify" /\ profile[c] = "user"
             /\ takeover[c] = nickSlot[n]
  <2> DEFINE K == Replaced(c)
             shown == Shown(nick[c], profile[c])
  <2>1. /\ state[c] = "verify" /\ profile[c] = "user" /\ StillOwner(c)
        /\ nickSlot' = [FreeNicks(K) EXCEPT ![shown] = c]
        /\ shown # nick[c] => FreeNicks(K)[shown] = None
    BY <1>4 DEF AcceptPassword, CanRead, CanShow
  <2>2. FreeNicks(K)[shown] = None
    BY <1>4, <2>1, TakenNickFree
  <2>3. nickSlot'[n] \notin {None, nickSlot[n]}
    OBVIOUS
  <2> HIDE DEF shown, K
  <2>4. n = shown /\ nickSlot'[n] = c
    BY <2>1, <2>3, <1>1, FreeNicksGives, ResetTypes
  <2>5. nickSlot[n] \in K
    BY <2>2, <2>4, <1>2
  <2> QED
    BY <2>1, <2>4, <2>5 DEF K, Replaced
<1>5. ASSUME NEW c \in Conns, NEW m \in Nicks, UpdateNick(c, m)
      PROVE  FALSE
  <2>1. /\ nickSlot[m] = None
        /\ nickSlot' = [nickSlot EXCEPT ![nick[c]] = None, ![m] = c]
    BY <1>5 DEF UpdateNick
  <2>2. nickSlot'[n] \notin {None, nickSlot[n]}
    OBVIOUS
  <2> QED
    BY <2>1, <2>2, <1>1 DEF TypeOK
<1> QED
  BY <1>3, <1>4, <1>5, SlotMoves

\* #91: nobody loses a nick to a connection that did not prove the password of
\* the nick, or the CID of its user.
THEOREM HandoverCorrect ==
    ASSUME NickChange => Bots = {}
    PROVE  Spec => HandoverAuthenticated
<1>1. IInv /\ [Next]_vars => [HandoverStep]_vars
  BY HandoverOfStep
<1> QED
  BY <1>1, Invariance, PTL DEF Spec, HandoverAuthenticated
=============================================================================
