---------------------------- MODULE HubSessions ----------------------------
(***************************************************************************)
(* The session registry of the hub: core/hub.lua (newuser, insertuser,     *)
(* login, disconnect, regbot, reguser, delreguser), the four ADC state     *)
(* tables of core/hub_dispatch.lua and the HBRI side channel of            *)
(* core/hbri.lua.                                                          *)
(*                                                                         *)
(* The hub is single threaded.  An action is one handler run to its end:   *)
(* a frame dispatched by `incoming`, a socket event, a timer, a call of a  *)
(* plugin.  What interleaves is the order of the handlers of different     *)
(* connections.                                                            *)
(***************************************************************************)
EXTENDS Integers, FiniteSets

CONSTANTS
    Conns,      \* client connections, each with the user object made for it
    Bots,       \* in-hub bots (hub.regbot)
    Nicks,      \* nicks, as written in an INF or shown to the other users
    Cids,       \* client ids
    BotNick,    \* [Bots -> Nicks]
    BotCid,     \* [Bots -> Cids]
    Prefix,     \* [Nicks -> Nicks]: the shown nick of a registered nick, the
                \* identity when the plugin usr_nick_prefix is off
    MaxUsers,   \* cfg max_users
    RegOnly,    \* cfg reg_only
    NickChange, \* cfg nick_change: may an INF in state "normal" change NI
    Hbri,       \* hbri.active()
    None

Users == Conns \cup Bots

\* A client proves its CID with the PID it hashes from, so no client has the
\* CID of a bot.
ClientCids == Cids \ {BotCid[b] : b \in Bots}

ASSUME ConstantsAssumption ==
    /\ IsFiniteSet(Conns) /\ IsFiniteSet(Bots)
    /\ Conns \cap Bots = {}
    /\ None \notin Conns \cup Bots \cup Nicks \cup Cids
    /\ BotNick \in [Bots -> Nicks] /\ BotCid \in [Bots -> Cids]
    /\ \A b1, b2 \in Bots : b1 # b2 => BotNick[b1] # BotNick[b2]
                                        /\ BotCid[b1] # BotCid[b2]
    /\ Prefix \in [Nicks -> Nicks]
    /\ MaxUsers \in Nat
    /\ RegOnly \in BOOLEAN /\ NickChange \in BOOLEAN /\ Hbri \in BOOLEAN

VARIABLES
    state,      \* user.state() of a connection, "none" when it has no user
    closing,    \* connections whose client.close() was called: no frame of
                \* theirs is dispatched any more, `disconnect` is still to come
    nick,       \* NI of the user's INF (current nick), None before the INF
    firstnick,  \* user.firstnick(): the nick of the first INF
    cid,        \* ID of the user's INF
    profile,    \* the kind of account bound by addregmethods: "none", "user"
                \* or "bot"
    claim,      \* connections with a usable secondary address claim
    secondary,  \* connections whose INF carries a validated secondary address
    takeover,   \* user._takeover_target
    token,      \* the pending HBRI attempt of a user: "none", "login", "post"
    nickSlot,   \* _usernicks
    cidSlot,    \* _usercids.TIGR
    online,     \* _normalstatesids (with Conns: _nobot_normalstatesids)
    userCount,  \* _user_count
    account     \* _regusernicks: kind of account registered for a nick

connVars == <<state, closing, nick, firstnick, cid, profile, claim, secondary,
              takeover, token>>
slotVars == <<nickSlot, cidSlot, online, userCount>>
vars == <<connVars, slotVars, account>>

States == {"none", "protocol", "identify", "verify", "hbri", "normal"}
Kinds == {"none", "user", "bot"}

TypeOK ==
    /\ state \in [Conns -> States]
    /\ closing \in SUBSET Conns
    /\ nick \in [Users -> Nicks \cup {None}]
    /\ firstnick \in [Conns -> Nicks \cup {None}]
    /\ cid \in [Users -> Cids \cup {None}]
    /\ profile \in [Conns -> Kinds]
    /\ claim \in SUBSET Conns
    /\ secondary \in SUBSET Conns
    /\ takeover \in [Conns -> Users \cup {None}]
    /\ token \in [Conns -> {"none", "login", "post"}]
    /\ nickSlot \in [Nicks -> Users \cup {None}]
    /\ cidSlot \in [Cids -> Users \cup {None}]
    /\ online \in SUBSET Users
    /\ userCount \in Nat
    /\ account \in [Nicks -> Kinds]

(***************************************************************************)
(* Boot: every configured bot is registered and running, any other nick may *)
(* have an account in user.tbl, nobody is connected.                       *)
(***************************************************************************)
Init ==
    /\ state = [c \in Conns |-> "none"]
    /\ closing = {}
    /\ nick = [u \in Users |-> IF u \in Bots THEN BotNick[u] ELSE None]
    /\ firstnick = [c \in Conns |-> None]
    /\ cid = [u \in Users |-> IF u \in Bots THEN BotCid[u] ELSE None]
    /\ profile = [c \in Conns |-> "none"]
    /\ claim = {}
    /\ secondary = {}
    /\ takeover = [c \in Conns |-> None]
    /\ token = [c \in Conns |-> "none"]
    /\ nickSlot = [n \in Nicks |-> IF \E b \in Bots : BotNick[b] = n
                                   THEN CHOOSE b \in Bots : BotNick[b] = n
                                   ELSE None]
    /\ cidSlot = [h \in Cids |-> IF \E b \in Bots : BotCid[b] = h
                                 THEN CHOOSE b \in Bots : BotCid[b] = h
                                 ELSE None]
    /\ online = Bots
    /\ userCount = 0
    /\ account \in [Nicks -> Kinds]
    /\ \A n \in Nicks : account[n] = "bot" <=> \E b \in Bots : BotNick[b] = n

-----------------------------------------------------------------------------
(***************************************************************************)
(* What `disconnect` does to the tables when the users of K leave.  The    *)
(* nick slot is cleared only by its owner, the CID slot by anybody who     *)
(* showed that CID.                                                        *)
(***************************************************************************)
FreeNicks(K) ==
    [n \in Nicks |-> IF nickSlot[n] \in K /\ nick[nickSlot[n]] = n
                     THEN None ELSE nickSlot[n]]
\* Variant: disconnect forgets _usercids.
FreeNoCids(K) == cidSlot
FreeCids(K) ==
    [h \in Cids |-> IF \E u \in K : cid[u] = h THEN None ELSE cidSlot[h]]
\* Variant: whoever leaves is counted, logged in or not.
AllLeaving(K) == Cardinality(K \cap Conns)
HumansLeaving(K) == Cardinality({c \in K \cap Conns : state[c] = "normal"})

\* f with the users of K back to the value v they had before they connected.
Reset(f, K, v) == [u \in DOMAIN f |-> IF u \in K THEN v ELSE f[u]]

\* The fields of the user objects of K, dropped with the objects.
Forget(K) ==
    /\ closing' = closing \ K
    /\ claim' = claim \ K
    /\ secondary' = secondary \ K

\* The users of K leave the hub and nothing else happens.
Depart(K) ==
    /\ state' = Reset(state, K, "none")
    /\ nick' = Reset(nick, K, None)
    /\ firstnick' = Reset(firstnick, K, None)
    /\ cid' = Reset(cid, K, None)
    /\ profile' = Reset(profile, K, "none")
    /\ takeover' = Reset(takeover, K, None)
    /\ token' = Reset(token, K, "none")
    /\ Forget(K)
    /\ nickSlot' = FreeNicks(K)
    /\ cidSlot' = FreeCids(K)
    /\ online' = online \ K
    /\ userCount' = userCount - HumansLeaving(K)

\* Variant: the user found in the slot is not killed.
NobodyKilled(slot, k) == {}
Owner(slot, k) == {slot[k]} \ {None}

\* A frame of c can be dispatched in state s.
CanRead(c, s) == state[c] = s /\ c \notin closing

\* login( ): a user with a claim the hub can validate is parked in "hbri" with
\* a token, every other user enters "normal" and is counted.  K left before.
LoginState(wants) == IF Hbri /\ wants THEN "hbri" ELSE "normal"
EnterOnline(c, K, s) ==
    /\ online' = (online \ K) \cup (IF s = "normal" THEN {c} ELSE {})
    /\ userCount' = userCount - HumansLeaving(K) + (IF s = "normal" THEN 1 ELSE 0)

-----------------------------------------------------------------------------
\* newuser: a connection is accepted.  The object of an earlier user of this
\* connection is garbage by then: no takeover refers to it.
Accept(c) ==
    /\ state[c] = "none"
    /\ \A x \in Conns : takeover[x] # c
    /\ state' = [state EXCEPT ![c] = "protocol"]
    /\ UNCHANGED <<closing, nick, firstnick, cid, profile, claim, secondary,
                   takeover, token, slotVars, account>>

\* disconnect: the peer closed, the server gave the socket up, or a plugin
\* killed the user.
Disconnect(c) ==
    /\ state[c] # "none"
    /\ Depart({c})
    /\ UNCHANGED account

\* handler.close: a send buffer overflowed or a timeout passed.  The socket is
\* not read any more, the user stays registered until `disconnect`.
ServerClose(c) ==
    /\ state[c] # "none" /\ c \notin closing
    /\ closing' = closing \cup {c}
    /\ UNCHANGED <<state, nick, firstnick, cid, profile, claim, secondary,
                   takeover, token, slotVars, account>>

\* HQUI of the three states before login: a clean close.
HQUI(c) ==
    /\ state[c] \in {"protocol", "identify", "verify"}
    /\ ServerClose(c)

\* HSUP: the only place where max_users is compared.
HSUP(c) ==
    /\ CanRead(c, "protocol")
    /\ \/ /\ userCount < MaxUsers
          /\ state' = [state EXCEPT ![c] = "identify"]
          /\ UNCHANGED <<closing, nick, firstnick, cid, profile, claim,
                         secondary, takeover, token, slotVars>>
       \/ Depart({c})       \* hub full, or no BASE support
    /\ UNCHANGED account

-----------------------------------------------------------------------------
(***************************************************************************)
(* BINF in state "identify".  n and h are the nick and the CID of the INF, *)
(* w says that it claims a secondary address and that the client supports  *)
(* HBRI.  K is the user the CID belonged to: it is killed first.           *)
(***************************************************************************)
Shown(n, kind) == IF kind = "none" THEN n ELSE Prefix[n]

\* updatenick from the onConnect listener of usr_nick_prefix.
CanShow(n, shown, slots) ==
    shown # n => slots[shown] = None /\ account[shown] = "none"

\* A malformed INF, a wrong address, a PID that does not hash to the CID.
RejectINF(c) == Depart({c})

\* Killed after the CID check: nick taken, not registered, too many bad
\* passwords, or by a listener of onConnect.
RefuseINF(c, K) == Depart(K \cup {c})

\* A registered nick is taken in a reg_only hub: the connection waits for its
\* password, and owns neither the nick nor the CID until then.
PendTakeover(c, n, h, w, K) ==
    /\ RegOnly /\ account[n] # "none" /\ FreeNicks(K)[n] # None
    /\ state' = [Reset(state, K, "none") EXCEPT ![c] = "verify"]
    /\ nick' = [Reset(nick, K, None) EXCEPT ![c] = n]
    /\ firstnick' = [Reset(firstnick, K, None) EXCEPT ![c] = n]
    /\ cid' = [Reset(cid, K, None) EXCEPT ![c] = h]
    /\ profile' = [Reset(profile, K, "none") EXCEPT ![c] = account[n]]
    /\ takeover' = [Reset(takeover, K, None) EXCEPT ![c] = FreeNicks(K)[n]]
    /\ token' = Reset(token, K, "none")
    /\ closing' = closing \ K
    /\ claim' = IF w THEN (claim \ K) \cup {c} ELSE claim \ K
    /\ secondary' = secondary \ K
    /\ nickSlot' = FreeNicks(K)
    /\ cidSlot' = FreeCids(K)
    /\ online' = online \ K
    /\ userCount' = userCount - HumansLeaving(K)

\* The nick is free: insertuser, the listeners of onConnect, then the password
\* challenge of a registered user or the login of any other.
AcceptINF(c, n, h, w, K) ==
    LET s == IF account[n] = "none" THEN LoginState(w) ELSE "verify"
        shown == Shown(n, account[n]) IN
    /\ RegOnly => account[n] # "none"
    /\ FreeNicks(K)[n] = None /\ CanShow(n, shown, FreeNicks(K))
    /\ state' = [Reset(state, K, "none") EXCEPT ![c] = s]
    /\ nick' = [Reset(nick, K, None) EXCEPT ![c] = shown]
    /\ firstnick' = [Reset(firstnick, K, None) EXCEPT ![c] = n]
    /\ cid' = [Reset(cid, K, None) EXCEPT ![c] = h]
    /\ profile' = [Reset(profile, K, "none") EXCEPT ![c] = account[n]]
    /\ takeover' = Reset(takeover, K, None)
    /\ token' = [Reset(token, K, "none") EXCEPT
                    ![c] = IF s = "hbri" THEN "login" ELSE "none"]
    /\ closing' = closing \ K
    /\ claim' = IF w THEN (claim \ K) \cup {c} ELSE claim \ K
    /\ secondary' = secondary \ K
    /\ nickSlot' = [FreeNicks(K) EXCEPT ![shown] = c]
    /\ cidSlot' = [FreeCids(K) EXCEPT ![h] = c]
    /\ EnterOnline(c, K, s)

BINF(c) ==
    /\ CanRead(c, "identify")
    /\ \/ RejectINF(c)
       \/ \E n \in Nicks, h \in ClientCids, w \in BOOLEAN :
            LET K == Owner(cidSlot, h) IN
            \/ RefuseINF(c, K)
            \/ PendTakeover(c, n, h, w, K)
            \/ AcceptINF(c, n, h, w, K)
    /\ UNCHANGED account

-----------------------------------------------------------------------------
(***************************************************************************)
(* HPAS.  The password of a bot account is random and told to nobody.      *)
(***************************************************************************)
\* Wrong password, or the nick went to a third connection in the meantime, or
\* a listener of onConnect kills the user before the swap matters.
RefusePassword(c) == Depart({c})

\* The user whose nick c takes over, if it is still there.
Replaced(c) == {u \in {takeover[c]} \ {None} : u \in Conns => state[u] # "none"}
\* Variant: the nick is not looked up again when the password arrives.
OwnerUnchecked(c) == TRUE
StillOwner(c) ==
    takeover[c] # None => nickSlot[nick[c]] \in {None, takeover[c]}

\* A listener of onConnect kills c after the user it replaces was killed.
RefuseAfterSwap(c) ==
    /\ takeover[c] # None /\ StillOwner(c)
    /\ Depart(Replaced(c) \cup {c})

AcceptPassword(c) ==
    LET K == Replaced(c)
        pending == takeover[c] # None
        s == LoginState(c \in claim)
        shown == IF pending THEN Shown(nick[c], profile[c]) ELSE nick[c] IN
    /\ profile[c] = "user" /\ StillOwner(c)
    /\ pending => CanShow(nick[c], shown, FreeNicks(K))
    /\ state' = [Reset(state, K, "none") EXCEPT ![c] = s]
    /\ nick' = [Reset(nick, K, None) EXCEPT ![c] = shown]
    /\ firstnick' = Reset(firstnick, K, None)
    /\ cid' = Reset(cid, K, None)
    /\ profile' = Reset(profile, K, "none")
    /\ takeover' = [Reset(takeover, K, None) EXCEPT ![c] = None]
    /\ token' = [Reset(token, K, "none") EXCEPT
                    ![c] = IF s = "hbri" THEN "login" ELSE "none"]
    /\ Forget(K)
    /\ nickSlot' = IF pending THEN [FreeNicks(K) EXCEPT ![shown] = c] ELSE nickSlot
    /\ cidSlot' = IF pending THEN [FreeCids(K) EXCEPT ![cid[c]] = c] ELSE cidSlot
    /\ EnterOnline(c, K, s)

HPAS(c) ==
    /\ CanRead(c, "verify")
    /\ \/ RefusePassword(c)
       \/ RefuseAfterSwap(c) /\ profile[c] = "user"
       \/ AcceptPassword(c)
    /\ UNCHANGED account

-----------------------------------------------------------------------------
(***************************************************************************)
(* HBRI.  A token resolves once: by the HTCP of a side-channel connection  *)
(* or by the sweep after the timeout.                                      *)
(***************************************************************************)
\* Variant: a failed validation does not log the user in.
ResolveProvenOnly(u, proven) ==
    /\ token' = [token EXCEPT ![u] = "none"]
    /\ secondary' = IF proven THEN secondary \cup {u} ELSE secondary
    /\ IF token[u] = "login" /\ proven
       THEN /\ state' = [state EXCEPT ![u] = "normal"]
            /\ EnterOnline(u, {}, "normal")
       ELSE UNCHANGED <<state, online, userCount>>
    /\ UNCHANGED <<nick, firstnick, cid, profile, claim, takeover, nickSlot,
                   cidSlot, account>>

\* fail / commit_and_complete for the user u of the token.
Resolve(u, proven) ==
    /\ token' = [token EXCEPT ![u] = "none"]
    /\ secondary' = IF proven THEN secondary \cup {u} ELSE secondary
    /\ IF token[u] = "login"
       THEN /\ state' = [state EXCEPT ![u] = "normal"]
            /\ EnterOnline(u, {}, "normal")
       ELSE UNCHANGED <<state, online, userCount>>
    /\ UNCHANGED <<nick, firstnick, cid, profile, claim, takeover, nickSlot,
                   cidSlot, account>>

\* HTCP on a fresh connection v: unknown token, wrong family or address
\* mismatch, or success.  v is closed in every case.
HTCP(v) ==
    /\ CanRead(v, "protocol")
    /\ \/ ServerClose(v)
       \/ /\ closing' = closing \cup {v}
          /\ \E u \in Conns, proven \in BOOLEAN :
                token[u] # "none" /\ Resolve(u, proven)

\* Variant: the sweep skips the attempts of users parked at login.
SweepPostOnly(u) ==
    /\ token[u] = "post"
    /\ Resolve(u, FALSE)
    /\ UNCHANGED closing

\* sweep: the deadline of the attempt of u has passed.
Sweep(u) ==
    /\ token[u] # "none"
    /\ Resolve(u, FALSE)
    /\ UNCHANGED closing

\* postlogin_inf: a logged-in client shows a secondary address in an INF.
PostloginINF(c) ==
    /\ Hbri /\ CanRead(c, "normal")
    /\ token[c] = "none" /\ c \notin secondary
    /\ token' = [token EXCEPT ![c] = "post"]
    /\ UNCHANGED <<state, closing, nick, firstnick, cid, profile, claim,
                   secondary, takeover, slotVars, account>>

-----------------------------------------------------------------------------
\* Variant: updatenick takes a nick that somebody has.
UpdateNickUnchecked(c, n) ==
    /\ NickChange /\ CanRead(c, "normal")
    /\ n # nick[c]
    /\ nick' = [nick EXCEPT ![c] = n]
    /\ nickSlot' = [nickSlot EXCEPT ![nick[c]] = None, ![n] = c]
    /\ UNCHANGED <<state, closing, firstnick, cid, profile, claim, secondary,
                   takeover, token, cidSlot, online, userCount, account>>

\* updatenick, from the INF of a logged-in user (hub_inf_manager).
UpdateNick(c, n) ==
    /\ NickChange /\ CanRead(c, "normal")
    /\ n # nick[c] /\ nickSlot[n] = None
    /\ account[n] # "none" => n = firstnick[c]
    /\ nick' = [nick EXCEPT ![c] = n]
    /\ nickSlot' = [nickSlot EXCEPT ![nick[c]] = None, ![n] = c]
    /\ UNCHANGED <<state, closing, firstnick, cid, profile, claim, secondary,
                   takeover, token, cidSlot, online, userCount, account>>

\* Variant: reguser leaves the user of the nick online.
RegUserNoKill(n) ==
    /\ account[n] = "none"
    /\ account' = [account EXCEPT ![n] = "user"]
    /\ UNCHANGED <<connVars, slotVars>>

\* reguser from +reg: whoever is connected under the nick is killed.
RegUser(n) ==
    /\ account[n] = "none"
    /\ account' = [account EXCEPT ![n] = "user"]
    /\ Depart(Owner(nickSlot, n))

\* delreguser from +delreg, which then kills the user if it is online.
DelRegUser(n) ==
    /\ account[n] = "user"
    /\ account' = [account EXCEPT ![n] = "none"]
    /\ Depart(Owner(nickSlot, Prefix[n]) \cap online \cap Conns)

\* delreguser from hub_bot_cleaner: the account of a bot that is not running.
CleanBot(b) ==
    /\ account[BotNick[b]] = "bot" /\ b \notin online
    /\ account' = [account EXCEPT ![BotNick[b]] = "none"]
    /\ UNCHANGED <<connVars, slotVars>>

\* regbot: the bot registers its nick first if nobody has (reguser), then
\* claims its slots without looking at them.
RegBot(b) ==
    LET n == BotNick[b]
        K == IF account[n] = "none" THEN Owner(nickSlot, n) ELSE {} IN
    /\ b \notin online /\ account[n] # "user"
    /\ account' = [account EXCEPT ![n] = "bot"]
    /\ state' = Reset(state, K, "none")
    /\ nick' = [Reset(nick, K, None) EXCEPT ![b] = n]
    /\ firstnick' = Reset(firstnick, K, None)
    /\ cid' = [Reset(cid, K, None) EXCEPT ![b] = BotCid[b]]
    /\ profile' = Reset(profile, K, "none")
    /\ takeover' = Reset(takeover, K, None)
    /\ token' = Reset(token, K, "none")
    /\ Forget(K)
    /\ nickSlot' = [FreeNicks(K) EXCEPT ![n] = b]
    /\ cidSlot' = [FreeCids(K) EXCEPT ![BotCid[b]] = b]
    /\ online' = (online \ K) \cup {b}
    /\ userCount' = userCount - HumansLeaving(K)

\* bot.kill, at a reload or from the plugin of the bot.
KillBot(b) ==
    /\ b \in online
    /\ Depart({b})
    /\ UNCHANGED account

-----------------------------------------------------------------------------
ConnNext(c) ==
    \/ Accept(c) \/ Disconnect(c) \/ ServerClose(c)
    \/ HSUP(c) \/ HQUI(c) \/ HTCP(c) \/ BINF(c) \/ HPAS(c)
    \/ Sweep(c) \/ PostloginINF(c)
    \/ \E n \in Nicks : UpdateNick(c, n)

Next ==
    \/ \E c \in Conns : ConnNext(c)
    \/ \E n \in Nicks : RegUser(n) \/ DelRegUser(n)
    \/ \E b \in Bots : RegBot(b) \/ KillBot(b) \/ CleanBot(b)

Spec == Init /\ [][Next]_vars

\* The server timer sweeps expired attempts about once a second, and the event
\* loop reports every closed socket to `disconnect`.
FinishClose(c) == c \in closing /\ Disconnect(c)
FairSpec ==
    Spec /\ \A c \in Conns : WF_vars(Sweep(c)) /\ WF_vars(FinishClose(c))

-----------------------------------------------------------------------------
(***************************************************************************)
(* Properties.                                                             *)
(***************************************************************************)
BotNicks == {BotNick[b] : b \in Bots}

\* A slot of _usernicks or _usercids leads to a connected user that has that
\* nick or CID: no slot outlives its user (disconnect, updatenick, takeover).
SlotsLive ==
    /\ \A n \in Nicks : nickSlot[n] # None => nick[nickSlot[n]] = n
    /\ \A h \in Cids : cidSlot[h] # None => cid[cidSlot[h]] = h

\* Every online user is found under its nick (isnickonline), so no two online
\* users show one nick, whatever takeovers were started, refused or aborted.
\* Left out: a person whose nick is that of a configured bot.
NickOwned ==
    \A u \in online :
        u \in Bots \/ nick[u] \notin BotNicks => nickSlot[nick[u]] = u

\* In an open hub every online user is found under its CID (iscidonline).
CidOwned == RegOnly \/ \A u \in online : cidSlot[cid[u]] = u

\* _user_count, which gates HSUP and is reported to hublists, counts exactly
\* the people in state "normal": bots are never counted, nobody twice.
CountExact == userCount = Cardinality(online \cap Conns)

\* A user is parked in "hbri" exactly while its login token is pending, and a
\* token of the other kind belongs to a user in "normal": no token outlives
\* its user, no user is parked with nothing to wake it.
TokenMatchesState ==
    \A c \in Conns : /\ state[c] = "hbri" <=> token[c] = "login"
                     /\ token[c] = "post" => state[c] = "normal"

\* Nobody is online under the nick of a registered account without having
\* answered its password challenge, also when the account is registered while
\* the nick is in use.  (Not with nick_change: see UpdateNick.)
AuthenticatedNick ==
    NickChange \/ \A c \in online \cap Conns :
        account[nick[c]] = "user" => profile[c] = "user"

\* #91: the nick slot of an online user passes to another connection only in
\* the HPAS of a connection that was waiting for exactly that user, or in the
\* BINF of one that proved the CID of that user.
HandoverStep ==
    \A n \in Nicks : LET old == nickSlot[n]
                         new == nickSlot'[n] IN
        old \in online /\ new \in Conns \ {old}
            => \/ /\ state[new] = "verify" /\ profile[new] = "user"
                  /\ takeover[new] = old
               \/ state[new] = "identify" /\ cid'[new] = cid[old]
HandoverAuthenticated == [][HandoverStep]_vars

\* A user parked for its secondary address gets into the hub or leaves.
ParkedLeaves ==
    \A c \in Conns : state[c] = "hbri" ~> state[c] \in {"normal", "none"}

=============================================================================
