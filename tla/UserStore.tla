----------------------------- MODULE UserStore -----------------------------
(***************************************************************************)
(* The registered users: the profiles in memory (core/hub.lua), their file *)
(* and its backup (core/cfg_users.lua), and the sessions that hold a       *)
(* profile (core/hub_user_object.lua, core/hub_dispatch.lua).              *)
(*                                                                         *)
(* A profile is a Lua table that several parts refer to: an element of     *)
(* Ids is a reference and `heap` what it refers to.  A reload makes new    *)
(* tables, and a session that was there before goes on with the old one.   *)
(*                                                                         *)
(* A save writes both files one after the other, each by renaming a        *)
(* complete new one over the old one (POSIX).  Either write may be refused.*)
(* A crash within a save leaves what a refused write and a crash after the *)
(* handler leave, so that Crash between handlers is all there has to be.   *)
(* One thing goes wrong at a time: after a refused write or the loss of a  *)
(* copy the next save succeeds.                                            *)
(*                                                                         *)
(* What of a profile has to survive a restart is one value: its password,  *)
(* level, rank, failed attempts.  The properties only ask if it is the     *)
(* same, so whoever changes a part of it changes it to any other value.    *)
(* Left out: accounts by CID, accounts of bots, and the dates of a profile.*)
(***************************************************************************)
EXTENDS Integers, FiniteSets

CONSTANTS
    Nicks, Sessions,
    Data,           \* what of a profile has to survive, but for its nick
    Ids,            \* references; unused ones are used again
    Bad,            \* a file that is missing or cannot be read
    None

Profile == [nick : Nicks, data : Data, is_online : 0..1]

ASSUME StoreAssumption ==
    /\ None \notin Ids \cup Profile /\ \A c \in SUBSET Profile : c # Bad
    /\ IsFiniteSet(Nicks) /\ IsFiniteSet(Sessions) /\ IsFiniteSet(Ids)
    /\ Cardinality(Ids) >= Cardinality(Nicks) + Cardinality(Sessions)

VARIABLES
    up,             \* the process runs
    heap,           \* what the references refer to
    rows,           \* _regusers, whose order does not matter
    index,          \* _regusernicks
    session,        \* by session: where it is, its nick, its profile
    disk            \* user.tbl, user.tbl.bak, and what went wrong since both
                    \* were last written: nothing, a write that was refused, or
                    \* the loss of a copy

vars == <<up, heap, rows, index, session, disk>>
memory == <<up, heap, rows, index, session>>

Closed == [state |-> "closed", nick |-> None, profile |-> None]
Session == [state : {"verify", "normal"}, nick : Nicks, profile : Ids] \cup {Closed}
Copy == (SUBSET Profile) \cup {Bad}
Disk == [file : Copy, backup : Copy, fault : {"none", "write", "loss"}]

TypeOK ==
    /\ up \in BOOLEAN
    /\ heap \in [Ids -> Profile \cup {None}]
    /\ rows \in SUBSET {i \in Ids : heap[i] # None}
    /\ index \in [Nicks -> Ids \cup {None}]
    /\ session \in [Sessions -> Session]
    /\ disk \in Disk

----------------------------------------------------------------------------
\* What is kept of h: the tables somebody refers to.
Referenced(rws, ses) == rws \cup {ses[s].profile : s \in Sessions}
Kept(h, rws, ses) == [i \in Ids |-> IF i \in Referenced(rws, ses) THEN h[i] ELSE None]

\* The handler leaves these tables and sessions behind.
Leave(h, rws, ses) == heap' = Kept(h, rws, ses) /\ rows' = rws /\ session' = ses

Content(h, rws) == {h[i] : i \in rws}

\* saveusers: the outcomes of a save of content c.
Save(d, c) ==
    {[file |-> c, backup |-> c, fault |-> "none"]} \cup
    IF d.fault # "none" THEN {}
    ELSE {[d EXCEPT !.fault = "write"], [d EXCEPT !.file = c, !.fault = "write"]}

\* Two saves in a row.
SaveTwice(d, c, e) == UNION {Save(f, e) : f \in Save(d, c)}

\* A table of its own for each profile of c.
Tables(c, used) ==
    CHOOSE t \in [c -> Ids \ used] : \A p, q \in c : p # q => t[p] # t[q]

\* The loop of loadregusers and updateusers: everybody is offline.
Offline(c) == {[p EXCEPT !.is_online = 0] : p \in c}

\* The tables are made anew from content c, for the sessions ses on heap h.
Load(c, h, ses) ==
    LET t == Tables(Offline(c), Referenced({}, ses)) IN
    /\ Leave([i \in Ids |-> IF \E p \in Offline(c) : t[p] = i
                            THEN CHOOSE p \in Offline(c) : t[p] = i ELSE h[i]],
             {t[p] : p \in Offline(c)}, ses)
    /\ index' = [n \in Nicks |->
                   IF \E p \in Offline(c) : p.nick = n
                   THEN t[CHOOSE p \in Offline(c) : p.nick = n] ELSE None]

----------------------------------------------------------------------------
Of(n, state) == {s \in Sessions : session[s].nick = n /\ session[s].state = state}
ClosedAll(K) == [s \in Sessions |-> IF s \in K THEN Closed ELSE session[s]]

\* disconnect of the sessions K: a user who was logged in is shown offline.
LoggedOut(h, K) ==
    [i \in Ids |-> IF \E s \in K : session[s].state = "normal" /\ session[s].profile = i
                   THEN [h[i] EXCEPT !.is_online = 0] ELSE h[i]]

\* ... and the profiles are saved, before what the handler itself saves.
SaveAround(K, h, e) ==
    disk' \in IF \E s \in K : session[s].state = "normal"
              THEN SaveTwice(disk, Content(LoggedOut(h, K), rows), e) ELSE Save(disk, e)

\* BINF of a registered nick: the password is asked for, and an older session of
\* the same CID has to leave. Whoever failed too often is let in again after
\* bad_pass_timeout.
Challenge(s, n) ==
    /\ up /\ session[s] = Closed /\ index[n] # None
    /\ \E K \in {{}} \cup {{t} : t \in Sessions \ {s}} :
        LET h == LoggedOut(heap, K) IN
        /\ disk' \in IF \E t \in K : session[t].state = "normal"
                     THEN Save(disk, Content(h, rows)) ELSE {disk}
        /\ Leave(h, rows, [ClosedAll(K) EXCEPT
                ![s] = [state |-> "verify", nick |-> n, profile |-> index[n]]])
    /\ UNCHANGED <<up, index>>

\* HPAS with a wrong password: it is counted.
WrongPassword(s) ==
    /\ up /\ session[s].state = "verify"
    /\ \E d \in Data \ {heap[session[s].profile].data} :
       LET h == [heap EXCEPT ![session[s].profile].data = d] IN
       /\ disk' \in Save(disk, Content(h, rows))
       /\ Leave(h, rows, ClosedAll({s}))
    /\ UNCHANGED <<up, index>>

\* HPAS with the right one: whoever is logged in under the nick has to leave, and
\* failed attempts, if there were any, are forgotten.
\* (HubSessions says which of several sessions may take the nick.)
Login(s) ==
    /\ up /\ session[s].state = "verify"
    /\ \E d \in Data :
       LET p == session[s].profile
           K == Of(session[s].nick, "normal")
           h == [LoggedOut(heap, K) EXCEPT ![p].data = d, ![p].is_online = 1] IN
       /\ SaveAround(K, heap, Content(h, rows))
       /\ Leave(h, rows, [ClosedAll(K) EXCEPT ![s].state = "normal"])
    /\ UNCHANGED <<up, index>>

\* ... but an onConnect listener ends the takeover, or disconnects the newcomer.
LoginStopped(s) ==
    /\ up /\ session[s].state = "verify"
    /\ LET K == Of(session[s].nick, "normal") IN
       /\ K # {} /\ disk' \in Save(disk, Content(LoggedOut(heap, K), rows))
       /\ \E gone \in {{}, {s}} : Leave(LoggedOut(heap, K), rows, ClosedAll(K \cup gone))
    /\ UNCHANGED <<up, index>>

\* disconnect.
Logout(s) ==
    /\ up /\ session[s].state = "normal"
    /\ LET h == LoggedOut(heap, {s}) IN
       /\ disk' \in Save(disk, Content(h, rows))
       /\ Leave(h, rows, ClosedAll({s}))
    /\ UNCHANGED <<up, index>>

\* disconnect of a session that was not logged in yet.
Abandon(s) ==
    /\ up /\ session[s].state = "verify" /\ Leave(heap, rows, ClosedAll({s}))
    /\ UNCHANGED <<up, index, disk>>

----------------------------------------------------------------------------
\* Whom hub.reguser finds in _usernicks: a user who is logged in, or else
\* perhaps one who still has to show a password.
Owners(n) ==
    IF Of(n, "normal") # {} THEN {Of(n, "normal")}
    ELSE {{}} \cup {{s} : s \in Of(n, "verify")}

\* hub.reguser.
RegUser(n, d) ==
    /\ up /\ index[n] = None
    /\ \E K \in Owners(n) :
        LET h == LoggedOut(heap, K)
            new == [nick |-> n, data |-> d, is_online |-> 0]
            i == Tables({new}, Referenced(rows, session))[new]
            g == [h EXCEPT ![i] = new] IN
        /\ SaveAround(K, heap, Content(g, rows \cup {i}))
        /\ Leave(g, rows \cup {i}, ClosedAll(K))
        /\ index' = [index EXCEPT ![n] = i]
    /\ UNCHANGED up

\* hub.delreguser; cmd_delreg then disconnects the user, cmd_usercleaner does not.
DelReg(n) ==
    /\ up /\ index[n] # None
    /\ LET left == rows \ {index[n]} IN
       \E K \in {{}, Of(n, "normal")} :
        /\ disk' \in IF K = {} THEN Save(disk, Content(heap, left))
                     ELSE SaveTwice(disk, Content(heap, left), Content(heap, left))
        /\ Leave(LoggedOut(heap, K), left, ClosedAll(K))
    /\ index' = [index EXCEPT ![n] = None]
    /\ UNCHANGED up

\* Variant: the new password is not saved.
SetPassUnsaved(n, d) ==
    /\ up /\ index[n] # None /\ heap[index[n]].data # d
    /\ Leave([heap EXCEPT ![index[n]].data = d], rows, session)
    /\ UNCHANGED <<up, index, disk>>

\* cmd_setpass (cmd_upgrade and cmd_botflag change other fields alike).
SetPass(n, d) ==
    /\ up /\ index[n] # None /\ heap[index[n]].data # d
    /\ LET h == [heap EXCEPT ![index[n]].data = d] IN
       disk' \in Save(disk, Content(h, rows)) /\ Leave(h, rows, session)
    /\ UNCHANGED <<up, index>>

\* user.setpassword, by a plugin: the profile is the one the session has.
PluginSetPassword(s, d) ==
    /\ up /\ session[s].state = "normal"
    /\ LET h == [heap EXCEPT ![session[s].profile].data = d] IN
       disk' \in Save(disk, Content(h, rows)) /\ Leave(h, rows, session)
    /\ UNCHANGED <<up, index>>

\* Variant: hub.updateusers is not called.
RenameOnly(n, m) ==
    /\ up /\ index[n] # None /\ m # n /\ index[m] = None
    /\ LET K == Of(n, "normal")
           h == LoggedOut([heap EXCEPT ![index[n]].nick = m], K) IN
       /\ SaveAround(K, [heap EXCEPT ![index[n]].nick = m], Content(h, rows))
       /\ Leave(h, rows, ClosedAll(K))
    /\ UNCHANGED <<up, index>>

\* cmd_nickchange: the profile is renamed, the user disconnected, everything
\* saved and read back (hub.updateusers), whether it was saved or not.
Rename(n, m) ==
    /\ up /\ index[n] # None /\ m # n /\ index[m] = None
    /\ LET K == Of(n, "normal")
           h == [heap EXCEPT ![index[n]].nick = m] IN
       /\ SaveAround(K, h, Content(LoggedOut(h, K), rows))
       /\ Load(IF disk'.file = Bad THEN {} ELSE disk'.file, LoggedOut(h, K), ClosedAll(K))
    /\ UNCHANGED up

\* hub_user_lastseen, cmd_restart and cmd_shutdown save the dates they set.
SaveDates ==
    /\ up /\ disk' \in Save(disk, Content(heap, rows))
    /\ UNCHANGED memory

----------------------------------------------------------------------------
NoMemory ==
    /\ heap' = [i \in Ids |-> None] /\ rows' = {} /\ index' = [n \in Nicks |-> None]
    /\ session' = [s \in Sessions |-> Closed]

Crash == up /\ up' = FALSE /\ NoMemory /\ UNCHANGED disk

\* Variant: the file is loaded before it is checked.
Unchecked(d) == d

\* checkusers: a file that cannot be read is written anew from its backup.
Checked(d) ==
    IF d.file = Bad /\ d.backup # Bad THEN [d EXCEPT !.file = d.backup] ELSE d

\* init: loadusers, then loadregusers, which saves what it made of them.
Start ==
    /\ ~up /\ up' = TRUE
    /\ LET c == IF Checked(disk).file = Bad THEN {} ELSE Checked(disk).file IN
       /\ disk' \in Save(Checked(disk), Offline(c))
       /\ Load(c, heap, session)

\* One copy is deleted or damaged, or cannot be decrypted any more.
Lose(copy) ==
    /\ disk.fault = "none"
    /\ disk' = [disk EXCEPT ![copy] = Bad, !.fault = "loss"]
    /\ UNCHANGED memory

----------------------------------------------------------------------------
\* user.tbl as it comes with the hub, with one account.
Init ==
    /\ up = FALSE
    /\ heap = [i \in Ids |-> None] /\ rows = {} /\ index = [n \in Nicks |-> None]
    /\ session = [s \in Sessions |-> Closed]
    /\ \E n \in Nicks, d \in Data :
        LET c == {[nick |-> n, data |-> d, is_online |-> 0]} IN
        disk = [file |-> c, backup |-> c, fault |-> "none"]

Next ==
    \/ \E s \in Sessions :
        \/ \E n \in Nicks : Challenge(s, n)
        \/ WrongPassword(s) \/ Login(s) \/ LoginStopped(s) \/ Logout(s) \/ Abandon(s)
        \/ \E d \in Data : PluginSetPassword(s, d)
    \/ \E n \in Nicks :
        \/ DelReg(n)
        \/ \E d \in Data : RegUser(n, d) \/ SetPass(n, d)
        \/ \E m \in Nicks : Rename(n, m)
    \/ SaveDates \/ Crash \/ Start
    \/ \E copy \in {"file", "backup"} : Lose(copy)

Spec == Init /\ [][Next]_vars

----------------------------------------------------------------------------
Account == [nick : Nicks, data : Data]
\* What of a copy must survive.
Accounts(c) == {[nick |-> p.nick, data |-> p.data] : p \in c}
\* What the two copies are there for.
Recovered ==
    IF disk.file # Bad THEN Accounts(disk.file)
    ELSE IF disk.backup # Bad THEN Accounts(disk.backup) ELSE {}

\* The rows and the index by nick are the same accounts, whatever was renamed,
\* removed and read back: reguser, delreguser and updateusers keep them in step.  A
\* row that is shown online is that of a session that is logged in with this very
\* profile: nobody is left online by a crash, a takeover or a rename.
TablesAgree ==
    /\ \A n \in Nicks : index[n] # None => index[n] \in rows /\ heap[index[n]].nick = n
    /\ \A i \in rows : index[heap[i].nick] = i
    /\ \A i \in rows : heap[i].is_online = 1 =>
            \E s \in Sessions : session[s].state = "normal" /\ session[s].profile = i

\* Once a save went through, both copies have every account, password and failed
\* attempt the hub knows of, and the loss of one copy leaves the other: what was
\* changed since (updateusers, insertreguser) is only who is online.
Saved ==
    up => /\ disk.fault = "none" =>
                Accounts(disk.file) = Accounts(Content(heap, rows)) /\ disk.backup = disk.file
          /\ disk.fault = "loss" =>
                Accounts(Content(heap, rows)) \in
                    {Accounts(c) : c \in {disk.file, disk.backup} \ {Bad}}

\* The database is an account store: no step changes or loses more than one
\* account, and a restart brings back what was saved, whichever copy was lost
\* (saveusers, checkusers, loadusers).
Store == INSTANCE AccountStore WITH
    accounts <- IF up THEN Accounts(Content(heap, rows)) ELSE Recovered,
    stored <- Recovered
ImplementsStore == Store!Spec
=============================================================================
