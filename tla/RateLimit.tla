----------------------------- MODULE RateLimit -----------------------------
(***************************************************************************)
(* The token buckets and the lock-outs of core/ratelimit.lua.              *)
(*                                                                         *)
(* A bucket is kept under an id (an address, or a user's CID) and a kind,  *)
(* is made when it is first needed, refilled when it is used, and dropped  *)
(* with the others of its id when all have been idle.  Tokens are counted  *)
(* in the time it takes to refill them: a bucket gains one unit per unit   *)
(* of time, a request costs Period of them.  Time is that of               *)
(* socket.gettime, which an adjustment of the system clock can set back;   *)
(* `uptime` is the time that really passed.                                *)
(***************************************************************************)
EXTENDS Integers

CONSTANTS
    Ips, Users,     \* the ids: client addresses, and CIDs
    UserKinds,      \* "msg", "pm", "inf", "ctm", "search"
    Period,         \* time per token of a kind (1 / rate)
    Burst,          \* tokens of a full bucket of a kind
    MaxConns,       \* ratelimit_perip_max_conns
    Lockout,        \* ratelimit_authfail_lockout
    Interval,       \* _cleanup_interval
    IdleMax,        \* _bucket_idle_max
    MaxTime,        \* bound on uptime and on the clock
    MaxBack,        \* bound on how far the clock is set back in all
    None

IpKinds == {"conn", "authfail"}
Ids == Ips \cup Users
Kinds == IpKinds \cup UserKinds
Full(k) == Burst[k] * Period[k]

\* A bucket that idled for IdleMax would be full.
ASSUME RateAssumption ==
    /\ Ips \cap Users = {} /\ IpKinds \cap UserKinds = {}
    /\ Period \in [Kinds -> Nat \ {0}] /\ Burst \in [Kinds -> Nat \ {0}]
    /\ \A k \in Kinds : Full(k) \in Nat /\ Full(k) <= IdleMax
    /\ MaxConns \in Nat /\ Lockout \in Nat \ {0} /\ Interval \in Nat
    /\ IdleMax \in Nat /\ MaxTime \in Nat /\ MaxBack \in Nat
    /\ None \notin Int

VARIABLES
    clock,      \* what socket.gettime returns
    uptime,     \* the time that passed
    bucket,     \* _buckets
    count,      \* _perip_count
    trying,     \* of these, the connections that have not failed a login
    block,      \* _ip_blocks: when the lock-out of an address ends
    cleaned,    \* _last_cleanup
    \* What the properties remember of one period of time, any:
    from,       \* the uptime at which it began
    spent,      \* by id and kind: the cost of what was admitted since
    failed,     \* by address: the cost of the failed logins since, up to the one
                \* that locked it out
    locked      \* by address: the uptime of the last lock-out

state == <<clock, uptime, bucket, count, trying, block, cleaned>>
vars == <<state, from, spent, failed, locked>>

Times == 0..MaxTime
Clocks == 0..(MaxTime + MaxBack)
Bucket(k) == [tokens : 0..Full(k), ts : Clocks]
NoBucket == [tokens |-> None, ts |-> None]

TypeOK ==
    /\ uptime \in Times /\ clock \in Clocks /\ cleaned \in Clocks
    /\ DOMAIN bucket = Ids /\ \A i \in Ids : DOMAIN bucket[i] = Kinds
    /\ \A i \in Ids, k \in Kinds : bucket[i][k] \in Bucket(k) \cup {NoBucket}
    /\ count \in [Ips -> Nat] /\ trying \in [Ips -> Nat]
    /\ block \in [Ips -> Nat \cup {None}]
    /\ from \in Times
    /\ spent \in [Ids -> [Kinds -> Nat]] /\ failed \in [Ips -> Nat]
    /\ locked \in [Ips -> Times \cup {None}]

\* The hub has run for a while; the clock may still be set back.
Init ==
    /\ clock = MaxBack /\ uptime = 0 /\ cleaned = MaxBack
    /\ bucket = [i \in Ids |-> [k \in Kinds |-> NoBucket]]
    /\ count = [i \in Ips |-> 0] /\ trying = count /\ block = [i \in Ips |-> None]
    /\ from \in Times
    /\ spent = [i \in Ids |-> [k \in Kinds |-> 0]] /\ failed = [i \in Ips |-> 0]
    /\ locked = [i \in Ips |-> None]

(***************************************************************************)
(* The buckets.                                                            *)
(***************************************************************************)
\* Variant: the bucket is filled beyond its size.
FilledOver(k, tokens) == tokens
Filled(k, tokens) == IF tokens > Full(k) THEN Full(k) ELSE tokens

\* _bucket, then the refill of _consume: a clock that was set back refills
\* nothing and leaves the time stamp alone.
Refilled(i, k) ==
    LET b == bucket[i][k] IN
    IF b = NoBucket THEN [tokens |-> Full(k), ts |-> clock]
    ELSE IF clock > b.ts THEN [tokens |-> Filled(k, b.tokens + (clock - b.ts)),
                               ts |-> clock]
    ELSE b

Enough(i, k) == Refilled(i, k).tokens >= Period[k]

\* What a request counts in the period that is remembered.
Cost(k) == IF uptime >= from THEN Period[k] ELSE 0

\* _consume
Consume(i, k) ==
    /\ bucket' = [bucket EXCEPT ![i][k] =
                    IF Enough(i, k)
                    THEN [Refilled(i, k) EXCEPT !.tokens = @ - Period[k]]
                    ELSE Refilled(i, k)]
    /\ spent' = [spent EXCEPT ![i][k] = IF Enough(i, k) THEN @ + Cost(k) ELSE @]
    /\ UNCHANGED from

(***************************************************************************)
(* The calls.                                                              *)
(***************************************************************************)
\* _ip_blocked forgets a lock-out that is over.
Blocked(i) == block[i] # None /\ clock < block[i]
Unblock(i) == block' = [block EXCEPT ![i] = IF Blocked(i) THEN @ ELSE None]

AcceptIp(i) ==
    /\ Unblock(i)
    /\ IF Blocked(i) \/ count[i] >= MaxConns
       THEN UNCHANGED <<bucket, from, spent, count, trying>>
       ELSE LET admitted == IF Enough(i, "conn") THEN 1 ELSE 0 IN
            /\ Consume(i, "conn")
            /\ count' = [count EXCEPT ![i] = @ + admitted]
            /\ trying' = [trying EXCEPT ![i] = @ + admitted]
    /\ UNCHANGED <<clock, uptime, cleaned, failed, locked>>

\* A connection of the address is closed, whether or not it failed a login.
ReleaseIp(i) ==
    /\ count[i] > 0
    /\ count' = [count EXCEPT ![i] = @ - 1]
    /\ trying' \in {t \in {trying, [trying EXCEPT ![i] = @ - 1]} :
                        t[i] \in 0..(count[i] - 1)}
    /\ UNCHANGED <<clock, uptime, bucket, block, cleaned, from, spent, failed,
                   locked>>

Locks(i) == ~Enough(i, "authfail")
LockedSince(i) == locked[i] # None /\ locked[i] >= from

\* A wrong password: the hub closes the connection, which may have been accepted
\* before the address was locked out.
RecordAuthFail(i) ==
    /\ trying[i] > 0
    /\ Consume(i, "authfail")
    /\ block' = [block EXCEPT ![i] = IF Locks(i) THEN clock + Lockout ELSE @]
    /\ trying' = [trying EXCEPT ![i] = @ - 1]
    /\ failed' = [failed EXCEPT ![i] = IF LockedSince(i) THEN @
                                       ELSE @ + Cost("authfail")]
    /\ locked' = [locked EXCEPT ![i] = IF Locks(i) THEN uptime ELSE @]
    /\ UNCHANGED <<clock, uptime, count, cleaned>>

\* user_msg, user_pm, user_inf, user_ctm, user_search
UserRequest(u, k) ==
    /\ Consume(u, k)
    /\ UNCHANGED <<clock, uptime, count, trying, block, cleaned, failed, locked>>

\* tick: the buckets of an id go when the newest of them is stale, the lock-outs
\* when they are over.
\* Variants: the oldest counts; a lock-out goes before it is over.
StaleByAny(i) ==
    \E k \in Kinds : /\ bucket[i][k] # NoBucket
                     /\ bucket[i][k].ts < clock - IdleMax
Stale(i) ==
    \A k \in Kinds : bucket[i][k] # NoBucket => bucket[i][k].ts < clock - IdleMax

OverSoon(i) == block[i] # None /\ clock >= block[i] - 1
Over(i) == block[i] # None /\ clock >= block[i]

Tick ==
    /\ clock - cleaned >= Interval
    /\ cleaned' = clock
    /\ bucket' = [i \in Ids |-> IF Stale(i) THEN [k \in Kinds |-> NoBucket]
                                ELSE bucket[i]]
    /\ block' = [i \in Ips |-> IF Over(i) THEN None ELSE block[i]]
    /\ UNCHANGED <<clock, uptime, count, trying, from, spent, failed, locked>>

(***************************************************************************)
(* Time.                                                                   *)
(***************************************************************************)
Advance ==
    /\ uptime < MaxTime /\ clock < MaxTime + MaxBack
    /\ uptime' = uptime + 1 /\ clock' = clock + 1
    /\ UNCHANGED <<bucket, count, trying, block, cleaned, from, spent, failed,
                   locked>>

SetBack ==
    /\ clock > uptime
    /\ clock' = clock - 1
    /\ UNCHANGED <<uptime, bucket, count, trying, block, cleaned, from, spent,
                   failed, locked>>

Next ==
    \/ \E i \in Ips : AcceptIp(i) \/ ReleaseIp(i) \/ RecordAuthFail(i)
    \/ \E u \in Users, k \in UserKinds : UserRequest(u, k)
    \/ Tick \/ Advance \/ SetBack

Spec == Init /\ [][Next]_vars

(***************************************************************************)
(* Properties.                                                             *)
(***************************************************************************)
\* In no period of time is more admitted of a kind than a full bucket and what
\* is refilled meanwhile, although a bucket that was idle is thrown away and
\* the clock may be set back.
WithinRate ==
    uptime >= from =>
        \A i \in Ids, k \in Kinds : spent[i][k] <= Full(k) + (uptime - from)

\* An address whose logins failed more often than that in some period was
\* locked out in it.
FailuresLock ==
    uptime >= from =>
        \A i \in Ips : failed[i] > Full("authfail") + (uptime - from) =>
            LockedSince(i)

\* Nobody gets in while the lock-out of its address runs, measured in the time
\* that passed: neither the clean-up nor the clock ends it early.
LockHolds ==
    [][\A i \in Ips : count'[i] > count[i] =>
            locked[i] = None \/ uptime - locked[i] >= Lockout]_vars
=============================================================================
