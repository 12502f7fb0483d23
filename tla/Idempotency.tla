---------------------------- MODULE Idempotency ----------------------------
(***************************************************************************)
(* The idempotency keys of the HTTP API (core/http_router.lua): what a     *)
(* handler answered to a write request that carries a key is kept, and a   *)
(* retry is sent it again instead of running the handler.                  *)
(*                                                                         *)
(* A key stands for token, method, path template and X-Idempotency-Key.    *)
(* The requests that dispatch turns down before it looks the key up        *)
(* (authentication, scope, rate, X-Confirm) change nothing here.  An       *)
(* answer is the number of the run of the handler that gave it.  The age   *)
(* of an answer is taken from socket.gettime, which can be set back;       *)
(* `uptime` is the time that really passed.                                *)
(***************************************************************************)
EXTENDS Integers, Sequences, FiniteSets

CONSTANTS
    Keys,
    ReloadKeys,     \* those of POST /v1/reload
    Ttl,            \* _IDEM_TTL
    Caps,           \* values http_api_idempotency_max_entries is given
    MaxRuns,        \* by key: bound on the runs of the handler
    MaxTime,        \* bound on uptime
    MaxBack,        \* bound on how far the clock is set back in all
    None

\* cfg_defaults.lua accepts no cap below 1.
ASSUME IdempotencyAssumption ==
    /\ IsFiniteSet(Keys) /\ ReloadKeys \subseteq Keys
    /\ Ttl \in Nat \ {0} /\ Caps \subseteq Nat \ {0}
    /\ MaxRuns \in [Keys -> Nat] /\ MaxTime \in Nat /\ MaxBack \in Nat
    /\ None \notin [run : Int, ts : Int, ord : Int] \cup [run : Int, at : Int]

VARIABLES
    map,        \* _idem_map: by key, the answer, when it was stored, its ordinal
    order,      \* _idem_order: slots of key and ordinal, oldest first
    ordNext,    \* _idem_ord_next
    size,       \* _idem_size
    cap,        \* http_api_idempotency_max_entries
    clock,      \* what socket.gettime returns
    uptime,     \* the time that passed
    \* What the properties remember:
    runs,       \* by key: how often the handler was run
    answered,   \* by key: its last run that gave an answer, and when
    newer,      \* by key: the keys answered since
    owed        \* the keys whose answer the store must still have: fewer than
                \* the cap were answered since, and nothing was reloaded

store == <<map, order, ordNext, size>>
history == <<runs, answered, newer, owed>>
vars == <<store, cap, clock, uptime, history>>

Entry == [run : Nat, ts : Nat, ord : Nat \ {0}]
Slot == [key : Keys, ord : Nat]
Live == {k \in Keys : map[k] # None}
Back == uptime + MaxBack - clock    \* how far the clock was set back so far

TypeOK ==
    /\ map \in [Keys -> Entry \cup {None}] /\ order \in Seq(Slot)
    /\ ordNext \in Nat \ {0} /\ size \in 0..Cardinality(Keys) /\ cap \in Caps
    /\ uptime \in 0..MaxTime /\ clock \in Nat /\ Back \in 0..MaxBack
    /\ runs \in [Keys -> Nat]
    /\ answered \in [Keys -> [run : Nat, at : 0..MaxTime] \cup {None}]
    /\ newer \in [Keys -> SUBSET Keys] /\ owed \in SUBSET Keys

\* idem_clear
EmptyMap == [k \in Keys |-> None]

Init ==
    /\ map = EmptyMap /\ order = <<>> /\ ordNext = 1 /\ size = 0
    /\ cap \in Caps /\ clock = MaxBack /\ uptime = 0
    /\ runs = [k \in Keys |-> 0] /\ answered = EmptyMap
    /\ newer = [k \in Keys |-> {}] /\ owed = {}

----------------------------------------------------------------------------
\* Variant: an answer is replayed in the second it becomes too old.
FreshToo(k) == map[k] # None /\ clock - map[k].ts <= Ttl

\* idem_lookup finds an answer that is not too old.
Fresh(k) == map[k] # None /\ clock - map[k].ts < Ttl

\* What it leaves of the map and of the count when it finds none: an answer
\* that is too old is dropped, its slot in the order is not.
Missed(k) == [map EXCEPT ![k] = None]
MissedSize(k) == IF map[k] = None THEN size ELSE size - 1

\* Variant: the ordinal of a slot is not compared.
GoneByKey(m, o, n) == {k \in Keys : m[k] # None /\ \E i \in 1..n : o[i].key = k}

\* The keys whose entry goes with the first n slots of the order: a slot counts
\* if the entry still has its ordinal.
Gone(m, o, n) ==
    {k \in Keys : m[k] # None /\ \E i \in 1..n : o[i] = [key |-> k, ord |-> m[k].ord]}

\* Variant: the loop stops an entry too late.
DropsEarly(m, s, o, n) ==
    /\ \A i \in 0..(n - 1) : s - Cardinality(Gone(m, o, i)) >= cap - 1
    /\ n < Len(o) => s - Cardinality(Gone(m, o, n)) < cap - 1

\* The loop of idem_store drops n slots: while the store is full, up to the end.
Drops(m, s, o, n) ==
    /\ \A i \in 0..(n - 1) : s - Cardinality(Gone(m, o, i)) >= cap
    /\ n < Len(o) => s - Cardinality(Gone(m, o, n)) < cap

\* idem_store of the answer for a key that is not in the map: dispatch has just
\* looked it up, so the branch that replaces an entry is never taken.
Store(m, s, o, next, k) ==
    \E n \in 0..Len(o) :
        /\ Drops(m, s, o, n)
        /\ map' = [j \in Keys |->
                     IF j = k THEN [run |-> runs'[k], ts |-> clock, ord |-> next]
                     ELSE IF j \in Gone(m, o, n) THEN None ELSE m[j]]
        /\ size' = s - Cardinality(Gone(m, o, n)) + 1
        /\ order' = Append(SubSeq(o, n + 1, Len(o)), [key |-> k, ord |-> next])
        /\ ordNext' = next + 1

Run(k) == runs[k] < MaxRuns[k] /\ runs' = [runs EXCEPT ![k] = @ + 1]

\* For the properties: k is answered; kept are the keys that were owed theirs.
Remember(k, kept) ==
    /\ answered' = [answered EXCEPT ![k] = [run |-> runs'[k], at |-> uptime]]
    /\ newer' = [j \in Keys |-> IF j = k THEN {} ELSE newer[j] \cup {k}]
    /\ owed' = {j \in kept \cup {k} : Cardinality(newer'[j]) < cap}

\* The handler returns an answer, a refusal of its own included.
Answer(k) ==
    /\ k \notin ReloadKeys /\ ~Fresh(k) /\ Run(k)
    /\ Store(Missed(k), MissedSize(k), order, ordNext, k) /\ Remember(k, owed)
    /\ UNCHANGED <<cap, clock, uptime>>

\* The handler of POST /v1/reload: the store is cleared while it runs, its own
\* answer is stored afterwards.
AnswerReload(k) ==
    /\ k \in ReloadKeys /\ ~Fresh(k) /\ Run(k)
    /\ Store(EmptyMap, 0, <<>>, 1, k) /\ Remember(k, {})
    /\ UNCHANGED <<cap, clock, uptime>>

Miss(k) ==
    /\ ~Fresh(k) /\ map' = Missed(k) /\ size' = MissedSize(k)
    /\ UNCHANGED <<order, ordNext, cap, clock, uptime, answered, newer, owed>>

\* The body is refused after the look-up (415, 400): no handler is run.
Refuse(k) == Miss(k) /\ UNCHANGED runs

\* The handler raises an error: it has run, and the answer (500) is not stored.
Raise(k) == Miss(k) /\ Run(k)

\* The reload command, or a reload from elsewhere.
Reload ==
    /\ map' = EmptyMap /\ order' = <<>> /\ ordNext' = 1 /\ size' = 0 /\ owed' = {}
    /\ UNCHANGED <<cap, clock, uptime, runs, answered, newer>>

\* The setting is changed; the store notices with its next answer.
SetCap == cap' \in Caps /\ UNCHANGED <<store, clock, uptime, history>>

Advance ==
    /\ uptime < MaxTime /\ uptime' = uptime + 1 /\ clock' = clock + 1
    /\ UNCHANGED <<store, cap, history>>

SetBack ==
    /\ Back < MaxBack /\ clock' = clock - 1
    /\ UNCHANGED <<store, cap, uptime, history>>

Next ==
    \/ \E k \in Keys : Answer(k) \/ AnswerReload(k) \/ Refuse(k) \/ Raise(k)
    \/ Reload \/ SetCap \/ Advance \/ SetBack

Spec == Init /\ [][Next]_vars

----------------------------------------------------------------------------
\* The count is that of the entries, and every entry has one slot in the order,
\* behind those of all older ones: idem_store, which trusts both, finds what to
\* drop and never runs out of slots.
Accounted ==
    /\ size = Cardinality(Live)
    /\ \A k \in Live : \E i \in 1..Len(order) :
        /\ order[i] = [key |-> k, ord |-> map[k].ord]
        /\ \A j \in 1..Len(order) : order[j] = order[i] => j = i
    /\ \A i, j \in 1..Len(order) : i < j => order[i].ord < order[j].ord

\* What a look-up would send is the last answer that key was given, and it is
\* younger than the TTL and what the clock was set back: whatever was dropped,
\* stored again or cleared in between (idem_lookup).
ReplaysLatest ==
    \A k \in Keys : Fresh(k) =>
        /\ answered[k] # None /\ map[k].run = answered[k].run
        /\ uptime - answered[k].at < Ttl + Back

Owed(k) == k \in owed /\ uptime - answered[k].at < Ttl

\* A handler is not run again for a key it answered less than the TTL ago, as
\* long as fewer than http_api_idempotency_max_entries other keys were answered
\* since and the scripts were not reloaded: no retry does its work twice.
AtMostOnce == [][\A k \in Keys : runs'[k] # runs[k] => ~Owed(k)]_vars

\* When an answer is stored and nothing was cleared, the store stays within the
\* cap in force, drops no more than that takes, and drops the oldest answers (the
\* loop of idem_store).
EvictsOldest ==
    [][ordNext' > ordNext =>
        LET dropped == {k \in Live : map'[k] = None}
            kept == {k \in Live : map'[k] = map[k]} IN
        /\ size' <= cap /\ (dropped # {} => size' = cap)
        /\ \A j \in dropped, k \in kept : map[j].ord < map[k].ord]_vars
=============================================================================
