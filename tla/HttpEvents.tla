----------------------------- MODULE HttpEvents -----------------------------
(***************************************************************************)
(* The event stream of the HTTP API: the ring of core/http_events.lua, the *)
(* long-poll waiters, and the handler of GET /v1/events in                 *)
(* core/http_router.lua, with clients that poll, hold a request open, lose *)
(* interest and come back.                                                 *)
(*                                                                         *)
(* Events have consecutive ids and leave the ring at its front only, so    *)
(* the ring is the part of `history` behind the first `evicted` events.    *)
(* A request has a connection of its own ("Connection: close").            *)
(***************************************************************************)
EXTENDS Integers, Sequences

CONSTANTS
    Clients,        \* API clients, each polling with one token
    Admins,         \* those with an admin token
    Requests,       \* requests the hub has not forgotten
    Types,          \* event types
    Private,        \* "pm" and "audit": for admins only
    Filter,         \* types= of each client, [Clients -> SUBSET Types]
    Impatient,      \* clients that combine since=latest with wait
    Caps,           \* values of cfg http_events_buffer_size
    MaxEvents,      \* bound: no more events are emitted
    None

ASSUME EventsAssumption ==
    /\ Admins \subseteq Clients /\ Impatient \subseteq Clients
    /\ Private \subseteq Types /\ Filter \in [Clients -> SUBSET Types]
    /\ Caps \subseteq Nat \ {0} /\ Caps # {}
    /\ MaxEvents \in Nat
    /\ None \notin Clients

VARIABLES
    history, cursor, got, told,     \* as in EventFeed
    evicted,    \* how many events have left the ring
    cap,        \* the configured size of the ring
    request     \* the requests: waiters, and responses on their way

vars == <<history, cursor, got, told, evicted, cap, request>>

Ids == 1..MaxEvents

\* `open`: the client still holds the connection.
Waiting == [client : Clients, open : BOOLEAN, latest : BOOLEAN,
            since : 0..MaxEvents, stage : {"waiting"}]
Answered == [client : Clients, open : BOOLEAN, latest : BOOLEAN,
             since : 0..MaxEvents, stage : {"answered"},
             rows : SUBSET Ids, cursor : 0..MaxEvents, lost : BOOLEAN]

TypeOK ==
    /\ history \in Seq(Types) /\ Len(history) <= MaxEvents
    /\ cursor \in [Clients -> 0..MaxEvents]
    /\ got \in [Clients -> SUBSET Ids]
    /\ told \in [Clients -> 0..MaxEvents]
    /\ evicted \in 0..MaxEvents /\ cap \in Caps
    /\ request \in [Requests -> Waiting \cup Answered \cup {None}]

Init ==
    /\ history = <<>>
    /\ cursor = [c \in Clients |-> 0]
    /\ got = [c \in Clients |-> {}]
    /\ told = [c \in Clients |-> 0]
    /\ evicted = 0 /\ cap \in Caps
    /\ request = [r \in Requests |-> None]

(***************************************************************************)
(* Reading the ring: of a history `h` of which `e` events were evicted.    *)
(***************************************************************************)
Ring(h, e) == (e + 1)..Len(h)

\* filter_for_scope
Shown(c) == IF c \in Admins THEN Types ELSE Types \ Private
Wanted == [c \in Clients |-> Filter[c] \cap Shown(c)]

\* Variant: the first event after the cursor is left out.
RowsLate(c, since, h, e) ==
    {id \in Ring(h, e) : id > since + 1 /\ h[id] \in Wanted[c]}

\* _compute_rows, then the filter of the handler.
Rows(c, since, h, e) == {id \in Ring(h, e) : id > since /\ h[id] \in Wanted[c]}

\* Variant: one event may be gone before the client is told.
LostLate(since, h, e) == Ring(h, e) # {} /\ since < e - 1
Lost(since, h, e) == Ring(h, e) # {} /\ since < e

CursorOf(h) == Len(h)

Reply(q, rows, upto, lost) ==
    [client |-> q.client, open |-> TRUE, latest |-> q.latest, since |-> q.since,
     stage |-> "answered", rows |-> rows, cursor |-> upto, lost |-> lost]

Answer(q, h, e) ==
    Reply(q, Rows(q.client, q.since, h, e), CursorOf(h), Lost(q.since, h, e))

\* _resolve_waiter: the response to a client that has gone goes nowhere.
Resolve(q, h, e) == IF q.open THEN Answer(q, h, e) ELSE None

(***************************************************************************)
(* The hub.                                                                *)
(***************************************************************************)
Waits(r) == request[r] # None /\ request[r].stage = "waiting"

\* emit: append, evict down to the size configured now, then resolve the
\* waiters whose filter matches; their scope is not looked at.
Evict(h) == IF Len(h) - evicted > cap THEN Len(h) - cap ELSE evicted

\* Variant: the waiters are left to the timer.
WokenNone(r, t) == FALSE
Woken(r, t) == Waits(r) /\ t \in Filter[request[r].client]

Emit(t) ==
    LET h == Append(history, t) IN
    /\ Len(history) < MaxEvents
    /\ history' = h
    /\ evicted' = Evict(h)
    /\ request' = [r \in Requests |-> IF Woken(r, t)
                                      THEN Resolve(request[r], h, Evict(h))
                                      ELSE request[r]]
    /\ UNCHANGED <<cursor, got, told, cap>>

\* tick: the deadline of some waiters has elapsed.
\* (Variant: a waiter whose client has gone is kept.)
ExpiredOpen(r, S) == r \in S /\ request[r].open
Expired(r, S) == r \in S

Tick(S) ==
    /\ \A r \in S : Waits(r)
    /\ request' = [r \in Requests |-> IF Expired(r, S)
                                      THEN Resolve(request[r], history, evicted)
                                      ELSE request[r]]
    /\ UNCHANGED <<history, cursor, got, told, evicted, cap>>

\* PUT /v1/config: the ring is cut at the next event.
SetCap(n) ==
    /\ cap' = n
    /\ UNCHANGED <<history, cursor, got, told, evicted, request>>

(***************************************************************************)
(* GET /v1/events, by a client that has no other request open.             *)
(***************************************************************************)
Quiet(c) ==
    \A r \in Requests : request[r] # None /\ request[r].client = c => ~request[r].open

Asked(c, latest, since) ==
    [client |-> c, open |-> TRUE, latest |-> latest, since |-> since,
     stage |-> "waiting"]

Get(c, r, q) ==
    /\ Quiet(c) /\ request[r] = None
    /\ request' = [request EXCEPT ![r] = q]
    /\ UNCHANGED <<history, cursor, got, told, evicted, cap>>

\* ?since=<cursor>, with or without wait: answered at once if nothing is waited
\* for, an event is there, or the cursor is stale.
Poll(c, r, wait) ==
    LET q == Asked(c, FALSE, cursor[c])
        a == Answer(q, history, evicted)
    IN  Get(c, r, IF wait /\ a.rows = {} /\ ~a.lost THEN q ELSE a)

\* ?since=latest; with wait the waiter is registered with since = 0.
Subscribe(c, r, wait) ==
    /\ wait => c \in Impatient
    /\ Get(c, r, LET q == Asked(c, TRUE, 0) IN
                 IF wait THEN q ELSE Reply(q, {}, CursorOf(history), FALSE))

(***************************************************************************)
(* The other end.                                                          *)
(***************************************************************************)
\* A client that is told of a gap, or that did not ask for what was before,
\* catches up elsewhere.
Receive(r) ==
    /\ request[r] # None /\ request[r].stage = "answered"
    /\ LET q == request[r] IN
       /\ cursor' = [cursor EXCEPT ![q.client] = q.cursor]
       /\ got' = [got EXCEPT ![q.client] = @ \cup q.rows]
       /\ told' = [told EXCEPT ![q.client] =
                        IF q.lost \/ q.latest THEN q.cursor ELSE @]
    /\ request' = [request EXCEPT ![r] = None]
    /\ UNCHANGED <<history, evicted, cap>>

\* The connection breaks, or the client gives up: a response on its way is
\* lost, a waiter stays with the hub.
Leave(r) ==
    /\ request[r] # None /\ request[r].open
    /\ request' = [request EXCEPT ![r] =
                        IF Waits(r) THEN [@ EXCEPT !.open = FALSE] ELSE None]
    /\ UNCHANGED <<history, cursor, got, told, evicted, cap>>

Next ==
    \/ \E t \in Types : Emit(t)
    \/ \E S \in (SUBSET Requests) \ {{}} : Tick(S)
    \/ \E n \in Caps : SetCap(n)
    \/ \E c \in Clients, r \in Requests, wait \in BOOLEAN :
          Poll(c, r, wait) \/ Subscribe(c, r, wait)
    \/ \E r \in Requests : Receive(r) \/ Leave(r)

Spec == Init /\ [][Next]_vars

\* The timer of the event loop runs about once a second: every deadline is
\* seen.  No client has to do anything, and nothing has to happen.
FairSpec ==
    /\ Spec
    /\ \A r \in Requests :
          WF_vars(\E S \in SUBSET Requests : r \in S /\ Tick(S))

(***************************************************************************)
(* Properties.                                                             *)
(***************************************************************************)
\* A client that resumes with the cursor it was given has got every event it
\* asked for and may see, or it was told of the gap: whatever was evicted, lost
\* on the way or asked again after a connection broke.
NothingMissed ==
    \A c \in Clients : \A id \in 1..cursor[c] :
        history[id] \in Wanted[c] => id \in got[c] \/ id <= told[c]

\* A request is held open only while there is nothing for it, so that the
\* latency is that of the event and not that of the timer.
NoSleeper ==
    \A r \in Requests : Waits(r) /\ ~request[r].latest =>
        Rows(request[r].client, request[r].since, history, evicted) = {}

\* Every request is answered or dropped, also when its client has gone.
WaitersResolved == \A r \in Requests : Waits(r) ~> ~Waits(r)

\* The clients see the feed of EventFeed: nothing twice, nothing they may not
\* see, no silent gap.
Feed == INSTANCE EventFeed
ImplementsFeed == Feed!Spec
=============================================================================
