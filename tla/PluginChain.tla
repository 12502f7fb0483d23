---------------------------- MODULE PluginChain ----------------------------
(***************************************************************************)
(* The plugin manager (core/scripts.lua): the listeners of the plugins, the*)
(* walk of an event over them, and the reload (hub.restartscripts), which  *)
(* the plugin cmd_reload calls from inside a walk.                         *)
(*                                                                         *)
(* A listener may fire events itself, so walks nest: `stack` holds them,   *)
(* the innermost last.  All else runs to its end before another event.     *)
(***************************************************************************)
EXTENDS Integers, Sequences, FiniteSets

CONSTANTS
    Order,          \* cfg "scripts": the plugins, in order
    Listens,        \* [plugin -> [event -> the listeners it registers]]
    Events,         \* what the hub fires
    Command,        \* the one of them in which a reload may be asked for
    Inner,          \* what listeners fire (onAudit, onLogout)
    MaxDepth,       \* bound: nested walks
    MaxReloads,     \* bound
    Nothing

Scripts == {Order[i] : i \in DOMAIN Order}
AllEvents == Events \cup Inner \cup {"onStart", "onExit", "onError"}

ASSUME ChainAssumption ==
    /\ Order \in Seq(Scripts) /\ Cardinality(Scripts) = Len(Order)
    /\ \A p \in Scripts, ev \in AllEvents :
        IsFiniteSet(Listens[p][ev]) /\ Nothing \notin Listens[p][ev]
    /\ Command \in Events \ {"onStart"} /\ MaxDepth \in Nat \ {0} /\ MaxReloads \in Nat

VARIABLES
    enabled,        \* the plugins cfg "scripts" has switched on
    generation,     \* how often the plugins were started
    slots,          \* _listeners (Len(slots) is _len) and _scripts
    meta,           \* _plugin_meta: the slot of a loaded plugin, or 0
    bots, routes,   \* <<plugin, generation>>: bots and HTTP routes there are
    stack,          \* walks of firelistener and reloads in progress
    fault           \* result an event had when a walk left _listeners, or Nothing

chainVars == <<enabled, generation, slots, meta, bots, routes, stack, fault>>

Results == {"nil", "PROCESSED", "other"}

ChainTypeOK ==
    /\ enabled \subseteq Scripts /\ generation \in 1..MaxReloads + 1
    /\ \A k \in DOMAIN slots :
        slots[k] \in [plugin : Scripts, outcome : {"loaded", "raised", "syntax"}]
    /\ meta \in [Scripts -> 0..Len(Order)]
    /\ bots \cup routes \subseteq Scripts \X (1..generation)
    /\ fault \in Results \cup {Nothing}

----------------------------------------------------------------------------
\* Walks.

\* The listeners of slot k of q for this event: all it registered before it failed.
ListenersOf(q, k, ev) ==
    IF k \notin DOMAIN q \/ q[k].outcome = "syntax" THEN {} ELSE Listens[q[k].plugin][ev]

Listeners(k, ev) == ListenersOf(slots, k, ev)

\* firelistener: the number of slots is read once.
WalkOver(q, ev) ==
    [kind |-> "walk", event |-> ev, k |-> 1, len |-> Len(q), due |-> ListenersOf(q, 1, ev),
     ret |-> "nil", running |-> Nothing, reloaded |-> FALSE,
     gen |-> generation, asked |-> <<>>]

Walk(ev) == WalkOver(slots, ev)

Top == stack[Len(stack)]
Below == SubSeq(stack, 1, Len(stack) - 1)
Walking == stack # <<>> /\ Top.kind = "walk" /\ fault = Nothing
Running == Walking /\ Top.running # Nothing
Reloading == stack # <<>> /\ Top.kind = "reload" /\ fault = Nothing

\* The hub fires an event.
Fire(ev) ==
    /\ stack = <<>> /\ fault = Nothing
    /\ stack' = <<Walk(ev)>>
    /\ UNCHANGED <<enabled, generation, slots, meta, bots, routes, fault>>

\* The next listener of the script: pairs(), in any order.
Call(id) ==
    /\ Walking /\ Top.running = Nothing /\ id \in Top.due
    /\ stack' = Append(Below, [Top EXCEPT !.running = id, !.due = @ \ {id}])
    /\ UNCHANGED <<enabled, generation, slots, meta, bots, routes, fault>>

\* Inside a listener another event is fired.
FireInside(ev) ==
    /\ Running /\ ~Top.reloaded /\ Len(stack) < MaxDepth
    /\ stack' = Append(stack, Walk(ev))
    /\ UNCHANGED <<enabled, generation, slots, meta, bots, routes, fault>>

\* Variant: the last result counts.
LastTruthy(ret, r) == IF r = "nil" THEN ret ELSE r

\* ret = ret or sret.
FirstTruthy(ret, r) == IF ret = "nil" THEN r ELSE ret

\* What the frame of a walk is after its listener gave r (an error gives nil).
Answered(walk, r) ==
    [walk EXCEPT !.ret = FirstTruthy(@, r), !.running = Nothing, !.reloaded = FALSE,
                 !.asked = Append(@, [k |-> walk.k, r |-> r])]

\* A listener returns; cmd_reload returns PROCESSED (nothing it does after the reload
\* can fail: users it kills are destroyed at the end of the cycle).  Plugins register their HTTP
\* routes when they are started.
Return(r) ==
    /\ Running /\ (Top.reloaded => r = "PROCESSED")
    /\ stack' = Append(Below, Answered(Top, r))
    /\ routes' = IF Top.event = "onStart" /\ slots[Top.k].outcome = "loaded"
                 THEN routes \cup {<<slots[Top.k].plugin, Top.gen>>} ELSE routes
    /\ UNCHANGED <<enabled, generation, slots, meta, bots, fault>>

\* ... or raises: out_error fires onError, but not for an error in onError.
Raise ==
    /\ Running /\ ~Top.reloaded
    /\ stack' = Append(Below, Answered(Top, "nil")) \o
                IF Top.event = "onError" THEN <<>> ELSE <<Walk("onError")>>
    /\ UNCHANGED <<enabled, generation, slots, meta, bots, routes, fault>>

\* Variant: the result is looked at when the walk is over.
EndsLate(walk) == walk.k >= walk.len

\* The walk ends: PROCESSED, or no slot is left.
Ends(walk) == walk.ret = "PROCESSED" \/ walk.k >= walk.len

\* All listeners of this script had the event.
Advance ==
    /\ Walking /\ Top.running = Nothing /\ Top.due = {}
    /\ stack' = IF Ends(Top) THEN Below
                ELSE Append(Below, [Top EXCEPT !.k = @ + 1,
                                               !.due = Listeners(Top.k + 1, Top.event)])
    /\ fault' = IF ~Ends(Top) /\ Top.k + 1 \notin DOMAIN slots THEN Top.ret ELSE Nothing
    /\ UNCHANGED <<enabled, generation, slots, meta, bots, routes>>

----------------------------------------------------------------------------
\* The reload.

ReloadBegins == [kind |-> "reload", at |-> 0]

\* restartscripts, from cmd_reload (in a walk) or its HTTP handler (in none): it
\* begins with onExit.
RestartScripts ==
    /\ generation <= MaxReloads
    /\ \/ stack = <<>> /\ fault = Nothing
          /\ stack' = <<ReloadBegins, Walk("onExit")>>
       \/ Running /\ Len(stack) = 1 /\ Top.event = Command /\ ~Top.reloaded
          /\ stack' = <<[Top EXCEPT !.reloaded = TRUE], ReloadBegins, Walk("onExit")>>
    /\ UNCHANGED <<enabled, generation, slots, meta, bots, routes, fault>>

\* The bots are killed and the HTTP routes unregistered.
ClearOwned == bots' = {} /\ routes' = {}

\* killscripts, then the new cfg.tbl says which plugins to start.
Clear ==
    /\ Reloading /\ Top.at = 0
    /\ slots' = <<>> /\ meta' = [p \in Scripts |-> 0]
    /\ ClearOwned
    /\ generation' = generation + 1
    /\ enabled' \in SUBSET Scripts
    /\ stack' = Append(Below, [Top EXCEPT !.at = 1])
    /\ UNCHANGED fault

Next1(at) == [Top EXCEPT !.at = at + 1]

\* A plugin that is switched off.
SkipDisabled ==
    /\ Reloading /\ Top.at \in DOMAIN Order /\ Order[Top.at] \notin enabled
    /\ stack' = Append(Below, Next1(Top.at))
    /\ UNCHANGED <<enabled, generation, slots, meta, bots, routes, fault>>

\* Errors while a plugin is loaded go to the plugins that were loaded before it,
\* and to what it registered itself.
ErrorWalk == WalkOver(slots', "onError")

\* The file is missing or no valid UTF-8: no slot.
LoadMissing ==
    /\ Reloading /\ Top.at \in DOMAIN Order /\ Order[Top.at] \in enabled
    /\ UNCHANGED slots
    /\ stack' = Append(Below, Next1(Top.at)) \o <<ErrorWalk>>
    /\ UNCHANGED <<enabled, generation, meta, bots, routes, fault>>

\* Variant: the slot of a plugin is counted among those that are loaded.
KeyOfLoaded == Cardinality({k \in DOMAIN slots : slots[k].outcome = "loaded"}) + 1

\* key = _len + 1.
Key == Len(slots) + 1

\* A plugin is run: its slot exists before; what it registered before an error
\* (listeners, a bot) stays.
Load(outcome) ==
    LET p == Order[Top.at] IN
    /\ Reloading /\ Top.at \in DOMAIN Order /\ p \in enabled
    /\ slots' = Append(slots, [plugin |-> p, outcome |-> outcome])
    /\ meta' = IF outcome = "loaded" THEN [meta EXCEPT ![p] = Key] ELSE meta
    /\ bots' = IF outcome = "syntax" THEN bots ELSE bots \cup {<<p, generation>>}
    /\ stack' = Append(Below, Next1(Top.at)) \o
                IF outcome = "loaded" THEN <<>> ELSE <<ErrorWalk>>
    /\ UNCHANGED <<enabled, generation, routes, fault>>

\* All are loaded: onStart.
FireOnStart ==
    /\ Reloading /\ Top.at > Len(Order)
    /\ stack' = Append(Below, Walk("onStart"))
    /\ UNCHANGED <<enabled, generation, slots, meta, bots, routes, fault>>

----------------------------------------------------------------------------
\* The hub starts: nothing is loaded yet.
ChainInit ==
    /\ enabled \in SUBSET Scripts /\ generation = 1
    /\ slots = <<>> /\ meta = [p \in Scripts |-> 0]
    /\ bots = {} /\ routes = {}
    /\ stack = <<[kind |-> "reload", at |-> 1]>> /\ fault = Nothing

ChainNext ==
    \/ \E ev \in Events : Fire(ev)
    \/ \E id \in UNION {Listens[p][ev] : p \in Scripts, ev \in AllEvents} : Call(id)
    \/ \E ev \in Inner : FireInside(ev)
    \/ \E r \in Results : Return(r)
    \/ Raise \/ Advance
    \/ RestartScripts \/ Clear \/ SkipDisabled \/ LoadMissing
    \/ \E outcome \in {"loaded", "raised", "syntax"} : Load(outcome)
    \/ FireOnStart

ChainSpec == ChainInit /\ [][ChainNext]_chainVars

----------------------------------------------------------------------------
Walks == {i \in DOMAIN stack : stack[i].kind = "walk"}

\* What decides an event is its first result that is not nil: if that is PROCESSED
\* no later plugin sees the event (docs/PLUGIN_API.md, 4.3), whatever failed or
\* was fired in between; otherwise each listener of each slot the walk has passed
\* had it, once.
ChainDecides ==
    \A i \in Walks : LET walk == stack[i]
                         truthy == {n \in DOMAIN walk.asked : walk.asked[n].r # "nil"}
                         decides(n) == n \in truthy /\ \A l \in truthy : n <= l IN
        /\ \A n \in truthy :
            decides(n) /\ walk.asked[n].r = "PROCESSED" => walk.k = walk.asked[n].k
        /\ walk.gen = generation =>
            \A k \in 1..walk.k - 1 :
                Cardinality({n \in DOMAIN walk.asked : walk.asked[n].k = k})
                    = Cardinality(Listeners(k, walk.event))

\* A reload from inside a walk ends it: no plugin that was started since sees an
\* event that is older than it, and the walk does not index a slot the new, shorter
\* list has not, which raises out of firelistener.  The exception is real: where an
\* earlier listener gave something else than nil or PROCESSED, the PROCESSED of
\* cmd_reload is lost.
ReloadEndsWalk ==
    /\ \A i \in Walks : stack[i].gen # generation /\ stack[i].ret # "other" =>
        stack[i].running # Nothing \/ stack[i].ret = "PROCESSED"
    /\ fault \in {Nothing, "other"}

\* What plugins own is never of a generation before: no route or bot calls into a
\* plugin that is gone; and GET /v1/plugins shows the listeners of a plugin, not
\* those of its neighbour, also when others failed to load.
OwnedByLoaded ==
    /\ \A o \in bots \cup routes : o[2] = generation
    /\ \A p \in Scripts : meta[p] # 0 =>
        slots[meta[p]] = [plugin |-> p, outcome |-> "loaded"]
=============================================================================
