----------------------------- MODULE EventFeed -----------------------------
(***************************************************************************)
(* What GET /v1/events promises a client that polls with the cursor it was *)
(* given: it gets every event it may see and asked for, once and in order, *)
(* or it is told that there is a gap.                                      *)
(***************************************************************************)
EXTENDS Integers, Sequences

CONSTANTS Clients, Types, Wanted    \* Wanted[c]: the types c gets

VARIABLES
    history,    \* every event the hub emitted: its type; its id is the index
    cursor,     \* where the client resumes
    got,        \* the ids of the events it received
    told        \* it knows that it may lack events up to this one

feedVars == <<history, cursor, got, told>>

For(c, from, upto) == {id \in (from + 1)..upto : history[id] \in Wanted[c]}

Init ==
    /\ history = <<>>
    /\ cursor = [c \in Clients |-> 0]
    /\ got = [c \in Clients |-> {}]
    /\ told = [c \in Clients |-> 0]

Emit(t) ==
    /\ history' = Append(history, t)
    /\ UNCHANGED <<cursor, got, told>>

\* All of what lies between the cursor and the new one.
Deliver(c, upto) ==
    /\ cursor' = [cursor EXCEPT ![c] = upto]
    /\ got' = [got EXCEPT ![c] = @ \cup For(c, cursor[c], upto)]
    /\ UNCHANGED <<history, told>>

\* Some of it; the client is told, or did not ask for more.
Skip(c, upto) ==
    /\ cursor' = [cursor EXCEPT ![c] = upto]
    /\ \E some \in SUBSET For(c, cursor[c], upto) :
          got' = [got EXCEPT ![c] = @ \cup some]
    /\ told' = [told EXCEPT ![c] = upto]
    /\ UNCHANGED history

Next ==
    \/ \E t \in Types : Emit(t)
    \/ \E c \in Clients : \E upto \in cursor[c]..Len(history) :
          Deliver(c, upto) \/ Skip(c, upto)

Spec == Init /\ [][Next]_feedVars
=============================================================================
