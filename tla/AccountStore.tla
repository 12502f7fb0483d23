---------------------------- MODULE AccountStore ----------------------------
(***************************************************************************)
(* What the user database promises: the accounts the hub works with, and   *)
(* the accounts a restart would find.  UserStore implements it.            *)
(***************************************************************************)
CONSTANT Account    \* records: a nick, and all that must survive a restart

VARIABLES
    accounts,       \* those the hub works with
    stored          \* those a restart would find

Distinct(A) == \A a, b \in A : a.nick = b.nick => a = b
AtMostOne(A) == \A a, b \in A : a = b

Init == accounts \in SUBSET Account /\ Distinct(accounts) /\ stored = accounts

\* One account is made, changed or removed, or none; everything is saved, or
\* what was changed before is, or nothing is.
Change ==
    /\ accounts' \in SUBSET Account /\ Distinct(accounts')
    /\ AtMostOne(accounts \ accounts') /\ AtMostOne(accounts' \ accounts)
    /\ stored' \in {stored, accounts, accounts'}

\* The hub goes back to what was saved.
Reload == accounts' = stored /\ UNCHANGED stored

Next == Change \/ Reload

Spec == Init /\ [][Next]_<<accounts, stored>>
=============================================================================
