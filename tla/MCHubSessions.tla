--------------------------- MODULE MCHubSessions ---------------------------
(***************************************************************************)
(* Small instances of HubSessions for TLC.                                 *)
(***************************************************************************)
EXTENDS HubSessions, TLC

CONSTANTS n1, n2, p1, bn, h1, h2, bh, b1

\* One bot, on a nick and a CID of its own; or no bot.
OneBotNick == b1 :> bn
OneBotCid == b1 :> bh
NoBots == <<>>

\* usr_nick_prefix off; or showing the registered nick n1 as p1.
PlainNicks == [n \in Nicks |-> n]
ShowPrefix == [n \in Nicks |-> IF n = n1 THEN p1 ELSE n]

\* Connections are interchangeable.
Symmetry == Permutations(Conns)
=============================================================================
