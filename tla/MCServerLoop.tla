---------------------------- MODULE MCServerLoop ----------------------------
(***************************************************************************)
(* Small instances of ServerLoop for TLC.                                  *)
(***************************************************************************)
EXTENDS ServerLoop, TLC

CONSTANTS c1, c2, i1, i2

\* Everybody behind one address; or each behind its own.
OneIp == [c \in Conns |-> i1]
TwoIps == [c \in Conns |-> IF c = c1 THEN i1 ELSE i2]
=============================================================================
