---------------------------- MODULE MCRateLimit ----------------------------
(***************************************************************************)
(* Small instances of RateLimit for TLC.                                   *)
(***************************************************************************)
EXTENDS RateLimit, TLC

Periods == [k \in Kinds |-> IF k = "authfail" THEN 2 ELSE 1]
Bursts == [k \in Kinds |-> IF k = "conn" THEN 2 ELSE 1]
=============================================================================
