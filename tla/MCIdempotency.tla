--------------------------- MODULE MCIdempotency ---------------------------
(* Four keys, one of them of POST /v1/reload, and caps below their number. *)
EXTENDS Idempotency
CONSTANTS k1, k2, k3, r
MCKeys == {k1, k2, k3, r}
MCReloadKeys == {r}
MCMaxRuns == [k \in MCKeys |-> IF k = k1 THEN 3 ELSE 1]
MCCaps == {1, 2}
=============================================================================
