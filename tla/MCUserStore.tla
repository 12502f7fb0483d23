---------------------------- MODULE MCUserStore ----------------------------
(* Two accounts with two values each, two sessions. *)
EXTENDS UserStore, TLC
CONSTANTS n1, n2, a, b, s1, s2
MCNicks == {n1, n2}
MCData == {a, b}
MCSessions == {s1, s2}
MCIds == 1..4
MCSymmetry ==
    Permutations(MCNicks) \cup Permutations(MCData) \cup Permutations(MCSessions)
=============================================================================
