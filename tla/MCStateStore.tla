---------------------------- MODULE MCStateStore ----------------------------
(***************************************************************************)
(* StateStore for TLC: two clients, which is what the lost updates need.   *)
(***************************************************************************)
EXTENDS StateStore, TLC

CONSTANTS c1, c2, r1, r2, k1, m1, m2, m3, m4

Symmetric ==
    Permutations(Clients) \cup Permutations(Runs) \cup Permutations(Maps)

=============================================================================
