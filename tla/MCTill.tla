------------------------------- MODULE MCTill -------------------------------
(***************************************************************************)
(* Instances of Till for TLC.                                              *)
(***************************************************************************)
EXTENDS TillProperties, TLC

CONSTANTS z1, z2, m1, m2, p1, p2, k1, k2

Interchangeable ==
    Permutations(Wizard) \cup Permutations(Words) \cup Permutations(Password)
    \cup Permutations(Key)

=============================================================================
