----------------------------- MODULE MCRmaPanel -----------------------------
(***************************************************************************)
(* One RMA of two items, one person, two configurations of the deadline,   *)
(* and enough hours for one to start late and still be missed.             *)
(***************************************************************************)
EXTENDS RmaPanel, TLC

CONSTANTS r1, i1, i2, a1

MCRmaOf == (i1 :> r1) @@ (i2 :> r1)

Symmetry == Permutations({i1, i2})

=============================================================================
