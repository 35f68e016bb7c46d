--------------------------- MODULE MCRmaLifecycle ---------------------------
(***************************************************************************)
(* One RMA of three items, so that movements of part of an RMA, and of     *)
(* what is left, occur; one person, two priorities.                        *)
(***************************************************************************)
EXTENDS RmaLifecycle, TLC

CONSTANTS r1, i1, i2, i3, a1

MCRmaOf == (i1 :> r1) @@ (i2 :> r1) @@ (i3 :> r1)

\* The items are interchangeable.
Symmetry == Permutations({i1, i2, i3})

=============================================================================
