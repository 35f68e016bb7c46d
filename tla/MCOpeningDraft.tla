--------------------------- MODULE MCOpeningDraft ---------------------------
(***************************************************************************)
(* Two equipment with two photos between them, an invoice, and a queue of  *)
(* one upload at a time, so that files wait.                               *)
(***************************************************************************)
EXTENDS OpeningDraft, TLC

CONSTANTS k1, k2, p1, p2, x

MCPurposeOf == (p1 :> "foto_item") @@ (p2 :> "foto_item") @@ (x :> "nota_xml")

MCLimit == [foto_item |-> 2, video_item |-> 1]

Symmetry == Permutations({k1, k2}) \union Permutations({p1, p2})

=============================================================================
