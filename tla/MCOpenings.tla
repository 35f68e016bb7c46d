----------------------------- MODULE MCOpenings -----------------------------
(***************************************************************************)
(* Two requests at a time: an opening, with its invoice or with its        *)
(* declaration, that may be repeated, and documents sent for it and for an *)
(* imported RMA, which want the same files; one of them names the invoice  *)
(* as its declaration too.                                                 *)
(***************************************************************************)
EXTENDS Openings, TLC

CONSTANTS r1, r2, foto, xml, declaracao, p1, p2

MCDocuments(x, d) == [k \in RMA_DOCUMENT_KINDS |-> IF k = "nota_xml" THEN x ELSE d]

Opening(x, d) ==
  [kind |-> "abertura", rma |-> r1, photos |-> {foto}, documents |-> MCDocuments(x, d)]

Sending(r, x, d) ==
  [kind |-> "documentos", rma |-> r, photos |-> {}, documents |-> MCDocuments(x, d)]

MCAsked ==
  { Opening(xml, None), Opening(None, declaracao),
    Sending(r1, None, declaracao), Sending(r2, None, declaracao), Sending(r2, xml, None),
    Sending(r2, xml, xml) }

MCPurposeOf == [f \in Files |-> IF f = foto THEN "foto_item"
                             ELSE IF f = xml THEN "nota_xml" ELSE "declaracao"]

Symmetry == Permutations({p1, p2})

=============================================================================
