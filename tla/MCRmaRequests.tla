--------------------------- MODULE MCRmaRequests ---------------------------
(***************************************************************************)
(* One RMA of two items and two requests at a time.  The import brings     *)
(* items in at "testes", so that the end of the process is near.           *)
(***************************************************************************)
EXTENDS RmaRequests, TLC

CONSTANTS r1, i1, i2, p1, p2

MCRmaOf == (i1 :> r1) @@ (i2 :> r1)

\* Every kind of operation, on one item and on both, and the last three
\* stages, which are the ones that check a video or close the RMA.
MCAsked ==
  [kind : {"envio"}, r : {r1}, sel : {{i1, i2}}]
    \union [kind : {"recebimento"}, r : {r1}, sel : {{i1}, {i1, i2}}]
    \union [kind : {"etapa"}, r : {r1}, sel : {{i1, i2}}, to : {"comprovacao", "devolucao"}]
    \union [kind : {"etapa"}, r : {r1}, sel : {{i1}, {i2}}, to : {"finalizado"}]
    \union [kind : {"video"}, r : {r1}, item : {i1, i2}]
    \union [kind : {"cancelamento"}, r : {r1}]

=============================================================================
