--------------------------- MODULE MCLegacyImport ---------------------------
(***************************************************************************)
(* Two executions of the import of two agents, two users and two tickets.  *)
(* The dumps vary what the import decides on: a listed e-mail, a shared    *)
(* one, the inbox of the sector; users of one customer, of two, or without *)
(* a document, or gone; an unknown status, and rows without a date; and    *)
(* entries without text, and a ticket without a subject.                   *)
(***************************************************************************)
EXTENDS LegacyImport, TLC

CONSTANTS ana, setor, bia, caio, d1, d2, k1, k2

Entry(id, type, user, staff, text) ==
  [id |-> id, type |-> type, user |-> user, staff |-> staff, text |-> text]

\* A message, an image without text, responses of the two agents, a note, and a
\* note without text.
Entries ==
  { Entry(1, "M", 2, 0, TRUE), Entry(2, "R", 0, 1, TRUE), Entry(3, "R", 0, 2, TRUE),
    Entry(4, "N", 0, 2, TRUE), Entry(5, "M", 2, 0, FALSE), Entry(6, "N", 0, 1, FALSE) }

Item(status, photos) == [status |-> status, photos |-> photos, receivedAt |-> 1]

Ticket(u, equipment, documents, opening, entries) ==
  [requester |-> u, assignee |-> 2, closed |-> FALSE, shipment |-> TRUE, opening |-> opening,
   equipment |-> equipment, documents |-> documents, entries |-> entries]

First(u) == Ticket(u, << Item("em_testes", 2) >>, {}, TRUE, Entries)

\* The second ticket, with a status nobody knows or not.
Second(u, status) ==
  Ticket(u, << Item("recebido", 0), Item(status, 0) >>, {"nota_xml"}, FALSE,
         { e \in Entries : e.id \in {1, 5} })

Dump(a1, a2, listed, document2, status, phases, tickets) ==
  [agentEmail |-> (1 :> a1) @@ (2 :> a2), listed |-> (1 :> None) @@ (2 :> listed),
   userEmail |-> (1 :> bia) @@ (2 :> caio),
   document |-> (1 :> d1) @@ (2 :> document2), issuer |-> (1 :> None) @@ (2 :> None),
   ticket |-> (1 :> First(1)) @@ (2 :> Second(2, status)),
   undatedPhases |-> phases, undatedTickets |-> tickets]

MCDumps ==
  { Dump(ana, setor, None, d1, "concluido", {}, {}),
    Dump(setor, setor, ana, d2, "concluido", {}, {}),
    Dump(ana, ana, None, None, "concluido", {}, {}),
    Dump(ana, None, None, d2, "em_orcamento", {}, {}),
    Dump(setor, setor, None, d1, "concluido", {}, {}),
    Dump(ana, setor, None, d1, "concluido", {"usuarios"}, {}),
    Dump(ana, setor, bia, d1, "aguardando_envio", {}, {1}),
    [Dump(ana, setor, None, d1, "concluido", {}, {}) EXCEPT !.ticket[1].requester = 3] }

Symmetry == Permutations({k1, k2})

=============================================================================
