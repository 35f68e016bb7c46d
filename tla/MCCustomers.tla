----------------------------- MODULE MCCustomers -----------------------------
(***************************************************************************)
(* A new document that a person registers and the team registers, with the *)
(* same e-mail or with others; an imported customer whose document is      *)
(* registered again, whose contact is given access and that gains another  *)
(* contact; two requests at a time.                                        *)
(***************************************************************************)
EXTENDS Customers

CONSTANTS d1, d2, e1, e2, equipe

MCImported == { [document |-> d2, by |-> e2] }

MCAsked ==
  [kind : {"cadastro", "criacao"}, document : {d1}, email : {e1, e2}]
    \union [kind : {"cadastro"}, document : {d2}, email : {e1, equipe}]
    \union [kind : {"contato", "acesso"}, customer : MCImported, email : {e1, e2}]

=============================================================================
