------------------------------ MODULE MCAccounts ------------------------------
(***************************************************************************)
(* Two administrators, who may act on each other, and an e-mail without    *)
(* an account, which is invited twice, given access and registered; two    *)
(* requests at a time.                                                     *)
(***************************************************************************)
EXTENDS Accounts

CONSTANTS a, b, c, p1, p2

MCAsked ==
  { o \in [kind : {"papel"}, by : {a, b}, on : {a, b}, role : {"agente", "administrador"}] :
      o.by # o.on }
    \union { o \in [kind : {"desativar"}, by : {a, b}, on : {a, b}] : o.by # o.on }
    \union [kind : {"reativar"}, on : {b}]
    \union [kind : {"convite"}, on : {c}, role : {"administrador"}]
    \union [kind : {"aceite", "revogacao"}, invitation : {1, 2}]
    \union [kind : {"acesso", "cadastro"}, on : {c}]

MCInvitations == 1..2

=============================================================================
