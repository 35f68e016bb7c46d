--------------------------- MODULE MCCredentials ---------------------------
(***************************************************************************)
(* Two requests at a time over an account of the previous system, two      *)
(* sessions and two links.  Its password is a; changes and resets choose b *)
(* and logins try both.                                                    *)
(***************************************************************************)
EXTENDS Credentials

CONSTANTS a, b, s1, s2, t1, t2, p1, p2

MCAsked ==
  [kind : {"login"}, password : {a, b}]
    \union [kind : {"troca"}, session : {s1, s2}, current : {a}, new : {b}]
    \union [kind : {"pedido"}]
    \union [kind : {"redefinicao"}, token : {t1, t2}, new : {b}]

MCImported == [password |-> a, legacy |-> TRUE, status |-> "ativa"]

=============================================================================
