------------------------------- MODULE Accounts -------------------------------
(***************************************************************************)
(* Who has an account, with which role, and who may still get one: changes *)
(* of role and status, which must leave an administrator, and the three    *)
(* ways an account is created (an accepted invitation, an access given by  *)
(* the team, a self-registration).  Requests run at once; each is a        *)
(* transaction at READ COMMITTED, broken where it reads or waits.          *)
(***************************************************************************)
EXTENDS Naturals, FiniteSets

CONSTANTS
  Emails,       \* an e-mail identifies at most one account
  Invitations,  \* rows of invitations, numbered in the order they are issued
  Requests,     \* slots for requests in progress
  None,
  ADMIN_CHANGES_LOCK,
  Asked,        \* what requests ask for, among Ops
  Founders      \* accounts of administrators created at the server

VARIABLES
  accounts,     \* the account of each e-mail, or None
  invitations,
  pc,           \* progress of each request
  op,           \* what each request asks for
  held          \* the request holding each lock

vars == << accounts, invitations, pc, op, held >>

STAFF_ROLES == { "agente_consulta", "agente", "administrador" }
ROLES       == STAFF_ROLES \union { "cliente" }

Account == [role : ROLES, active : BOOLEAN]

Invitation ==
  [ state   : {"ausente", "aberto", "aceito", "revogado"},
    email   : Emails \union {None},
    role    : STAFF_ROLES \union {None},
    expired : BOOLEAN ]

Ops ==
  [kind : {"papel"}, by : Emails, on : Emails, role : STAFF_ROLES]
    \union [kind : {"desativar"}, by : Emails, on : Emails]
    \union [kind : {"reativar"}, on : Emails]
    \union [kind : {"convite"}, on : Emails, role : STAFF_ROLES]
    \union [kind : {"aceite", "revogacao"}, invitation : Invitations]
    \union [kind : {"acesso", "cadastro"}, on : Emails]

\* The advisory lock, the rows of accounts and those of invitations.
Locks == {ADMIN_CHANGES_LOCK} \union Emails \union Invitations

ASSUME InvitationsAssumption == Invitations \subseteq Nat
ASSUME NamesAssumption ==
  /\ None \notin Emails \union Requests \union Account
  /\ ADMIN_CHANGES_LOCK \notin Emails \union Invitations
  /\ Emails \intersect Invitations = {}
ASSUME AskedAssumption == Asked \subseteq Ops /\ None \notin Asked
ASSUME FoundersAssumption == Founders \subseteq Emails /\ Founders # {}

\* createAdministrator
Init ==
  /\ accounts = [e \in Emails |->
       IF e \in Founders THEN [role |-> "administrador", active |-> TRUE] ELSE None]
  /\ invitations = [i \in Invitations |->
       [state |-> "ausente", email |-> None, role |-> None, expired |-> FALSE]]
  /\ pc = [p \in Requests |-> "parado"]
  /\ op = [p \in Requests |-> None]
  /\ held = [l \in Locks |-> None]

-----------------------------------------------------------------------------

Exists(e)   == accounts[e] # None
Administers(e) == Exists(e) /\ accounts[e].role = "administrador" /\ accounts[e].active

Asks(p, kinds) == pc[p] # "parado" /\ op[p].kind \in kinds

\* The e-mail a request is about.
emailOf(p) ==
  IF op[p].kind \in {"aceite", "revogacao"} THEN invitations[op[p].invitation].email
                                           ELSE op[p].on

\* The transaction ends and its locks with it.
End(p) ==
  /\ pc' = [pc EXCEPT ![p] = "parado"]
  /\ op' = [op EXCEPT ![p] = None]
  /\ held' = [l \in Locks |-> IF held[l] = p THEN None ELSE held[l]]

Refuse(p) == End(p) /\ UNCHANGED << accounts, invitations >>

GoesOn(p, step) ==
  /\ pc' = [pc EXCEPT ![p] = step]
  /\ UNCHANGED << accounts, invitations, op >>

Holds(p, locks) == held' = [l \in Locks |-> IF l \in locks THEN p ELSE held[l]]

\* A request arrives, from somebody allowed to make it at that moment.
Start(p, o) ==
  /\ pc[p] = "parado"
  /\ o.kind \in {"papel", "desativar"} => o.by # o.on /\ Administers(o.by)
  /\ o.kind \in {"aceite", "revogacao"} => invitations[o.invitation].state # "ausente"
  /\ pc' = [pc EXCEPT ![p] = "pediu"]
  /\ op' = [op EXCEPT ![p] = o]
  /\ UNCHANGED << accounts, invitations, held >>

-----------------------------------------------------------------------------
(* Role and status of an account: changeRole, disable, enable.             *)

\* Mutant: changes of administrators are not serialized.
adminChangesFree_Always == TRUE

adminChangesFree == held[ADMIN_CHANGES_LOCK] = None

LockAdminChanges(p) ==
  /\ Asks(p, {"papel", "desativar"}) /\ pc[p] = "pediu"
  /\ adminChangesFree
  /\ Holds(p, {ADMIN_CHANGES_LOCK})
  /\ GoesOn(p, "serializou")

\* Whether there is anything to change once the row is locked.
changes(o) ==
  /\ Exists(o.on)
  /\ o.kind = "papel" => accounts[o.on].role \in STAFF_ROLES \ {o.role}
  /\ o.kind = "desativar" => accounts[o.on].active
  /\ o.kind = "reativar" => ~accounts[o.on].active

rowFree(e) == held[e] = None

LockAccount(p) ==
  /\ \/ Asks(p, {"papel", "desativar"}) /\ pc[p] = "serializou"
     \/ Asks(p, {"reativar"}) /\ pc[p] = "pediu"
  /\ rowFree(op[p].on)
  /\ IF changes(op[p]) THEN Holds(p, {op[p].on}) /\ GoesOn(p, "bloqueou") ELSE Refuse(p)

AssertAnotherActiveAdmin(p) ==
  /\ Asks(p, {"papel", "desativar"}) /\ pc[p] = "bloqueou"
  /\ IF accounts[op[p].on].role = "administrador"
          => \E e \in Emails \ {op[p].on} : Administers(e)
       THEN GoesOn(p, "conferiu") /\ UNCHANGED held
       ELSE Refuse(p)

ChangeAccount(p) ==
  /\ \/ Asks(p, {"papel", "desativar"}) /\ pc[p] = "conferiu"
     \/ Asks(p, {"reativar"}) /\ pc[p] = "bloqueou"
  /\ accounts' = [accounts EXCEPT ![op[p].on] =
       CASE op[p].kind = "papel"     -> [@ EXCEPT !.role = op[p].role]
         [] op[p].kind = "desativar" -> [@ EXCEPT !.active = FALSE]
         [] op[p].kind = "reativar"  -> [@ EXCEPT !.active = TRUE]]
  /\ End(p)
  /\ UNCHANGED invitations

-----------------------------------------------------------------------------
(* Invitations and new accounts.                                           *)

\* Mutant: only an acceptance closes an invitation.
openInvitation_NotAccepted(i) == invitations[i].state \in {"aberto", "revogado"}

openInvitation(i) == invitations[i].state = "aberto"

OpenFor(e) == { i \in Invitations : openInvitation(i) /\ invitations[i].email = e }

\* accept: the mark, which a later refusal undoes.
MarkAccepted(p) ==
  /\ Asks(p, {"aceite"}) /\ pc[p] = "pediu"
  /\ LET i == op[p].invitation
     IN  IF openInvitation(i) /\ ~invitations[i].expired
           THEN held[i] = None /\ Holds(p, {i}) /\ GoesOn(p, "marcou")
           ELSE Refuse(p)

EnsureEmailAvailable(p) ==
  /\ \/ Asks(p, {"convite", "acesso", "cadastro"}) /\ pc[p] = "pediu"
     \/ Asks(p, {"aceite"}) /\ pc[p] = "marcou"
  /\ IF Exists(emailOf(p)) THEN Refuse(p) ELSE GoesOn(p, "disponivel") /\ UNCHANGED held

\* Those another request is answering are waited for.
RevokeOpenInvitations(p) ==
  /\ Asks(p, {"convite", "acesso"}) /\ pc[p] = "disponivel"
  /\ \A i \in OpenFor(emailOf(p)) : held[i] = None
  /\ Holds(p, OpenFor(emailOf(p)))
  /\ GoesOn(p, "revogou")

\* The invitations once those a request holds have a state.
answered(p, state) ==
  [i \in Invitations |-> IF held[i] = p THEN [invitations[i] EXCEPT !.state = state]
                                        ELSE invitations[i]]

Absent == { i \in Invitations : invitations[i].state = "ausente" }

\* issue: the row is inserted unless another is open for the e-mail by now.
InsertInvitation(p) ==
  /\ Asks(p, {"convite"}) /\ pc[p] = "revogou"
  /\ Absent # {}
  /\ LET next == CHOOSE i \in Absent : \A j \in Absent : i <= j
     IN  IF \A i \in OpenFor(op[p].on) : held[i] = p
           THEN /\ invitations' = [answered(p, "revogado") EXCEPT ![next] =
                     [ state |-> "aberto", email |-> op[p].on, role |-> op[p].role,
                       expired |-> FALSE ]]
                /\ End(p)
                /\ UNCHANGED accounts
           ELSE Refuse(p)

\* The account, unless another one took the e-mail by now.
InsertAccount(p) ==
  /\ \/ Asks(p, {"acesso"}) /\ pc[p] = "revogou"
     \/ Asks(p, {"cadastro", "aceite"}) /\ pc[p] = "disponivel"
  /\ IF Exists(emailOf(p))
       THEN Refuse(p)
       ELSE /\ accounts' = [accounts EXCEPT ![emailOf(p)] =
                 [ role   |-> IF op[p].kind = "aceite" THEN invitations[op[p].invitation].role
                                                       ELSE "cliente",
                   active |-> TRUE ]]
            /\ invitations' = answered(p, IF op[p].kind = "aceite" THEN "aceito" ELSE "revogado")
            /\ End(p)

\* InvitationsService.revoke
Revoke(p) ==
  /\ Asks(p, {"revogacao"}) /\ pc[p] = "pediu"
  /\ LET i == op[p].invitation
     IN  IF openInvitation(i)
           THEN /\ held[i] = None
                /\ invitations' = [invitations EXCEPT ![i].state = "revogado"]
                /\ End(p)
                /\ UNCHANGED accounts
           ELSE Refuse(p)

\* INVITATION_TTL_DAYS pass.
Expires(i) ==
  /\ openInvitation(i) /\ ~invitations[i].expired
  /\ invitations' = [invitations EXCEPT ![i].expired = TRUE]
  /\ UNCHANGED << accounts, pc, op, held >>

\* Any request may fail and its transaction be undone.
Fail(p) == pc[p] # "parado" /\ Refuse(p)

-----------------------------------------------------------------------------

Step(p) ==
  \/ LockAdminChanges(p) \/ LockAccount(p) \/ AssertAnotherActiveAdmin(p) \/ ChangeAccount(p)
  \/ MarkAccepted(p) \/ EnsureEmailAvailable(p) \/ RevokeOpenInvitations(p)
  \/ InsertInvitation(p) \/ InsertAccount(p) \/ Revoke(p)

Next ==
  \/ \E p \in Requests : (\E o \in Asked : Start(p, o)) \/ Step(p) \/ Fail(p)
  \/ \E i \in Invitations : Expires(i)

Spec == Init /\ [][Next]_vars

-----------------------------------------------------------------------------
(* Properties.                                                             *)

\* The tables have their shapes, and a request that locked a row holds it.
TypeOK ==
  /\ accounts \in [Emails -> Account \union {None}]
  /\ invitations \in [Invitations -> Invitation]
  /\ \A p \in Requests :
       /\ pc[p] = "parado" <=> op[p] = None
       /\ pc[p] \in {"bloqueou", "conferiu"} => held[op[p].on] = p
       /\ pc[p] = "marcou" => held[op[p].invitation] = p

\* There is always an active administrator, though each of two may be demoting
\* or disabling the other.
SomeoneAdministers == \E e \in Emails : Administers(e)

\* The answer to an invitation is final, and only the last one sent to an
\* e-mail can be accepted, even while another one replaces it.
LastInvitationCounts ==
  [][\A i \in Invitations :
       /\ invitations[i].state \in {"aceito", "revogado"} => invitations'[i] = invitations[i]
       /\ invitations[i].state = "aberto" /\ invitations'[i].state = "aceito" =>
            \A j \in Invitations : j > i => invitations'[j].email # invitations[i].email]_vars

=============================================================================
