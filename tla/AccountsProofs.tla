---------------------------- MODULE AccountsProofs ----------------------------
(***************************************************************************)
(* For any number of accounts, invitations and concurrent requests, the    *)
(* tables of Accounts keep their shapes, an active administrator always    *)
(* remains and only the last invitation sent to an e-mail is accepted.     *)
(* The inductive invariants say what a request in each of its steps holds  *)
(* and knows: above all, that what AssertAnotherActiveAdmin saw is still   *)
(* so when ChangeAccount relies on it, and that an invitation it holds is  *)
(* still open when it answers it.                                          *)
(***************************************************************************)
EXTENDS Accounts, WellFoundedInduction, TLAPS

Steps ==
  { "parado", "pediu", "serializou", "bloqueou", "conferiu", "marcou",
    "disponivel", "revogou" }

AdminChanges == { "papel", "desativar" }

Shapes ==
  /\ accounts \in [Emails -> Account \union {None}]
  /\ invitations \in [Invitations -> Invitation]
  /\ pc \in [Requests -> Steps]
  /\ op \in [Requests -> Asked \union {None}]
  /\ held \in [Locks -> Requests \union {None}]

\* An invitation that was issued names an e-mail and a role.
IssuedOK ==
  \A i \in Invitations : invitations[i].state # "ausente" =>
    invitations[i].email \in Emails /\ invitations[i].role \in STAFF_ROLES

\* Only rows that were inserted are locked.
LockedIssued ==
  \A i \in Invitations : held[i] # None => invitations[i].state # "ausente"

\* The locks a request has, and the rows it relies on.
HoldsOK(p) ==
  /\ pc[p] = "parado" <=> op[p] = None
  /\ pc[p] = "serializou" => Asks(p, AdminChanges)
  /\ pc[p] \in {"bloqueou", "conferiu"} =>
       /\ Asks(p, AdminChanges \union {"reativar"})
       /\ held[op[p].on] = p
       /\ Exists(op[p].on)
  /\ Asks(p, AdminChanges) /\ pc[p] \in {"serializou", "bloqueou", "conferiu"} =>
       held[ADMIN_CHANGES_LOCK] = p
  /\ pc[p] = "conferiu" => Asks(p, AdminChanges)
  /\ pc[p] = "marcou" => Asks(p, {"aceite"}) /\ held[op[p].invitation] = p
  /\ Asks(p, {"aceite"}) => invitations[op[p].invitation].state # "ausente"

\* A request about to take an administrator away leaves another one.
LeavesAnother(p) ==
  pc[p] = "conferiu" /\ accounts[op[p].on].role = "administrador" =>
    \E e \in Emails \ {op[p].on} : Administers(e)

IInv ==
  /\ Shapes
  /\ IssuedOK
  /\ LockedIssued
  /\ \A p \in Requests : HoldsOK(p) /\ LeavesAnother(p)
  /\ SomeoneAdministers

-----------------------------------------------------------------------------

\* Every kind of request has the fields its steps read.
LEMMA OpFields ==
  ASSUME NEW o \in Asked
  PROVE  /\ o # None
         /\ o.kind \in {"papel", "desativar", "reativar", "convite", "acesso", "cadastro"}
              => o.on \in Emails
         /\ o.kind \in {"aceite", "revogacao"} => o.invitation \in Invitations
         /\ o.kind \in {"papel", "convite"} => o.role \in STAFF_ROLES
  BY AskedAssumption DEF Ops

LEMMA NoneIsNoAccount == None \notin Account
  BY NamesAssumption

\* What the end of a transaction leaves of the requests and the locks.
LEMMA EndEffect ==
  ASSUME Shapes, NEW p \in Requests, End(p)
  PROVE  /\ pc' \in [Requests -> Steps]
         /\ op' \in [Requests -> Asked \union {None}]
         /\ held' \in [Locks -> Requests \union {None}]
         /\ pc'[p] = "parado" /\ op'[p] = None
         /\ \A q \in Requests \ {p} : pc'[q] = pc[q] /\ op'[q] = op[q]
         /\ \A l \in Locks : held[l] # p => held'[l] = held[l]
         /\ \A l \in Locks : held'[l] \in {held[l], None}
  BY DEF Shapes, End, Steps

\* What a step that goes on, having taken some locks, leaves of them.
LEMMA GoesOnEffect ==
  ASSUME Shapes, NEW p \in Requests, NEW step \in Steps, NEW taken \in SUBSET Locks,
         GoesOn(p, step), Holds(p, taken)
  PROVE  /\ pc' \in [Requests -> Steps]
         /\ op' = op /\ accounts' = accounts /\ invitations' = invitations
         /\ held' \in [Locks -> Requests \union {None}]
         /\ pc'[p] = step
         /\ \A q \in Requests \ {p} : pc'[q] = pc[q]
         /\ \A l \in Locks : held'[l] = IF l \in taken THEN p ELSE held[l]
  BY DEF Shapes, GoesOn, Holds

\* The other requests keep what they hold when no lock is taken from them and
\* no row they rely on goes away.
LEMMA OthersHold ==
  ASSUME Shapes, NEW p \in Requests,
         \A q \in Requests : HoldsOK(q),
         \A q \in Requests \ {p} : pc'[q] = pc[q] /\ op'[q] = op[q],
         \A l \in Locks : held[l] \notin {p, None} => held'[l] = held[l],
         \A e \in Emails : Exists(e) => accounts'[e] # None,
         \A i \in Invitations : invitations[i].state # "ausente"
                                  => invitations'[i].state # "ausente"
  PROVE  \A q \in Requests \ {p} : HoldsOK(q)'
<1> TAKE q \in Requests \ {p}
<1>1. HoldsOK(q) /\ pc'[q] = pc[q] /\ op'[q] = op[q]
  OBVIOUS
<1>2. q # None /\ q # p
  BY NamesAssumption
<1>3. CASE pc[q] = "parado"
  BY <1>1, <1>3 DEF HoldsOK, Asks
<1>4. CASE pc[q] # "parado"
  <2>1. op[q] \in Asked
    BY <1>1, <1>4 DEF HoldsOK, Shapes
  <2>2. /\ op[q].kind \in {"papel", "desativar", "reativar"} => op[q].on \in Emails
        /\ op[q].kind = "aceite" => op[q].invitation \in Invitations
    BY <2>1, OpFields
  <2>3. \A l \in Locks : held[l] = q => held'[l] = q
    BY <1>2
  <2>4. Emails \subseteq Locks /\ Invitations \subseteq Locks /\ ADMIN_CHANGES_LOCK \in Locks
    BY DEF Locks
  <2> QED
    BY <1>1, <2>1, <2>2, <2>3, <2>4 DEF HoldsOK, Asks, Exists, AdminChanges
<1> QED
  BY <1>3, <1>4

\* A step that leaves the tables alone and ends the transaction keeps it all.
LEMMA Refused ==
  ASSUME IInv, NEW p \in Requests, Refuse(p)
  PROVE  IInv'
<1>1. End(p) /\ accounts' = accounts /\ invitations' = invitations
  BY DEF Refuse
<1>2. /\ pc' \in [Requests -> Steps] /\ op' \in [Requests -> Asked \union {None}]
      /\ held' \in [Locks -> Requests \union {None}]
      /\ pc'[p] = "parado" /\ op'[p] = None
      /\ \A q \in Requests \ {p} : pc'[q] = pc[q] /\ op'[q] = op[q]
      /\ \A l \in Locks : held[l] # p => held'[l] = held[l]
      /\ \A l \in Locks : held'[l] \in {held[l], None}
  BY <1>1, EndEffect DEF IInv
<1>3. Shapes' /\ IssuedOK' /\ LockedIssued' /\ SomeoneAdministers'
  BY <1>1, <1>2 DEF IInv, Shapes, IssuedOK, LockedIssued, Locks, SomeoneAdministers,
                    Administers, Exists
<1>4. HoldsOK(p)' /\ LeavesAnother(p)'
  BY <1>2 DEF HoldsOK, LeavesAnother, Asks
<1>5. \A q \in Requests \ {p} : HoldsOK(q)'
  BY <1>1, <1>2, OthersHold DEF IInv, Exists
<1>6. \A q \in Requests \ {p} : LeavesAnother(q)'
  BY <1>1, <1>2 DEF IInv, LeavesAnother, Administers, Exists
<1> QED
  BY <1>3, <1>4, <1>5, <1>6 DEF IInv

\* So does a step that goes on and takes locks that were free, if what it now
\* holds and knows is right.
LEMMA WentOn ==
  ASSUME IInv, NEW p \in Requests, NEW step \in Steps, NEW taken \in SUBSET Locks,
         GoesOn(p, step), Holds(p, taken), \A l \in taken : held[l] = None,
         \A i \in taken \intersect Invitations : invitations[i].state # "ausente",
         HoldsOK(p)', LeavesAnother(p)'
  PROVE  IInv'
<1>1. /\ pc' \in [Requests -> Steps]
      /\ op' = op /\ accounts' = accounts /\ invitations' = invitations
      /\ held' \in [Locks -> Requests \union {None}]
      /\ \A q \in Requests \ {p} : pc'[q] = pc[q]
      /\ \A l \in Locks : held'[l] = IF l \in taken THEN p ELSE held[l]
  BY GoesOnEffect DEF IInv
<1>2. Shapes' /\ IssuedOK' /\ LockedIssued' /\ SomeoneAdministers'
  BY <1>1 DEF IInv, Shapes, IssuedOK, LockedIssued, Locks, SomeoneAdministers,
              Administers, Exists
<1>3. \A q \in Requests \ {p} : HoldsOK(q)'
  BY <1>1, OthersHold DEF IInv, Exists
<1>4. \A q \in Requests \ {p} : LeavesAnother(q)'
  BY <1>1 DEF IInv, LeavesAnother, Administers, Exists
<1> QED
  BY <1>2, <1>3, <1>4 DEF IInv

LEMMA NothingTaken ==
  ASSUME Shapes, NEW p \in Requests, UNCHANGED held
  PROVE  Holds(p, {})
  BY DEF Shapes, Holds

\* A request that goes on without the locks of an account needs none.
LEMMA WentOnPlainly ==
  ASSUME IInv, NEW p \in Requests, NEW step \in {"pediu", "disponivel", "revogou"},
         NEW taken \in SUBSET Locks,
         GoesOn(p, step), Holds(p, taken), \A l \in taken : held[l] = None,
         \A i \in taken \intersect Invitations : invitations[i].state # "ausente",
         pc[p] # "parado"
  PROVE  IInv'
<1>1. /\ pc'[p] = step /\ op' = op /\ invitations' = invitations
  BY GoesOnEffect DEF IInv, Steps
<1>2. step \in Steps
  BY DEF Steps
<1>3. HoldsOK(p) /\ op[p] # None
  BY DEF IInv, HoldsOK
<1>4. HoldsOK(p)' /\ LeavesAnother(p)'
  BY <1>1, <1>3 DEF HoldsOK, LeavesAnother, Asks, AdminChanges
<1> QED
  BY <1>2, <1>4, WentOn

-----------------------------------------------------------------------------
(* The steps.                                                              *)

LEMMA StartKeeps ==
  ASSUME IInv, NEW p \in Requests, NEW o \in Asked, Start(p, o)
  PROVE  IInv'
<1>1. /\ pc' = [pc EXCEPT ![p] = "pediu"] /\ op' = [op EXCEPT ![p] = o]
      /\ accounts' = accounts /\ invitations' = invitations /\ held' = held
      /\ o.kind \in {"aceite", "revogacao"} => invitations[o.invitation].state # "ausente"
  BY DEF Start
<1>2. Shapes' /\ IssuedOK' /\ LockedIssued' /\ SomeoneAdministers'
  BY <1>1 DEF IInv, Shapes, Steps, IssuedOK, LockedIssued, SomeoneAdministers,
              Administers, Exists
<1>3. /\ pc'[p] = "pediu" /\ op'[p] = o
      /\ \A q \in Requests \ {p} : pc'[q] = pc[q] /\ op'[q] = op[q]
  BY <1>1 DEF IInv, Shapes
<1>4. HoldsOK(p)' /\ LeavesAnother(p)'
  BY <1>1, <1>3, OpFields DEF HoldsOK, LeavesAnother, Asks, AdminChanges
<1>5. \A q \in Requests \ {p} : HoldsOK(q)'
  BY <1>1, <1>3, OthersHold DEF IInv, Exists
<1>6. \A q \in Requests \ {p} : LeavesAnother(q)'
  BY <1>1, <1>3 DEF IInv, LeavesAnother, Administers, Exists
<1> QED
  BY <1>2, <1>4, <1>5, <1>6 DEF IInv

LEMMA LockAdminChangesKeeps ==
  ASSUME IInv, NEW p \in Requests, LockAdminChanges(p)
  PROVE  IInv'
<1>1. /\ Asks(p, AdminChanges) /\ held[ADMIN_CHANGES_LOCK] = None
      /\ Holds(p, {ADMIN_CHANGES_LOCK}) /\ GoesOn(p, "serializou")
  BY DEF LockAdminChanges, adminChangesFree, AdminChanges
<1>2. /\ "serializou" \in Steps /\ {ADMIN_CHANGES_LOCK} \in SUBSET Locks
      /\ ADMIN_CHANGES_LOCK \notin Invitations
  BY NamesAssumption DEF Steps, Locks
<1>3. /\ pc'[p] = "serializou" /\ op' = op /\ held'[ADMIN_CHANGES_LOCK] = p
  BY <1>1, <1>2, GoesOnEffect DEF IInv
<1>4. HoldsOK(p)' /\ LeavesAnother(p)'
  BY <1>1, <1>3 DEF IInv, HoldsOK, LeavesAnother, Asks, AdminChanges
<1> QED
  BY <1>1, <1>2, <1>4, WentOn

LEMMA LockAccountKeeps ==
  ASSUME IInv, NEW p \in Requests, LockAccount(p)
  PROVE  IInv'
<1>1. CASE ~changes(op[p])
  BY <1>1, Refused DEF LockAccount
<1>2. CASE changes(op[p])
  <2>1. /\ Asks(p, AdminChanges \union {"reativar"})
        /\ Asks(p, AdminChanges) => pc[p] = "serializou"
        /\ held[op[p].on] = None /\ Exists(op[p].on)
        /\ Holds(p, {op[p].on}) /\ GoesOn(p, "bloqueou")
    BY <1>2 DEF LockAccount, rowFree, changes, Asks, AdminChanges
  <2>2. op[p] \in Asked
    BY <2>1 DEF IInv, Shapes, HoldsOK, Asks
  <2>3. op[p].on \in Emails
    BY <2>1, <2>2, OpFields DEF Asks, AdminChanges
  <2>4. "bloqueou" \in Steps /\ {op[p].on} \in SUBSET Locks /\ op[p].on \notin Invitations
    BY <2>3, NamesAssumption DEF Steps, Locks
  <2>5. /\ pc'[p] = "bloqueou" /\ op' = op /\ accounts' = accounts
        /\ held'[op[p].on] = p
        /\ \A l \in Locks : held[l] = p => held'[l] = p
    BY <2>1, <2>4, GoesOnEffect DEF IInv
  <2>6. ADMIN_CHANGES_LOCK \in Locks
    BY DEF Locks
  <2>7. HoldsOK(p)
    BY DEF IInv
  <2>8. HoldsOK(p)' /\ LeavesAnother(p)'
    BY <2>1, <2>2, <2>5, <2>6, <2>7, OpFields
       DEF HoldsOK, LeavesAnother, Asks, AdminChanges, Exists
  <2> QED
    BY <2>1, <2>4, <2>8, WentOn
<1> QED
  BY <1>1, <1>2

LEMMA AssertAnotherActiveAdminKeeps ==
  ASSUME IInv, NEW p \in Requests, AssertAnotherActiveAdmin(p)
  PROVE  IInv'
<1> DEFINE another == accounts[op[p].on].role = "administrador"
                        => \E e \in Emails \ {op[p].on} : Administers(e)
<1>1. CASE ~another
  BY <1>1, Refused DEF AssertAnotherActiveAdmin
<1>2. CASE another
  <2>1. /\ Asks(p, AdminChanges) /\ pc[p] = "bloqueou"
        /\ GoesOn(p, "conferiu") /\ UNCHANGED held
    BY <1>2 DEF AssertAnotherActiveAdmin, AdminChanges
  <2>2. Holds(p, {}) /\ "conferiu" \in Steps
    BY <2>1, NothingTaken DEF IInv, Steps
  <2>3. /\ pc'[p] = "conferiu" /\ op' = op /\ accounts' = accounts
        /\ \A l \in Locks : held'[l] = held[l]
    BY <2>1, <2>2, GoesOnEffect DEF IInv
  <2>4. HoldsOK(p) /\ held' = held
    BY <2>1 DEF IInv
  <2>5. HoldsOK(p)' /\ LeavesAnother(p)'
    BY <1>2, <2>1, <2>3, <2>4
       DEF HoldsOK, LeavesAnother, Asks, AdminChanges, Exists, Administers
  <2> QED
    BY <2>1, <2>2, <2>5, WentOn
<1> QED
  BY <1>1, <1>2

\* The step the invariant is for: nobody else changed an administrator since
\* the assertion, and the rows the others rely on are not this one.
LEMMA ChangeAccountKeeps ==
  ASSUME IInv, NEW p \in Requests, ChangeAccount(p)
  PROVE  IInv'
<1> DEFINE on == op[p].on
<1>1. /\ End(p) /\ invitations' = invitations
      /\ \/ Asks(p, AdminChanges) /\ pc[p] = "conferiu"
         \/ Asks(p, {"reativar"}) /\ pc[p] = "bloqueou"
  BY DEF ChangeAccount, AdminChanges
<1>2. HoldsOK(p) /\ LeavesAnother(p) /\ held[on] = p /\ Exists(on)
  BY <1>1 DEF IInv, HoldsOK
<1>3. op[p] \in Asked /\ on \in Emails
  <2>1. op[p] \in Asked
    BY <1>1 DEF IInv, Shapes, HoldsOK, Asks
  <2> QED
    BY <1>1, <2>1, OpFields DEF Asks, AdminChanges
<1>4. accounts[on] \in Account
  BY <1>2, <1>3 DEF IInv, Shapes, Exists
<1>5. /\ pc' \in [Requests -> Steps] /\ op' \in [Requests -> Asked \union {None}]
      /\ held' \in [Locks -> Requests \union {None}]
      /\ pc'[p] = "parado" /\ op'[p] = None
      /\ \A q \in Requests \ {p} : pc'[q] = pc[q] /\ op'[q] = op[q]
      /\ \A l \in Locks : held[l] # p => held'[l] = held[l]
      /\ \A l \in Locks : held'[l] \in {held[l], None}
  BY <1>1, EndEffect DEF IInv
<1>6. /\ accounts' \in [Emails -> Account \union {None}]
      /\ accounts'[on] \in Account
      /\ \A e \in Emails \ {on} : accounts'[e] = accounts[e]
      /\ pc[p] = "bloqueou" => accounts'[on] = [accounts[on] EXCEPT !.active = TRUE]
  <2>1. CASE op[p].kind = "papel"
    <3>1. accounts' = [accounts EXCEPT ![on] = [@ EXCEPT !.role = op[p].role]]
      BY <2>1 DEF ChangeAccount
    <3>2. op[p].role \in ROLES
      BY <1>3, <2>1, OpFields DEF ROLES
    <3>3. pc[p] # "bloqueou"
      BY <1>1, <2>1 DEF Asks
    <3> QED
      BY <1>3, <1>4, <3>1, <3>2, <3>3 DEF IInv, Shapes, Account
  <2>2. CASE op[p].kind = "desativar"
    <3>1. accounts' = [accounts EXCEPT ![on] = [@ EXCEPT !.active = FALSE]]
      BY <2>2 DEF ChangeAccount
    <3>2. pc[p] # "bloqueou"
      BY <1>1, <2>2 DEF Asks
    <3> QED
      BY <1>3, <1>4, <3>1, <3>2 DEF IInv, Shapes, Account
  <2>3. CASE op[p].kind = "reativar"
    <3>1. accounts' = [accounts EXCEPT ![on] = [@ EXCEPT !.active = TRUE]]
      BY <2>3 DEF ChangeAccount
    <3> QED
      BY <1>3, <1>4, <3>1 DEF IInv, Shapes, Account
  <2> QED
    BY <1>1, <2>1, <2>2, <2>3 DEF Asks, AdminChanges
<1>7. Shapes' /\ IssuedOK' /\ LockedIssued'
  BY <1>1, <1>5, <1>6 DEF IInv, Shapes, IssuedOK, LockedIssued, Locks
<1>8. HoldsOK(p)' /\ LeavesAnother(p)'
  BY <1>5 DEF HoldsOK, LeavesAnother, Asks
<1>9. \A q \in Requests \ {p} : HoldsOK(q)'
  <2>1. None \notin Account
    BY NoneIsNoAccount
  <2>2. \A e \in Emails : Exists(e) => accounts'[e] # None
    BY <1>6, <2>1 DEF Exists
  <2> QED
    BY <1>1, <1>5, <2>2, OthersHold DEF IInv
<1>10. CASE pc[p] = "conferiu"
  <2>1. Asks(p, AdminChanges) /\ held[ADMIN_CHANGES_LOCK] = p
    BY <1>1, <1>2, <1>10 DEF HoldsOK
  <2>2. \A q \in Requests \ {p} : pc[q] # "conferiu"
    BY <1>1, <2>1 DEF IInv, HoldsOK
  <2>3. SomeoneAdministers'
    <3>1. CASE accounts[on].role = "administrador"
      BY <1>2, <1>6, <1>10, <3>1 DEF LeavesAnother, SomeoneAdministers, Administers, Exists
    <3>2. CASE accounts[on].role # "administrador"
      BY <1>6, <3>2 DEF IInv, SomeoneAdministers, Administers, Exists
    <3> QED
      BY <3>1, <3>2
  <2>4. \A q \in Requests \ {p} : LeavesAnother(q)'
    BY <1>5, <2>2 DEF LeavesAnother
  <2> QED
    BY <1>7, <1>8, <1>9, <2>3, <2>4 DEF IInv
<1>11. CASE pc[p] = "bloqueou"
  <2>1. \A e \in Emails : Administers(e) => Administers(e)'
    BY <1>2, <1>4, <1>6, <1>11, NoneIsNoAccount DEF Administers, Exists, Account
  <2>2. SomeoneAdministers'
    BY <2>1 DEF IInv, SomeoneAdministers
  <2>3. \A q \in Requests \ {p} : LeavesAnother(q)'
    <3> SUFFICES ASSUME NEW q \in Requests \ {p}, LeavesAnother(q), HoldsOK(q),
                        pc[q] = "conferiu"
                 PROVE  LeavesAnother(q)'
      BY <1>5 DEF IInv, LeavesAnother
    <3>1. op[q].on # on /\ op[q] \in Asked
      BY <1>2 DEF HoldsOK, IInv, Shapes, Asks
    <3>2. op[q].on \in Emails
      BY <3>1, OpFields DEF HoldsOK, Asks, AdminChanges
    <3>3. accounts'[op[q].on] = accounts[op[q].on] /\ op'[q] = op[q] /\ pc'[q] = pc[q]
      BY <1>5, <1>6, <3>1, <3>2
    <3> QED
      BY <2>1, <3>3 DEF LeavesAnother
  <2> QED
    BY <1>7, <1>8, <1>9, <2>2, <2>3 DEF IInv
<1> QED
  BY <1>1, <1>10, <1>11

LEMMA MarkAcceptedKeeps ==
  ASSUME IInv, NEW p \in Requests, MarkAccepted(p)
  PROVE  IInv'
<1> DEFINE i == op[p].invitation
<1>1. CASE ~(openInvitation(i) /\ ~invitations[i].expired)
  BY <1>1, Refused DEF MarkAccepted
<1>2. CASE openInvitation(i) /\ ~invitations[i].expired
  <2>1. /\ Asks(p, {"aceite"}) /\ held[i] = None /\ Holds(p, {i}) /\ GoesOn(p, "marcou")
    BY <1>2 DEF MarkAccepted
  <2>2. op[p] \in Asked
    BY <2>1 DEF IInv, Shapes, HoldsOK, Asks
  <2>3. i \in Invitations /\ "marcou" \in Steps /\ {i} \in SUBSET Locks
    BY <2>1, <2>2, OpFields DEF Asks, Steps, Locks
  <2>4. /\ pc'[p] = "marcou" /\ op' = op /\ invitations' = invitations /\ held'[i] = p
    BY <2>1, <2>3, GoesOnEffect DEF IInv
  <2>5. HoldsOK(p)
    BY DEF IInv
  <2>6. HoldsOK(p)' /\ LeavesAnother(p)'
    BY <2>1, <2>2, <2>4, <2>5, OpFields DEF HoldsOK, LeavesAnother, Asks, AdminChanges
  <2> QED
    BY <1>2, <2>1, <2>3, <2>6, WentOn DEF openInvitation
<1> QED
  BY <1>1, <1>2

LEMMA EnsureEmailAvailableKeeps ==
  ASSUME IInv, NEW p \in Requests, EnsureEmailAvailable(p)
  PROVE  IInv'
<1>1. CASE Exists(emailOf(p))
  BY <1>1, Refused DEF EnsureEmailAvailable
<1>2. CASE ~Exists(emailOf(p))
  <2>1. GoesOn(p, "disponivel") /\ UNCHANGED held /\ pc[p] # "parado"
    BY <1>2 DEF EnsureEmailAvailable
  <2>2. Holds(p, {})
    BY <2>1, NothingTaken DEF IInv
  <2> QED
    BY <2>1, <2>2, WentOnPlainly
<1> QED
  BY <1>1, <1>2

LEMMA RevokeOpenInvitationsKeeps ==
  ASSUME IInv, NEW p \in Requests, RevokeOpenInvitations(p)
  PROVE  IInv'
<1> DEFINE open == OpenFor(emailOf(p))
<1>1. /\ pc[p] # "parado" /\ \A i \in open : held[i] = None
      /\ Holds(p, open) /\ GoesOn(p, "revogou")
  BY DEF RevokeOpenInvitations
<1>2. /\ open \in SUBSET Locks
      /\ \A i \in open : invitations[i].state # "ausente"
  BY DEF OpenFor, Locks, openInvitation
<1> HIDE DEF open
<1> QED
  BY <1>1, <1>2, WentOnPlainly

\* A transaction that ends having changed invitations, or added an account
\* where there was none, keeps everything too.
LEMMA Added ==
  ASSUME IInv, NEW p \in Requests, End(p),
         accounts' \in [Emails -> Account \union {None}],
         \A e \in Emails : Exists(e) => accounts'[e] = accounts[e],
         invitations' \in [Invitations -> Invitation],
         IssuedOK',
         \A i \in Invitations : invitations[i].state # "ausente"
                                  => invitations'[i].state # "ausente"
  PROVE  IInv'
<1>1. /\ pc' \in [Requests -> Steps] /\ op' \in [Requests -> Asked \union {None}]
      /\ held' \in [Locks -> Requests \union {None}]
      /\ pc'[p] = "parado" /\ op'[p] = None
      /\ \A q \in Requests \ {p} : pc'[q] = pc[q] /\ op'[q] = op[q]
      /\ \A l \in Locks : held[l] # p => held'[l] = held[l]
      /\ \A l \in Locks : held'[l] \in {held[l], None}
  BY EndEffect DEF IInv
<1>2. \A e \in Emails : Administers(e) => Administers(e)'
  BY DEF Administers, Exists
<1>3. Shapes' /\ LockedIssued' /\ SomeoneAdministers'
  BY <1>1, <1>2 DEF IInv, Shapes, LockedIssued, Locks, SomeoneAdministers
<1>4. HoldsOK(p)' /\ LeavesAnother(p)'
  BY <1>1 DEF HoldsOK, LeavesAnother, Asks
<1>5. \A q \in Requests \ {p} : HoldsOK(q)'
  BY <1>1, OthersHold DEF IInv, Exists
<1>6. \A q \in Requests \ {p} : LeavesAnother(q)'
  <2> SUFFICES ASSUME NEW q \in Requests \ {p}, LeavesAnother(q), HoldsOK(q),
                      pc[q] = "conferiu"
               PROVE  LeavesAnother(q)'
    BY <1>1 DEF IInv, LeavesAnother
  <2>1. op[q] \in Asked /\ Exists(op[q].on)
    BY DEF HoldsOK, IInv, Shapes, Asks
  <2>2. op[q].on \in Emails
    BY <2>1, OpFields DEF HoldsOK, Asks, AdminChanges
  <2> QED
    BY <1>1, <1>2, <2>1, <2>2 DEF LeavesAnother
<1> QED
  BY <1>3, <1>4, <1>5, <1>6 DEF IInv

\* What an answer does to the invitations of a request.
LEMMA AnsweredShape ==
  ASSUME IInv, NEW p \in Requests, NEW state \in {"aceito", "revogado"}
  PROVE  /\ answered(p, state) \in [Invitations -> Invitation]
         /\ \A i \in Invitations :
              /\ answered(p, state)[i].email = invitations[i].email
              /\ answered(p, state)[i].role = invitations[i].role
              /\ answered(p, state)[i].state \in {state, invitations[i].state}
              /\ held[i] # p => answered(p, state)[i] = invitations[i]
  BY DEF IInv, Shapes, Invitation, answered

LEMMA InsertInvitationKeeps ==
  ASSUME IInv, NEW p \in Requests, InsertInvitation(p)
  PROVE  IInv'
<1> DEFINE next == CHOOSE i \in Absent : \A j \in Absent : i <= j
           row  == [ state |-> "aberto", email |-> op[p].on, role |-> op[p].role,
                     expired |-> FALSE ]
<1>1. CASE ~ \A i \in OpenFor(op[p].on) : held[i] = p
  BY <1>1, Refused DEF InsertInvitation
<1>2. CASE \A i \in OpenFor(op[p].on) : held[i] = p
  <2>1. /\ Asks(p, {"convite"})
        /\ invitations' = [answered(p, "revogado") EXCEPT ![next] = row]
        /\ End(p) /\ accounts' = accounts
    BY <1>2 DEF InsertInvitation
  <2>2. op[p] \in Asked
    BY <2>1 DEF IInv, Shapes, HoldsOK, Asks
  <2>3. row \in Invitation /\ row.email \in Emails /\ row.role \in STAFF_ROLES
    BY <2>1, <2>2, OpFields DEF Asks, Invitation
  <2> HIDE DEF next
  <2>4. /\ invitations' \in [Invitations -> Invitation]
        /\ \A i \in Invitations :
             \/ invitations'[i] = row
             \/ invitations'[i] = answered(p, "revogado")[i]
    BY <2>1, <2>3, AnsweredShape
  <2>5. IssuedOK' /\ \A i \in Invitations : invitations[i].state # "ausente"
                                             => invitations'[i].state # "ausente"
    BY <2>3, <2>4, AnsweredShape, NamesAssumption DEF IInv, IssuedOK, LockedIssued
  <2> QED
    BY <2>1, <2>4, <2>5, Added DEF IInv, Shapes
<1> QED
  BY <1>1, <1>2

LEMMA InsertAccountKeeps ==
  ASSUME IInv, NEW p \in Requests, InsertAccount(p)
  PROVE  IInv'
<1> DEFINE role  == IF op[p].kind = "aceite" THEN invitations[op[p].invitation].role
                                             ELSE "cliente"
           state == IF op[p].kind = "aceite" THEN "aceito" ELSE "revogado"
<1>1. CASE Exists(emailOf(p))
  BY <1>1, Refused DEF InsertAccount
<1>2. CASE ~Exists(emailOf(p))
  <2>1. /\ pc[p] # "parado" /\ End(p)
        /\ accounts' = [accounts EXCEPT ![emailOf(p)] = [role |-> role, active |-> TRUE]]
        /\ invitations' = answered(p, state)
    BY <1>2 DEF InsertAccount
  <2>2. role \in ROLES
    <3>1. CASE op[p].kind = "aceite"
      <4>1. op[p] \in Asked /\ invitations[op[p].invitation].state # "ausente"
        BY <2>1, <3>1 DEF IInv, Shapes, HoldsOK, Asks
      <4> QED
        BY <3>1, <4>1, OpFields DEF IInv, IssuedOK, ROLES
    <3> QED
      BY <3>1 DEF ROLES
  <2>3. /\ accounts' \in [Emails -> Account \union {None}]
        /\ \A e \in Emails : Exists(e) => accounts'[e] = accounts[e]
    BY <1>2, <2>1, <2>2 DEF IInv, Shapes, Account, Exists
  <2>4. state \in {"aceito", "revogado"}
    OBVIOUS
  <2> HIDE DEF role, state
  <2>5. /\ invitations' \in [Invitations -> Invitation] /\ IssuedOK'
        /\ \A i \in Invitations : invitations[i].state # "ausente"
                                  => invitations'[i].state # "ausente"
    BY <2>1, <2>4, AnsweredShape, NamesAssumption DEF IInv, IssuedOK, LockedIssued
  <2> QED
    BY <2>1, <2>3, <2>5, Added
<1> QED
  BY <1>1, <1>2

LEMMA RevokeKeeps ==
  ASSUME IInv, NEW p \in Requests, Revoke(p)
  PROVE  IInv'
<1> DEFINE i == op[p].invitation
<1>1. CASE ~openInvitation(i)
  BY <1>1, Refused DEF Revoke
<1>2. CASE openInvitation(i)
  <2>1. /\ invitations' = [invitations EXCEPT ![i].state = "revogado"]
        /\ End(p) /\ accounts' = accounts
    BY <1>2 DEF Revoke
  <2>2. /\ invitations' \in [Invitations -> Invitation] /\ IssuedOK'
        /\ \A j \in Invitations : invitations[j].state # "ausente"
                                  => invitations'[j].state # "ausente"
    BY <1>2, <2>1 DEF IInv, Shapes, IssuedOK, Invitation, openInvitation
  <2> QED
    BY <2>1, <2>2, Added DEF IInv, Shapes
<1> QED
  BY <1>1, <1>2

LEMMA ExpiresKeeps ==
  ASSUME IInv, NEW i \in Invitations, Expires(i)
  PROVE  IInv'
<1>1. /\ invitations' = [invitations EXCEPT ![i].expired = TRUE]
      /\ accounts' = accounts /\ pc' = pc /\ op' = op /\ held' = held
  BY DEF Expires
<1>2. /\ invitations' \in [Invitations -> Invitation]
      /\ \A j \in Invitations : /\ invitations'[j].state = invitations[j].state
                               /\ invitations'[j].email = invitations[j].email
                               /\ invitations'[j].role = invitations[j].role
  BY <1>1 DEF IInv, Shapes, Invitation
<1>3. Shapes' /\ IssuedOK' /\ LockedIssued' /\ SomeoneAdministers'
  BY <1>1, <1>2 DEF IInv, Shapes, IssuedOK, LockedIssued, SomeoneAdministers, Administers,
                    Exists
<1>4. \A p \in Requests : HoldsOK(p)' /\ LeavesAnother(p)'
  <2> TAKE p \in Requests
  <2>1. LeavesAnother(p)'
    BY <1>1 DEF IInv, LeavesAnother, Administers, Exists
  <2>2. Asks(p, {"aceite"}) => op[p].invitation \in Invitations
    BY OpFields DEF IInv, Shapes, HoldsOK, Asks
  <2>3. HoldsOK(p)'
    BY <1>1, <1>2, <2>2 DEF IInv, HoldsOK, Asks, Exists
  <2> QED
    BY <2>1, <2>3
<1> QED
  BY <1>3, <1>4 DEF IInv

-----------------------------------------------------------------------------
(* The theorems.                                                           *)

LEMMA InitEstablishes == Init => IInv
<1> SUFFICES ASSUME Init PROVE IInv
  OBVIOUS
<1>1. Shapes
  BY DEF Init, Shapes, Account, ROLES, STAFF_ROLES, Invitation, Steps
<1>2. IssuedOK /\ LockedIssued
  BY DEF Init, IssuedOK, LockedIssued, Locks
<1>3. SomeoneAdministers
  <2> DEFINE founder == [role |-> "administrador", active |-> TRUE]
  <2>1. PICK e \in Founders : e \in Emails
    BY FoundersAssumption
  <2>2. founder \in Account
    BY DEF Account, ROLES, STAFF_ROLES
  <2>3. accounts[e] = founder
    BY <2>1 DEF Init
  <2>4. founder # None
    BY <2>2, NoneIsNoAccount
  <2>5. founder.role = "administrador" /\ founder.active = TRUE
    OBVIOUS
  <2> HIDE DEF founder
  <2>6. Administers(e)
    BY <2>3, <2>4, <2>5 DEF Administers, Exists
  <2> QED
    BY <2>1, <2>6 DEF SomeoneAdministers
<1>4. \A p \in Requests : HoldsOK(p) /\ LeavesAnother(p)
  BY DEF Init, HoldsOK, LeavesAnother, Asks
<1> QED
  BY <1>1, <1>2, <1>3, <1>4 DEF IInv

LEMMA StepKeeps == IInv /\ [Next]_vars => IInv'
<1> SUFFICES ASSUME IInv, [Next]_vars PROVE IInv'
  OBVIOUS
<1>1. CASE UNCHANGED vars
  BY <1>1 DEF vars, IInv, Shapes, IssuedOK, LockedIssued, HoldsOK, LeavesAnother,
              SomeoneAdministers, Administers, Exists, Asks
<1>2. ASSUME NEW p \in Requests, NEW o \in Asked, Start(p, o) PROVE IInv'
  BY <1>2, StartKeeps
<1>3. ASSUME NEW p \in Requests, Step(p) PROVE IInv'
  BY <1>3, LockAdminChangesKeeps, LockAccountKeeps, AssertAnotherActiveAdminKeeps,
     ChangeAccountKeeps, MarkAcceptedKeeps, EnsureEmailAvailableKeeps,
     RevokeOpenInvitationsKeeps, InsertInvitationKeeps, InsertAccountKeeps, RevokeKeeps
     DEF Step
<1>4. ASSUME NEW p \in Requests, Fail(p) PROVE IInv'
  BY <1>4, Refused DEF Fail
<1>5. ASSUME NEW i \in Invitations, Expires(i) PROVE IInv'
  BY <1>5, ExpiresKeeps
<1> QED
  BY <1>1, <1>2, <1>3, <1>4, <1>5 DEF Next

\* What is true of the tables, the locks and the requests in every reachable
\* state of the accounts and the invitations.
THEOREM Invariant == Spec => []IInv
  BY InitEstablishes, StepKeeps, PTL DEF Spec

\* The tables have their shapes, and a request that locked a row holds it.
THEOREM TypeCorrect == Spec => []TypeOK
<1>1. IInv => TypeOK
  <2> SUFFICES ASSUME IInv PROVE TypeOK
    OBVIOUS
  <2> QED
    BY DEF IInv, Shapes, HoldsOK, TypeOK
<1> QED
  BY <1>1, Invariant, PTL

\* Whatever changes of role and status, invitations and registrations run at
\* once, and however many, an active administrator remains.
THEOREM AlwaysSomeoneAdministers == Spec => []SomeoneAdministers
<1>1. IInv => SomeoneAdministers
  BY DEF IInv
<1> QED
  BY <1>1, Invariant, PTL

-----------------------------------------------------------------------------
(* Invitations: how they are numbered, locked and answered.                *)

\* Only an invitation without answer is locked.
LockedOpen ==
  \A i \in Invitations : held[i] # None => openInvitation(i)

\* They are issued in the order of their numbers.
IssuedInOrder ==
  /\ \A i, j \in Invitations :
       i < j /\ invitations[j].state # "ausente" => invitations[i].state # "ausente"
  /\ \A i \in Invitations : invitations[i].state = "ausente" => invitations[i].email = None

\* The one still open for an e-mail is the last one sent to it.
OpenIsLast ==
  \A i, j \in Invitations : i < j /\ openInvitation(i) =>
    invitations[j].email # invitations[i].email

InvitationsOK == LockedOpen /\ IssuedInOrder /\ OpenIsLast

\* What LastInvitationCounts says of a step.
AnswersAreFinal ==
  \A i \in Invitations :
    /\ invitations[i].state \in {"aceito", "revogado"} => invitations'[i] = invitations[i]
    /\ invitations[i].state = "aberto" /\ invitations'[i].state = "aceito" =>
         \A j \in Invitations : j > i => invitations'[j].email # invitations[i].email

LEMMA HasFirst ==
  ASSUME NEW S, S \subseteq Nat, S # {}
  PROVE  \E i \in S : \A j \in S : i <= j
<1>1. PICK R : R = OpToRel(<, Nat)
  OBVIOUS
<1>2. IsWellFoundedOn(R, Nat)
  BY <1>1, NatLessThanWellFounded
<1>3. PICK i \in S : \A j \in S : ~(<<j, i>> \in R)
  BY <1>2, WFMin
<1>4. \A j \in S : ~(j < i)
  <2> TAKE j \in S
  <2>1. <<j, i>> \in Nat \X Nat
    OBVIOUS
  <2>2. <<j, i>>[1] < <<j, i>>[2] => <<j, i>> \in R
    BY <1>1, <2>1 DEF OpToRel
  <2> QED
    BY <1>3, <2>2
<1> QED
  BY <1>4

\* A step that issues no invitation and answers only those that are open, or none.
LEMMA Answering ==
  ASSUME IInv, InvitationsOK,
         \A i \in Invitations :
           /\ invitations'[i].email = invitations[i].email
           /\ \/ invitations'[i] = invitations[i]
              \/ openInvitation(i) /\ invitations'[i].state # "ausente"
           /\ held'[i] # None => openInvitation(i) /\ invitations'[i].state = invitations[i].state
  PROVE  InvitationsOK' /\ AnswersAreFinal
<1>1. \A i \in Invitations : openInvitation(i)' => openInvitation(i)
  BY DEF openInvitation
<1>2. LockedOpen'
  BY DEF LockedOpen, openInvitation
<1>3. IssuedInOrder'
  BY DEF InvitationsOK, IssuedInOrder, openInvitation
<1>4. OpenIsLast'
  BY <1>1 DEF InvitationsOK, OpenIsLast
<1>5. AnswersAreFinal
  <2> SUFFICES ASSUME NEW i \in Invitations
               PROVE  /\ invitations[i].state \in {"aceito", "revogado"}
                           => invitations'[i] = invitations[i]
                      /\ invitations[i].state = "aberto" =>
                           \A j \in Invitations : j > i =>
                             invitations'[j].email # invitations[i].email
    BY DEF AnswersAreFinal
  <2>1. invitations[i].state \in {"aceito", "revogado"} => invitations'[i] = invitations[i]
    BY DEF openInvitation
  <2>2. ASSUME invitations[i].state = "aberto", NEW j \in Invitations, j > i
        PROVE  invitations'[j].email # invitations[i].email
    BY <2>2, InvitationsAssumption DEF InvitationsOK, OpenIsLast, openInvitation
  <2> QED
    BY <2>1, <2>2
<1> QED
  BY <1>2, <1>3, <1>4, <1>5 DEF InvitationsOK

\* The steps that leave the invitations alone lock those that are open, at most.
LEMMA LockingAnswers ==
  ASSUME IInv, InvitationsOK, invitations' = invitations,
         \A i \in Invitations : held'[i] # None => held[i] # None \/ openInvitation(i)
  PROVE  InvitationsOK' /\ AnswersAreFinal
<1>1. \A i \in Invitations :
        /\ invitations'[i].email = invitations[i].email
        /\ \/ invitations'[i] = invitations[i]
           \/ openInvitation(i) /\ invitations'[i].state # "ausente"
        /\ held'[i] # None => openInvitation(i) /\ invitations'[i].state = invitations[i].state
  BY DEF InvitationsOK, LockedOpen
<1> QED
  BY <1>1, Answering

LEMMA EndingAnswers ==
  ASSUME IInv, InvitationsOK, NEW p \in Requests, End(p), invitations' = invitations
  PROVE  InvitationsOK' /\ AnswersAreFinal
<1>1. \A i \in Invitations : held'[i] # None => held[i] # None
  BY DEF End, Locks
<1> QED
  BY <1>1, LockingAnswers

LEMMA TakingAnswers ==
  ASSUME IInv, InvitationsOK, NEW p \in Requests, NEW step, NEW taken,
         GoesOn(p, step), Holds(p, taken),
         \A i \in taken \intersect Invitations : openInvitation(i)
  PROVE  InvitationsOK' /\ AnswersAreFinal
<1>1. invitations' = invitations
  BY DEF GoesOn
<1>2. \A i \in Invitations : held'[i] # None => held[i] # None \/ openInvitation(i)
  BY DEF Holds, Locks
<1> QED
  BY <1>1, <1>2, LockingAnswers

\* The request answers all the invitations it holds.
LEMMA InsertAccountAnswers ==
  ASSUME IInv, InvitationsOK, NEW p \in Requests, InsertAccount(p)
  PROVE  InvitationsOK' /\ AnswersAreFinal
<1>1. CASE Exists(emailOf(p))
  BY <1>1, EndingAnswers DEF InsertAccount, Refuse
<1>2. CASE ~Exists(emailOf(p))
  <2>1. PICK state \in {"aceito", "revogado"} : invitations' = answered(p, state)
    BY <1>2 DEF InsertAccount
  <2>2. End(p)
    BY <1>2 DEF InsertAccount
  <2>3. \A i \in Invitations :
          /\ held'[i] = IF held[i] = p THEN None ELSE held[i]
          /\ held[i] # p => invitations'[i] = invitations[i]
          /\ invitations'[i].email = invitations[i].email
          /\ invitations'[i].state \in {state, invitations[i].state}
    BY <2>1, <2>2, AnsweredShape DEF End, Locks
  <2>4. p # None
    BY NamesAssumption
  <2>5. \A i \in Invitations :
          /\ invitations'[i].email = invitations[i].email
          /\ \/ invitations'[i] = invitations[i]
             \/ openInvitation(i) /\ invitations'[i].state # "ausente"
          /\ held'[i] # None => openInvitation(i) /\ invitations'[i].state = invitations[i].state
    BY <2>3, <2>4 DEF InvitationsOK, LockedOpen, openInvitation
  <2> QED
    BY <2>5, Answering
<1> QED
  BY <1>1, <1>2

LEMMA RevokeAnswers ==
  ASSUME IInv, InvitationsOK, NEW p \in Requests, Revoke(p)
  PROVE  InvitationsOK' /\ AnswersAreFinal
<1> DEFINE i == op[p].invitation
<1>1. CASE ~openInvitation(i)
  BY <1>1, EndingAnswers DEF Revoke, Refuse
<1>2. CASE openInvitation(i)
  <2>1. /\ held[i] = None /\ End(p)
        /\ invitations' = [invitations EXCEPT ![i].state = "revogado"]
    BY <1>2 DEF Revoke
  <2> HIDE DEF i
  <2>2. \A j \in Invitations :
          /\ j # i => invitations'[j] = invitations[j]
          /\ invitations'[j].email = invitations[j].email
          /\ j = i => invitations'[j].state = "revogado"
    BY <2>1 DEF IInv, Shapes, Invitation
  <2>3. \A j \in Invitations : held'[j] # None => held[j] # None
    BY <2>1 DEF End, Locks
  <2>4. \A j \in Invitations :
          /\ invitations'[j].email = invitations[j].email
          /\ \/ invitations'[j] = invitations[j]
             \/ openInvitation(j) /\ invitations'[j].state # "ausente"
          /\ held'[j] # None => openInvitation(j) /\ invitations'[j].state = invitations[j].state
    BY <1>2, <2>1, <2>2, <2>3 DEF InvitationsOK, LockedOpen
  <2> QED
    BY <2>4, Answering
<1> QED
  BY <1>1, <1>2

LEMMA ExpiresAnswers ==
  ASSUME IInv, InvitationsOK, NEW i \in Invitations, Expires(i)
  PROVE  InvitationsOK' /\ AnswersAreFinal
<1>1. /\ openInvitation(i) /\ held' = held
      /\ invitations' = [invitations EXCEPT ![i].expired = TRUE]
  BY DEF Expires
<1>2. \A j \in Invitations :
        /\ invitations'[j].email = invitations[j].email
        /\ invitations'[j].state = invitations[j].state
        /\ j # i => invitations'[j] = invitations[j]
  BY <1>1 DEF IInv, Shapes, Invitation
<1>3. \A j \in Invitations :
        /\ invitations'[j].email = invitations[j].email
        /\ \/ invitations'[j] = invitations[j]
           \/ openInvitation(j) /\ invitations'[j].state # "ausente"
        /\ held'[j] # None => openInvitation(j) /\ invitations'[j].state = invitations[j].state
  BY <1>1, <1>2 DEF InvitationsOK, LockedOpen, openInvitation
<1> QED
  BY <1>3, Answering

\* The new invitation is the last one, and those it replaces are revoked with it.
LEMMA InsertInvitationAnswers ==
  ASSUME IInv, InvitationsOK, NEW p \in Requests, InsertInvitation(p)
  PROVE  InvitationsOK' /\ AnswersAreFinal
<1> DEFINE next == CHOOSE i \in Absent : \A j \in Absent : i <= j
           row  == [ state |-> "aberto", email |-> op[p].on, role |-> op[p].role,
                     expired |-> FALSE ]
<1>1. CASE ~ \A i \in OpenFor(op[p].on) : held[i] = p
  BY <1>1, EndingAnswers DEF InsertInvitation, Refuse
<1>2. CASE \A i \in OpenFor(op[p].on) : held[i] = p
  <2>1. /\ Asks(p, {"convite"}) /\ Absent # {} /\ End(p)
        /\ invitations' = [answered(p, "revogado") EXCEPT ![next] = row]
    BY <1>2 DEF InsertInvitation
  <2>2. next \in Absent /\ \A j \in Absent : next <= j
    <3>1. Absent \subseteq Nat
      BY InvitationsAssumption DEF Absent
    <3>2. \E i \in Absent : \A j \in Absent : i <= j
      BY <2>1, <3>1, HasFirst
    <3> QED
      BY <3>2
  <2>3. row.state = "aberto" /\ row.email = op[p].on
    OBVIOUS
  <2>4. op[p].on # None
    <3>1. op[p] \in Asked
      BY <2>1 DEF IInv, Shapes, HoldsOK, Asks
    <3> QED
      BY <2>1, <3>1, OpFields, NamesAssumption DEF Asks
  <2> HIDE DEF next, row
  <2>5. next \in Invitations /\ invitations[next].state = "ausente" /\ held[next] = None
    BY <2>2 DEF Absent, InvitationsOK, LockedOpen, openInvitation
  <2>6. /\ invitations'[next] = row
        /\ \A i \in Invitations \ {next} :
             /\ held[i] # p => invitations'[i] = invitations[i]
             /\ invitations'[i].email = invitations[i].email
             /\ held[i] = p => invitations'[i].state = "revogado"
    <3>1. answered(p, "revogado") \in [Invitations -> Invitation]
      BY AnsweredShape
    <3>2. /\ invitations'[next] = row
          /\ \A i \in Invitations \ {next} : invitations'[i] = answered(p, "revogado")[i]
      BY <2>1, <2>5, <3>1
    <3>3. \A i \in Invitations : held[i] = p => answered(p, "revogado")[i].state = "revogado"
      BY DEF answered, IInv, Shapes, Invitation
    <3> QED
      BY <3>2, <3>3, AnsweredShape
  <2>7. \A i \in Invitations : held'[i] = IF held[i] = p THEN None ELSE held[i]
    BY <2>1 DEF End, Locks
  <2>8. \A i \in Invitations : openInvitation(i)' =>
          i = next \/ (openInvitation(i) /\ invitations[i].email # op[p].on)
    BY <1>2, <2>6 DEF openInvitation, OpenFor
  <2>9. \A j \in Invitations : j > next =>
          invitations[j].state = "ausente" /\ invitations[j].email = None
    BY <2>5, InvitationsAssumption DEF InvitationsOK, IssuedInOrder
  <2>10. LockedOpen'
    <3> SUFFICES ASSUME NEW i \in Invitations, held'[i] # None PROVE openInvitation(i)'
      BY DEF LockedOpen
    <3>1. held[i] # None /\ held[i] # p
      BY <2>7
    <3> QED
      BY <2>5, <2>6, <3>1 DEF InvitationsOK, LockedOpen, openInvitation
  <2>11. IssuedInOrder'
    <3>1. \A i \in Invitations : invitations[i].state # "ausente" =>
            invitations'[i].state # "ausente"
      BY <2>3, <2>6
    <3>2. \A i \in Invitations \ {next} : invitations'[i].state = "ausente" =>
            invitations[i].state = "ausente"
      BY <2>6 DEF InvitationsOK, LockedOpen, openInvitation
    <3>3. \A i \in Invitations : i < next => invitations'[i].state # "ausente"
      <4> SUFFICES ASSUME NEW i \in Invitations, i < next
                   PROVE  invitations[i].state # "ausente"
        BY <3>1
      <4>1. i \in Nat /\ next \in Nat
        BY <2>5, InvitationsAssumption
      <4>2. ~(next <= i)
        BY <4>1
      <4>3. i \notin Absent
        BY <2>2, <4>2
      <4> QED
        BY <4>3 DEF Absent
    <3>4. \A i \in Invitations : invitations'[i].state = "ausente" => invitations'[i].email = None
      BY <2>3, <2>6, <3>2 DEF InvitationsOK, IssuedInOrder
    <3>5. ASSUME NEW i \in Invitations, NEW j \in Invitations, i < j,
                 invitations'[j].state # "ausente"
          PROVE  invitations'[i].state # "ausente"
      <4>1. CASE j = next
        BY <3>3, <3>5, <4>1
      <4>2. CASE j # next
        <5>1. invitations[j].state # "ausente"
          <6>1. CASE held[j] = p
            BY <6>1, NamesAssumption DEF IInv, LockedIssued
          <6>2. CASE held[j] # p
            BY <2>6, <3>5, <4>2, <6>2
          <6> QED
            BY <6>1, <6>2
        <5> QED
          BY <3>1, <3>5, <5>1 DEF InvitationsOK, IssuedInOrder
      <4> QED
        BY <4>1, <4>2
    <3> QED
      BY <3>4, <3>5 DEF IssuedInOrder
  <2>12. OpenIsLast'
    <3> SUFFICES ASSUME NEW i \in Invitations, NEW j \in Invitations, i < j,
                        openInvitation(i)'
                 PROVE  invitations'[j].email # invitations'[i].email
      BY DEF OpenIsLast
    <3>1. CASE i = next
      <4>1. j # next /\ j > next
        BY <2>5, <3>1, InvitationsAssumption
      <4>2. invitations'[j].email = None
        BY <2>6, <2>9, <4>1
      <4> QED
        BY <2>3, <2>4, <2>6, <3>1, <4>2
    <3>2. CASE i # next
      <4>1. openInvitation(i) /\ invitations[i].email # op[p].on
        BY <2>8, <3>2
      <4>2. CASE j = next
        BY <2>3, <2>6, <3>2, <4>1, <4>2
      <4>3. CASE j # next
        BY <2>6, <3>2, <4>1, <4>3 DEF InvitationsOK, OpenIsLast
      <4> QED
        BY <4>2, <4>3
    <3> QED
      BY <3>1, <3>2
  <2>13. AnswersAreFinal
    <3>1. \A i \in Invitations : invitations[i].state \in {"aceito", "revogado"} =>
            i # next /\ held[i] # p
      BY <2>5, NamesAssumption DEF InvitationsOK, LockedOpen, openInvitation
    <3>2. \A i \in Invitations : invitations[i].state = "aberto" => invitations'[i].state # "aceito"
      BY <2>5, <2>6
    <3> QED
      BY <2>6, <3>1, <3>2 DEF AnswersAreFinal
  <2> QED
    BY <2>10, <2>11, <2>12, <2>13 DEF InvitationsOK
<1> QED
  BY <1>1, <1>2

\* The steps of requests that issue and answer nothing.
LEMMA OtherStepsAnswer ==
  ASSUME IInv, InvitationsOK, NEW p \in Requests,
         \/ LockAdminChanges(p) \/ LockAccount(p) \/ AssertAnotherActiveAdmin(p)
         \/ ChangeAccount(p) \/ MarkAccepted(p) \/ EnsureEmailAvailable(p)
         \/ RevokeOpenInvitations(p) \/ Fail(p)
  PROVE  InvitationsOK' /\ AnswersAreFinal
<1>1. CASE LockAdminChanges(p)
  <2>1. {ADMIN_CHANGES_LOCK} \intersect Invitations = {}
    BY NamesAssumption
  <2> QED
    BY <1>1, <2>1, TakingAnswers DEF LockAdminChanges
<1>2. CASE LockAccount(p)
  <2>1. Asks(p, {"papel", "desativar", "reativar"}) /\ op[p] \in Asked
    BY <1>2 DEF LockAccount, Asks, IInv, Shapes, HoldsOK
  <2>2. {op[p].on} \intersect Invitations = {}
    BY <2>1, OpFields, NamesAssumption DEF Asks
  <2>3. CASE changes(op[p])
    BY <1>2, <2>2, <2>3, TakingAnswers DEF LockAccount
  <2>4. CASE ~changes(op[p])
    BY <1>2, <2>4, EndingAnswers DEF LockAccount, Refuse
  <2> QED
    BY <2>3, <2>4
<1>3. CASE AssertAnotherActiveAdmin(p)
  <2>1. \/ GoesOn(p, "conferiu") /\ UNCHANGED held
        \/ Refuse(p)
    BY <1>3 DEF AssertAnotherActiveAdmin
  <2> QED
    BY <2>1, NothingTaken, TakingAnswers, EndingAnswers DEF Refuse, IInv
<1>4. CASE ChangeAccount(p)
  BY <1>4, EndingAnswers DEF ChangeAccount
<1>5. CASE MarkAccepted(p)
  <2>1. \/ openInvitation(op[p].invitation) /\ Holds(p, {op[p].invitation}) /\ GoesOn(p, "marcou")
        \/ Refuse(p)
    BY <1>5 DEF MarkAccepted
  <2> QED
    BY <2>1, TakingAnswers, EndingAnswers DEF Refuse
<1>6. CASE EnsureEmailAvailable(p)
  <2>1. \/ GoesOn(p, "disponivel") /\ UNCHANGED held
        \/ Refuse(p)
    BY <1>6 DEF EnsureEmailAvailable
  <2> QED
    BY <2>1, NothingTaken, TakingAnswers, EndingAnswers DEF Refuse, IInv
<1>7. CASE RevokeOpenInvitations(p)
  <2>1. \A i \in OpenFor(emailOf(p)) : openInvitation(i)
    BY DEF OpenFor
  <2> QED
    BY <1>7, <2>1, TakingAnswers DEF RevokeOpenInvitations
<1>8. CASE Fail(p)
  BY <1>8, EndingAnswers DEF Fail, Refuse
<1> QED
  BY <1>1, <1>2, <1>3, <1>4, <1>5, <1>6, <1>7, <1>8

LEMMA AnswersStep ==
  IInv /\ InvitationsOK /\ [Next]_vars => InvitationsOK' /\ [AnswersAreFinal]_vars
<1> SUFFICES ASSUME IInv, InvitationsOK, [Next]_vars
             PROVE  InvitationsOK' /\ AnswersAreFinal
  OBVIOUS
<1>1. CASE UNCHANGED vars
  BY <1>1, LockingAnswers DEF vars
<1>2. ASSUME NEW p \in Requests, NEW o \in Asked, Start(p, o)
      PROVE  InvitationsOK' /\ AnswersAreFinal
  BY <1>2, LockingAnswers DEF Start
<1>3. ASSUME NEW p \in Requests, Step(p) \/ Fail(p) PROVE InvitationsOK' /\ AnswersAreFinal
  BY <1>3, OtherStepsAnswer, InsertInvitationAnswers, InsertAccountAnswers, RevokeAnswers
     DEF Step
<1>4. ASSUME NEW i \in Invitations, Expires(i) PROVE InvitationsOK' /\ AnswersAreFinal
  BY <1>4, ExpiresAnswers
<1> QED
  BY <1>1, <1>2, <1>3, <1>4 DEF Next

\* However many requests issue, replace, revoke and accept invitations at once,
\* an answer is final, and only the last one sent to an e-mail can be accepted.
THEOREM OnlyTheLastIsAccepted == Spec => LastInvitationCounts
<1>1. Init => InvitationsOK
  BY DEF Init, InvitationsOK, LockedOpen, IssuedInOrder, OpenIsLast, openInvitation, Locks
<1>2. [AnswersAreFinal]_vars =>
        [\A i \in Invitations :
           /\ invitations[i].state \in {"aceito", "revogado"} => invitations'[i] = invitations[i]
           /\ invitations[i].state = "aberto" /\ invitations'[i].state = "aceito" =>
                \A j \in Invitations : j > i => invitations'[j].email # invitations[i].email]_vars
  BY DEF AnswersAreFinal
<1> QED
  BY <1>1, <1>2, AnswersStep, Invariant, PTL DEF Spec, LastInvitationCounts

=============================================================================
