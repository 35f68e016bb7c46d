-------------------------- MODULE CredentialsProofs --------------------------
(***************************************************************************)
(* What Credentials keeps true for any number of requests, sessions, links *)
(* and passwords.  A login relies on what it verified before its           *)
(* transaction, a request for a link on the row lock of the account, and a *)
(* reset on the row lock of its link.                                      *)
(***************************************************************************)
EXTENDS Credentials, FiniteSetTheorems, TLAPS

Steps == { "parado", "pediu", "conferiu", "conferiu_antiga", "bloqueou", "consumiu" }

SessionRow ==
  [ state : {"ausente", "aberta", "encerrada"}, proved : Passwords \union {None},
    late : BOOLEAN ]

TokenRow ==
  [ state : {"ausente", "valido", "vencido", "apagado", "usado"}, recent : BOOLEAN ]

TypeOK ==
  /\ account \in Account
  /\ sessions \in [Sessions -> SessionRow]
  /\ tokens \in [Tokens -> TokenRow]
  /\ pc \in [Requests -> Steps]
  /\ op \in [Requests -> Ops \union {None}]
  /\ \A p \in Requests : pc[p] # "parado" => op[p] \in Ops
  /\ held \in [Tokens \union {"conta"} -> Requests \union {None}]
  /\ overtaken \in SUBSET Requests
  /\ overwritten \in BOOLEAN
  /\ resets \in [Tokens -> Nat]

\* A verified login that nothing overtook can still be relied on: the account
\* is active, and has the password verified unless another login put back an
\* older one.
LoginOK(p) ==
  p \in LoginsInProgress \ overtaken =>
    /\ account.status = "ativa"
    /\ ~overwritten => op[p].password = account.password

SessionOK(s) ==
  sessions[s].state = "aberta" /\ ~sessions[s].late =>
    /\ account.status = "ativa"
    /\ ~overwritten => sessions[s].proved = account.password

\* A request for a link holds the account from its select on, and once it has
\* looked there is no recent link.
RequestOK(p) ==
  /\ Asks(p, "pedido") /\ pc[p] \in {"bloqueou", "conferiu"} => held["conta"] = p
  /\ Asks(p, "pedido") /\ pc[p] = "conferiu" => \A t \in Unused : ~tokens[t].recent

\* A reset holds the link it consumed, which nothing takes back meanwhile.
ResetOK(p) ==
  Asks(p, "redefinicao") /\ pc[p] = "consumiu" =>
    held[op[p].token] = p /\ op[p].token \in Unused

OneValid ==
  \A t, u \in Tokens : tokens[t].state = "valido" /\ tokens[u].state = "valido" => t = u

UsesCounted ==
  \A t \in Tokens : resets[t] = IF tokens[t].state = "usado" THEN 1 ELSE 0

IInv ==
  /\ TypeOK
  /\ \A p \in Requests : LoginOK(p) /\ RequestOK(p) /\ ResetOK(p)
  /\ \A s \in Sessions : SessionOK(s)
  /\ OneValid
  /\ UsesCounted

-----------------------------------------------------------------------------
(* Requests while another one takes a step.                                *)

LEMMA OpFields ==
  ASSUME NEW o \in Ops
  PROVE  /\ o.kind \in {"login", "troca", "pedido", "redefinicao"}
         /\ o.kind = "login" => o.password \in Passwords
         /\ o.kind = "troca" => o.session \in Sessions /\ o.new \in Passwords
         /\ o.kind = "redefinicao" => o.token \in Tokens /\ o.new \in Passwords
  BY DEF Ops

\* The request goes on where it was, with the locks it had.
Waits(p) ==
  /\ pc'[p] = pc[p] /\ op'[p] = op[p]
  /\ \A row \in Tokens \union {"conta"} : held[row] = p => held'[row] = p

RequestTypes ==
  /\ pc \in [Requests -> Steps]
  /\ op \in [Requests -> Ops \union {None}]
  /\ \A p \in Requests : pc[p] # "parado" => op[p] \in Ops
  /\ held \in [Tokens \union {"conta"} -> Requests \union {None}]

LEMMA EndFacts ==
  ASSUME TypeOK, NEW p \in Requests, End(p)
  PROVE  /\ RequestTypes'
         /\ pc'[p] = "parado"
         /\ \A q \in Requests \ {p} : Waits(q)
<1>1. /\ pc' \in [Requests -> Steps] /\ op' \in [Requests -> Ops \union {None}]
      /\ pc'[p] = "parado"
      /\ \A q \in Requests \ {p} : pc'[q] = pc[q] /\ op'[q] = op[q]
  BY DEF TypeOK, End, Steps
<1>2. /\ held' \in [Tokens \union {"conta"} -> Requests \union {None}]
      /\ \A row \in Tokens \union {"conta"} :
           held'[row] = IF held[row] = p THEN None ELSE held[row]
  BY DEF TypeOK, End
<1>3. \A q \in Requests : pc'[q] # "parado" => op'[q] \in Ops
  BY <1>1 DEF TypeOK
<1>4. \A q \in Requests \ {p} : Waits(q)
  BY <1>1, <1>2 DEF Waits
<1> QED
  BY <1>1, <1>2, <1>3, <1>4 DEF RequestTypes

\* A step that stays inside the request and changes no table.
LEMMA GoesOnFacts ==
  ASSUME TypeOK, NEW p \in Requests, NEW step \in Steps \ {"parado"}, pc[p] # "parado",
         GoesOn(p, step),
         held' \in [Tokens \union {"conta"} -> Requests \union {None}],
         \A row \in Tokens \union {"conta"}, q \in Requests : held[row] = q => held'[row] = q
  PROVE  /\ TypeOK'
         /\ pc'[p] = step /\ op'[p] = op[p]
         /\ \A q \in Requests \ {p} : Waits(q)
<1>1. /\ pc' \in [Requests -> Steps]
      /\ pc'[p] = step
      /\ \A q \in Requests \ {p} : pc'[q] = pc[q]
  BY DEF TypeOK, GoesOn
<1>2. TypeOK'
  BY <1>1 DEF TypeOK, GoesOn, tables, notes
<1>3. \A q \in Requests : op'[q] = op[q]
  BY DEF GoesOn
<1> QED
  BY <1>1, <1>2, <1>3 DEF Waits

LEMMA LoginKept ==
  ASSUME NEW p \in Requests, LoginOK(p), Waits(p), account' = account,
         overwritten' = overwritten, p \in overtaken => p \in overtaken'
  PROVE  LoginOK(p)'
  BY DEF LoginOK, LoginsInProgress, Asks, Verified, Waits

LEMMA RequestKept ==
  ASSUME NEW p \in Requests, RequestOK(p), Waits(p),
         \A t \in Unused' : tokens'[t].recent => t \in Unused /\ tokens[t].recent
  PROVE  RequestOK(p)'
  BY DEF RequestOK, Asks, Waits

LEMMA ResetKept ==
  ASSUME TypeOK, NEW p \in Requests, ResetOK(p), Waits(p),
         \A t \in Unused : held[t] = p => t \in Unused'
  PROVE  ResetOK(p)'
<1>1. CASE Asks(p, "redefinicao") /\ pc[p] = "consumiu"
  <2>1. op[p].token \in Tokens
    BY <1>1, OpFields DEF TypeOK, Asks
  <2> QED
    BY <1>1, <2>1 DEF ResetOK, Asks, Waits
<1>2. CASE ~(Asks(p, "redefinicao") /\ pc[p] = "consumiu")
  BY <1>2 DEF ResetOK, Asks, Waits
<1> QED
  BY <1>1, <1>2

\* A request that ended has nothing to keep.
LEMMA EndedOK ==
  ASSUME NEW p \in Requests, pc'[p] = "parado"
  PROVE  LoginOK(p)' /\ RequestOK(p)' /\ ResetOK(p)'
  BY DEF LoginOK, RequestOK, ResetOK, LoginsInProgress, Asks

\* What is said of the tables alone.
TablesOK ==
  /\ \A s \in Sessions : SessionOK(s)
  /\ OneValid
  /\ UsesCounted

LEMMA TablesKept ==
  ASSUME TablesOK, UNCHANGED << tables, notes >>
  PROVE  TablesOK'
  BY DEF TablesOK, SessionOK, OneValid, UsesCounted, tables, notes

LEMMA RefuseInv ==
  ASSUME IInv, NEW p \in Requests, Refuse(p)
  PROVE  IInv'
<1>1. /\ RequestTypes' /\ pc'[p] = "parado"
      /\ \A q \in Requests \ {p} : Waits(q)
  BY EndFacts DEF IInv, Refuse
<1>2. TypeOK'
  BY <1>1 DEF IInv, TypeOK, RequestTypes, Refuse, tables, notes
<1>3. TablesOK'
  BY TablesKept DEF IInv, TablesOK, Refuse
<1>4. ASSUME NEW q \in Requests \ {p}
      PROVE  LoginOK(q)' /\ RequestOK(q)' /\ ResetOK(q)'
  <2>1. /\ account' = account /\ tokens' = tokens /\ overwritten' = overwritten
        /\ q \in overtaken => q \in overtaken'
        /\ Unused' = Unused
    BY DEF Refuse, tables, notes, Unused
  <2> QED
    BY <1>1, <2>1, LoginKept, RequestKept, ResetKept DEF IInv
<1> QED
  BY <1>1, <1>2, <1>3, <1>4, EndedOK DEF IInv, TablesOK

-----------------------------------------------------------------------------
(* Logins and changes of password.                                         *)

LEMMA StartInv ==
  ASSUME IInv, NEW p \in Requests, NEW o \in Asked, Start(p, o)
  PROVE  IInv'
<1>1. /\ o \in Ops /\ pc'[p] = "pediu" /\ op'[p] = o
      /\ \A q \in Requests \ {p} : Waits(q)
      /\ UNCHANGED << tables, held, overtaken, notes >>
  BY CredentialsAssumption DEF Start, IInv, TypeOK, Waits
<1>2. TypeOK'
  BY <1>1 DEF IInv, TypeOK, Start, Steps, tables, notes
<1>3. TablesOK'
  BY <1>1, TablesKept DEF IInv, TablesOK
<1>4. LoginOK(p)' /\ RequestOK(p)' /\ ResetOK(p)'
  BY <1>1 DEF LoginOK, RequestOK, ResetOK, LoginsInProgress, Verified
<1>5. ASSUME NEW q \in Requests \ {p}
      PROVE  LoginOK(q)' /\ RequestOK(q)' /\ ResetOK(q)'
  <2>1. /\ account' = account /\ tokens' = tokens /\ overwritten' = overwritten
        /\ overtaken' = overtaken /\ Unused' = Unused
    BY <1>1 DEF tables, notes, Unused
  <2> QED
    BY <1>1, <2>1, LoginKept, RequestKept, ResetKept DEF IInv
<1> QED
  BY <1>2, <1>3, <1>4, <1>5 DEF IInv, TablesOK

\* Whatever a request reads on its way, the others keep what they had.
LEMMA OthersOnTheWay ==
  ASSUME IInv, NEW p \in Requests, NEW step \in Steps \ {"parado"}, pc[p] # "parado",
         GoesOn(p, step),
         held' \in [Tokens \union {"conta"} -> Requests \union {None}],
         \A row \in Tokens \union {"conta"}, q \in Requests : held[row] = q => held'[row] = q,
         LoginOK(p)' /\ RequestOK(p)' /\ ResetOK(p)'
  PROVE  IInv'
<1>1. TypeOK' /\ \A q \in Requests \ {p} : Waits(q)
  BY GoesOnFacts DEF IInv
<1>2. TablesOK'
  BY TablesKept DEF IInv, TablesOK, GoesOn
<1>3. ASSUME NEW q \in Requests \ {p}
      PROVE  LoginOK(q)' /\ RequestOK(q)' /\ ResetOK(q)'
  <2>1. /\ account' = account /\ tokens' = tokens /\ overwritten' = overwritten
        /\ overtaken' = overtaken /\ Unused' = Unused
    BY DEF GoesOn, tables, notes, Unused
  <2> QED
    BY <1>1, <2>1, LoginKept, RequestKept, ResetKept DEF IInv
<1> QED
  BY <1>1, <1>2, <1>3 DEF IInv, TablesOK

LEMMA VerifyLoginInv ==
  ASSUME IInv, NEW p \in Requests, VerifyLogin(p)
  PROVE  IInv'
<1>1. CASE Refuse(p)
  BY <1>1, RefuseInv
<1>2. CASE ~Refuse(p)
  <2>1. PICK step \in {"conferiu", "conferiu_antiga"} : GoesOn(p, step)
    BY <1>2 DEF VerifyLogin
  <2>2. /\ op[p].kind = "login" /\ pc[p] = "pediu" /\ held' = held
        /\ op[p].password = account.password /\ account.status = "ativa"
    BY <1>2 DEF VerifyLogin, Asks
  <2>3. /\ step \in Steps \ {"parado"}
        /\ held' \in [Tokens \union {"conta"} -> Requests \union {None}]
    BY <2>2 DEF Steps, IInv, TypeOK
  <2>4. pc'[p] = step /\ op'[p] = op[p] /\ account' = account
    BY <2>1, <2>2, <2>3, GoesOnFacts DEF IInv, GoesOn, tables
  <2>5. LoginOK(p)' /\ RequestOK(p)' /\ ResetOK(p)'
    BY <2>2, <2>4 DEF LoginOK, RequestOK, ResetOK, Asks
  <2> QED
    BY <2>1, <2>2, <2>3, <2>5, OthersOnTheWay
<1> QED
  BY <1>1, <1>2

\* A login nothing overtook opens a session with the password of the account;
\* converting the hash, it changes that password only if another conversion did.
LEMMA SignInInv ==
  ASSUME IInv, NEW p \in Requests, SignIn(p)
  PROVE  IInv'
<1> DEFINE new == CHOOSE s \in NoSession : TRUE
           opened == [state |-> "aberta", proved |-> op[p].password, late |-> p \in overtaken]
<1>1. /\ p \in LoginsInProgress /\ op[p] \in Ops /\ op[p].kind = "login"
      /\ op[p].password \in Passwords
      /\ LoginOK(p)
  BY OpFields DEF SignIn, IInv, TypeOK, LoginsInProgress, Asks
<1>2. new \in Sessions
  BY DEF SignIn, NoSession
<1>3. /\ sessions' = [sessions EXCEPT ![new] = opened]
      /\ tokens' = tokens /\ resets' = resets /\ overtaken' = overtaken \ {p}
  BY DEF SignIn
<1> HIDE DEF new
<1>4. \/ UNCHANGED << account, overwritten >>
      \/ /\ account' = [account EXCEPT !.password = op[p].password, !.legacy = FALSE]
         /\ overwritten' = (overwritten \/ op[p].password # account.password)
  BY DEF SignIn, SetPassword
<1>5. /\ account' \in Account /\ account'.status = account.status
      /\ overwritten' \in BOOLEAN
      /\ ~overwritten' => ~overwritten /\ account'.password = account.password
  BY <1>1, <1>4 DEF IInv, TypeOK, Account
<1>6. /\ RequestTypes' /\ pc'[p] = "parado"
      /\ \A q \in Requests \ {p} : Waits(q)
  BY EndFacts DEF IInv, SignIn
<1>7. TypeOK'
  <2>1. opened \in SessionRow
    BY <1>1 DEF SessionRow
  <2>2. sessions' \in [Sessions -> SessionRow]
    BY <1>3, <2>1 DEF IInv, TypeOK
  <2> QED
    BY <1>3, <1>5, <1>6, <2>2 DEF IInv, TypeOK, RequestTypes
<1>8. ASSUME NEW s \in Sessions
      PROVE  SessionOK(s)'
  <2>1. CASE s = new
    BY <1>1, <1>2, <1>3, <1>5, <2>1 DEF SessionOK, LoginOK, IInv, TypeOK
  <2>2. CASE s # new
    BY <1>3, <1>5, <2>2 DEF SessionOK, IInv, TypeOK
  <2> QED
    BY <2>1, <2>2
<1>9. OneValid' /\ UsesCounted'
  BY <1>3 DEF IInv, OneValid, UsesCounted
<1>10. ASSUME NEW q \in Requests \ {p}
       PROVE  LoginOK(q)' /\ RequestOK(q)' /\ ResetOK(q)'
  <2>1. Unused' = Unused /\ tokens' = tokens
    BY <1>3 DEF Unused
  <2>2. LoginOK(q)'
    <3>1. LoginOK(q) /\ Waits(q) /\ (q \in overtaken => q \in overtaken')
      BY <1>3, <1>6 DEF IInv
    <3> QED
      BY <1>5, <3>1 DEF LoginOK, LoginsInProgress, Asks, Verified, Waits
  <2> QED
    BY <1>6, <2>1, <2>2, RequestKept, ResetKept DEF IInv
<1> QED
  BY <1>6, <1>7, <1>8, <1>9, <1>10, EndedOK DEF IInv

LEMMA VerifyCurrentInv ==
  ASSUME IInv, NEW p \in Requests, VerifyCurrent(p)
  PROVE  IInv'
<1>1. CASE Refuse(p)
  BY <1>1, RefuseInv
<1>2. CASE ~Refuse(p)
  <2>1. /\ op[p].kind = "troca" /\ pc[p] = "pediu" /\ held' = held
        /\ GoesOn(p, "conferiu")
    BY <1>2 DEF VerifyCurrent, Asks
  <2>2. /\ "conferiu" \in Steps \ {"parado"}
        /\ held' \in [Tokens \union {"conta"} -> Requests \union {None}]
    BY <2>1 DEF Steps, IInv, TypeOK
  <2>3. pc'[p] = "conferiu" /\ op'[p] = op[p]
    BY <2>1, <2>2, GoesOnFacts DEF IInv
  <2>4. LoginOK(p)' /\ RequestOK(p)' /\ ResetOK(p)'
    BY <2>1, <2>3 DEF LoginOK, RequestOK, ResetOK, LoginsInProgress, Asks
  <2> QED
    BY <2>1, <2>2, <2>4, OthersOnTheWay
<1> QED
  BY <1>1, <1>2

LEMMA Revoked ==
  ASSUME TypeOK, NEW except
  PROVE  /\ revokeAll(except) \in [Sessions -> SessionRow]
         /\ \A s \in Sessions \ {except} : revokeAll(except)[s].state # "aberta"
<1>1. ASSUME NEW s \in Sessions
      PROVE  /\ revokeAll(except)[s] \in SessionRow
             /\ s # except => revokeAll(except)[s].state # "aberta"
  <2>1. sessions[s] \in SessionRow
    BY DEF TypeOK
  <2>2. CASE sessions[s].state = "aberta" /\ s # except
    <3>1. revokeAll(except)[s] = [sessions[s] EXCEPT !.state = "encerrada"]
      BY <2>2 DEF revokeAll
    <3> QED
      BY <2>1, <3>1 DEF SessionRow
  <2>3. CASE ~(sessions[s].state = "aberta" /\ s # except)
    BY <2>1, <2>3 DEF revokeAll
  <2> QED
    BY <2>2, <2>3
<1> QED
  BY <1>1 DEF revokeAll

\* Every login in progress is overtaken: it has nothing to keep.
LEMMA OvertakenOK ==
  ASSUME NEW p \in Requests, Waits(p), overtaken' = LoginsInProgress
  PROVE  LoginOK(p)'
  BY DEF LoginOK, LoginsInProgress, Asks, Verified, Waits

LEMMA ChangePasswordInv ==
  ASSUME IInv, NEW p \in Requests, ChangePassword(p)
  PROVE  IInv'
<1> DEFINE mine == op[p].session
<1>1. op[p] \in Ops /\ mine \in Sessions /\ op[p].new \in Passwords
  BY OpFields DEF ChangePassword, IInv, TypeOK, Asks
<1>2. /\ account' = [account EXCEPT !.password = op[p].new, !.legacy = FALSE]
      /\ overwritten' = FALSE
      /\ sessions' = [revokeAll(mine) EXCEPT ![mine].proved = op[p].new]
      /\ overtaken' = LoginsInProgress /\ tokens' = tokens /\ resets' = resets
  BY DEF ChangePassword, SetPassword
<1>3. /\ account' \in Account /\ account'.status = account.status
      /\ account'.password = op[p].new
  BY <1>1, <1>2 DEF IInv, TypeOK, Account
<1>4. /\ revokeAll(mine) \in [Sessions -> SessionRow]
      /\ \A s \in Sessions \ {mine} : revokeAll(mine)[s].state # "aberta"
      /\ revokeAll(mine)[mine] = sessions[mine]
  <2>1. revokeAll(mine)[mine] = sessions[mine]
    BY <1>1 DEF revokeAll
  <2> QED
    BY <2>1, Revoked DEF IInv
<1>5. /\ RequestTypes' /\ pc'[p] = "parado"
      /\ \A q \in Requests \ {p} : Waits(q)
  BY EndFacts DEF IInv, ChangePassword
<1>6. /\ sessions'[mine] = [sessions[mine] EXCEPT !.proved = op[p].new]
      /\ \A s \in Sessions \ {mine} : sessions'[s] = revokeAll(mine)[s]
  BY <1>1, <1>2, <1>4
<1>7. /\ sessions'[mine] \in SessionRow /\ sessions'[mine].proved = op[p].new
      /\ sessions'[mine].state = sessions[mine].state
      /\ sessions'[mine].late = sessions[mine].late
  BY <1>1, <1>6 DEF IInv, TypeOK, SessionRow
<1>8. TypeOK'
  <2>1. sessions' \in [Sessions -> SessionRow]
    BY <1>2, <1>4, <1>6, <1>7
  <2>2. overtaken' \in SUBSET Requests
    BY <1>2 DEF LoginsInProgress
  <2> QED
    BY <1>2, <1>3, <1>5, <2>1, <2>2 DEF IInv, TypeOK, RequestTypes
<1>9. ASSUME NEW s \in Sessions
      PROVE  SessionOK(s)'
  <2>1. CASE s = mine
    BY <1>1, <1>3, <1>7, <2>1 DEF IInv, SessionOK
  <2>2. CASE s # mine
    BY <1>4, <1>6, <2>2 DEF SessionOK
  <2> QED
    BY <2>1, <2>2
<1>10. OneValid' /\ UsesCounted'
  BY <1>2 DEF IInv, OneValid, UsesCounted
<1>11. ASSUME NEW q \in Requests \ {p}
       PROVE  LoginOK(q)' /\ RequestOK(q)' /\ ResetOK(q)'
  <2>1. Unused' = Unused /\ tokens' = tokens
    BY <1>2 DEF Unused
  <2> QED
    BY <1>2, <1>5, <2>1, OvertakenOK, RequestKept, ResetKept DEF IInv
<1> QED
  BY <1>5, <1>8, <1>9, <1>10, <1>11, EndedOK DEF IInv

-----------------------------------------------------------------------------
(* Links.                                                                  *)

LEMMA LockForResetInv ==
  ASSUME IInv, NEW p \in Requests, LockForReset(p)
  PROVE  IInv'
<1>1. CASE Refuse(p)
  BY <1>1, RefuseInv
<1>2. CASE ~Refuse(p)
  <2>1. /\ op[p].kind = "pedido" /\ pc[p] = "pediu"
        /\ held["conta"] = None /\ held' = [held EXCEPT !["conta"] = p]
        /\ GoesOn(p, "bloqueou")
    BY <1>2 DEF LockForReset, Asks, locksAccount
  <2>2. /\ "bloqueou" \in Steps \ {"parado"}
        /\ held' \in [Tokens \union {"conta"} -> Requests \union {None}]
        /\ \A row \in Tokens \union {"conta"}, q \in Requests : held[row] = q => held'[row] = q
        /\ held'["conta"] = p
    BY <2>1, CredentialsAssumption DEF Steps, IInv, TypeOK
  <2>3. pc'[p] = "bloqueou" /\ op'[p] = op[p]
    BY <2>1, <2>2, GoesOnFacts DEF IInv
  <2>4. LoginOK(p)' /\ RequestOK(p)' /\ ResetOK(p)'
    BY <2>1, <2>2, <2>3 DEF LoginOK, RequestOK, ResetOK, LoginsInProgress, Asks
  <2> QED
    BY <2>1, <2>2, <2>4, OthersOnTheWay
<1> QED
  BY <1>1, <1>2

LEMMA IssuedWithinInv ==
  ASSUME IInv, NEW p \in Requests, IssuedWithin(p)
  PROVE  IInv'
<1>1. CASE Refuse(p)
  BY <1>1, RefuseInv
<1>2. CASE ~Refuse(p)
  <2>1. /\ op[p].kind = "pedido" /\ pc[p] = "bloqueou" /\ held' = held
        /\ \A t \in Unused : ~tokens[t].recent
        /\ GoesOn(p, "conferiu")
    BY <1>2 DEF IssuedWithin, Asks
  <2>2. /\ "conferiu" \in Steps \ {"parado"}
        /\ held' \in [Tokens \union {"conta"} -> Requests \union {None}]
    BY <2>1 DEF Steps, IInv, TypeOK
  <2>3. pc'[p] = "conferiu" /\ op'[p] = op[p] /\ tokens' = tokens /\ Unused' = Unused
    BY <2>1, <2>2, GoesOnFacts DEF IInv, GoesOn, tables, Unused
  <2>4. held["conta"] = p
    BY <2>1 DEF IInv, RequestOK, Asks
  <2>5. LoginOK(p)' /\ RequestOK(p)' /\ ResetOK(p)'
    BY <2>1, <2>3, <2>4 DEF LoginOK, RequestOK, ResetOK, LoginsInProgress, Asks
  <2> QED
    BY <2>1, <2>2, <2>5, OthersOnTheWay
<1> QED
  BY <1>1, <1>2

\* The links that go were not used, and nobody is using them; no other request
\* is past its look at them, because this one holds the account.
LEMMA IssueInv ==
  ASSUME IInv, NEW p \in Requests, Issue(p)
  PROVE  IInv'
<1> DEFINE new == CHOOSE t \in NoToken : TRUE
<1>1. /\ new \in Tokens /\ tokens[new].state = "ausente"
      /\ Asks(p, "pedido") /\ pc[p] = "conferiu"
      /\ \A t \in Unused : held[t] = None
      /\ UNCHANGED << account, sessions, overtaken, notes >>
  BY DEF Issue, NoToken
<1>2. tokens' = [t \in Tokens |->
        CASE t = new         -> [state |-> "valido", recent |-> TRUE]
          [] t \in replaced -> [state |-> "apagado", recent |-> FALSE]
          [] OTHER           -> tokens[t]]
  BY DEF Issue
<1> HIDE DEF new
<1>3. /\ tokens'[new] = [state |-> "valido", recent |-> TRUE]
      /\ \A t \in Unused : t # new /\ tokens'[t] = [state |-> "apagado", recent |-> FALSE]
      /\ \A t \in Tokens \ Unused : t # new => tokens'[t] = tokens[t]
  BY <1>1, <1>2 DEF replaced, Unused
<1>4. Unused' = {new}
  BY <1>1, <1>3 DEF Unused
<1>5. /\ RequestTypes' /\ pc'[p] = "parado"
      /\ \A q \in Requests \ {p} : Waits(q)
  BY EndFacts DEF IInv, Issue
<1>6. TypeOK'
  <2>1. tokens' \in [Tokens -> TokenRow]
    <3>1. [state |-> "valido", recent |-> TRUE] \in TokenRow
      BY DEF TokenRow
    <3>2. [state |-> "apagado", recent |-> FALSE] \in TokenRow
      BY DEF TokenRow
    <3>3. \A t \in Tokens : tokens'[t] \in TokenRow
      BY <1>3, <3>1, <3>2 DEF IInv, TypeOK
    <3> QED
      BY <1>2, <3>3
  <2> QED
    BY <1>1, <1>5, <2>1 DEF IInv, TypeOK, RequestTypes, notes
<1>7. \A s \in Sessions : SessionOK(s)'
  BY <1>1 DEF IInv, SessionOK, notes
<1>8. OneValid'
  BY <1>4 DEF OneValid, Unused
<1>9. UsesCounted'
  BY <1>1, <1>3 DEF IInv, UsesCounted, Unused, notes
<1>10. ASSUME NEW q \in Requests \ {p}
       PROVE  LoginOK(q)' /\ RequestOK(q)' /\ ResetOK(q)'
  <2>1. Waits(q)
    BY <1>5
  <2>2. LoginOK(q)'
    BY <1>1, <2>1, LoginKept DEF IInv, notes
  <2>3. RequestOK(q)'
    <3>1. held["conta"] = p
      BY <1>1 DEF IInv, RequestOK
    <3> QED
      BY <2>1, <3>1 DEF IInv, RequestOK, Asks, Waits
  <2>4. ResetOK(q)'
    <3>1. \A t \in Unused : held[t] # q
      BY <1>1, CredentialsAssumption
    <3> QED
      BY <2>1, <3>1, ResetKept DEF IInv
  <2> QED
    BY <2>2, <2>3, <2>4
<1> QED
  BY <1>5, <1>6, <1>7, <1>8, <1>9, <1>10, EndedOK DEF IInv

LEMMA ConsumeInv ==
  ASSUME IInv, NEW p \in Requests, Consume(p)
  PROVE  IInv'
<1>1. CASE Refuse(p)
  BY <1>1, RefuseInv
<1>2. CASE ~Refuse(p)
  <2>1. /\ op[p] \in Ops /\ op[p].kind = "redefinicao" /\ pc[p] = "pediu"
        /\ op[p].token \in Tokens
        /\ held[op[p].token] = None /\ held' = [held EXCEPT ![op[p].token] = p]
        /\ tokens[op[p].token].state = "valido"
        /\ GoesOn(p, "consumiu")
    BY <1>2, OpFields DEF Consume, Asks, consumable, IInv, TypeOK
  <2>2. /\ "consumiu" \in Steps \ {"parado"}
        /\ held' \in [Tokens \union {"conta"} -> Requests \union {None}]
        /\ \A row \in Tokens \union {"conta"}, q \in Requests : held[row] = q => held'[row] = q
        /\ held'[op[p].token] = p
    BY <2>1, CredentialsAssumption DEF Steps, IInv, TypeOK
  <2>3. pc'[p] = "consumiu" /\ op'[p] = op[p] /\ tokens' = tokens
    BY <2>1, <2>2, GoesOnFacts DEF IInv, GoesOn, tables
  <2>4. LoginOK(p)' /\ RequestOK(p)' /\ ResetOK(p)'
    BY <2>1, <2>2, <2>3 DEF LoginOK, RequestOK, ResetOK, LoginsInProgress, Asks, Unused
  <2> QED
    BY <2>1, <2>2, <2>4, OthersOnTheWay
<1> QED
  BY <1>1, <1>2

LEMMA ConfirmResetInv ==
  ASSUME IInv, NEW p \in Requests, ConfirmReset(p)
  PROVE  IInv'
<1> DEFINE mine == op[p].token
<1>1. CASE Refuse(p)
  BY <1>1, RefuseInv
<1>2. CASE ~Refuse(p)
  <2>1. /\ op[p] \in Ops /\ mine \in Tokens /\ op[p].new \in Passwords
        /\ held[mine] = p /\ mine \in Unused
    BY OpFields DEF ConfirmReset, IInv, TypeOK, ResetOK, Asks
  <2>2. /\ account.status = "ativa"
        /\ account' = [account EXCEPT !.password = op[p].new, !.legacy = FALSE]
        /\ overwritten' = FALSE
        /\ tokens' = [tokens EXCEPT ![mine] = [state |-> "usado", recent |-> FALSE]]
        /\ resets' = [resets EXCEPT ![mine] = resets[mine] + 1]
        /\ sessions' = revokeAll(None)
        /\ overtaken' = LoginsInProgress
        /\ End(p)
    BY <1>2 DEF ConfirmReset, SetPassword
  <2>3. account' \in Account
    BY <2>1, <2>2 DEF IInv, TypeOK, Account
  <2>4. /\ sessions' \in [Sessions -> SessionRow]
        /\ \A s \in Sessions : sessions'[s].state # "aberta"
    BY <2>2, Revoked, CredentialsAssumption DEF IInv
  <2>5. /\ RequestTypes' /\ pc'[p] = "parado"
        /\ \A q \in Requests \ {p} : Waits(q)
    BY <2>2, EndFacts DEF IInv
  <2>6. /\ tokens'[mine] = [state |-> "usado", recent |-> FALSE]
        /\ \A t \in Tokens \ {mine} : tokens'[t] = tokens[t]
        /\ resets'[mine] = resets[mine] + 1
        /\ \A t \in Tokens \ {mine} : resets'[t] = resets[t]
        /\ resets[mine] = 0
    BY <2>1, <2>2 DEF IInv, TypeOK, UsesCounted, Unused
  <2>7. TypeOK'
    <3>1. [state |-> "usado", recent |-> FALSE] \in TokenRow
      BY DEF TokenRow
    <3>2. tokens' \in [Tokens -> TokenRow]
      BY <2>2, <3>1 DEF IInv, TypeOK
    <3>3. resets' \in [Tokens -> Nat]
      <4>1. \A t \in Tokens : resets[t] + 1 \in Nat
        BY DEF IInv, TypeOK
      <4> QED
        BY <2>1, <2>2, <4>1 DEF IInv, TypeOK
    <3>4. overtaken' \in SUBSET Requests
      BY <2>2 DEF LoginsInProgress
    <3> QED
      BY <2>2, <2>3, <2>4, <2>5, <3>2, <3>3, <3>4 DEF TypeOK, RequestTypes
  <2>8. \A s \in Sessions : SessionOK(s)'
    BY <2>4 DEF SessionOK
  <2>9. OneValid' /\ UsesCounted'
    BY <2>6 DEF IInv, OneValid, UsesCounted
  <2>10. ASSUME NEW q \in Requests \ {p}
         PROVE  LoginOK(q)' /\ RequestOK(q)' /\ ResetOK(q)'
    <3>1. Unused' = Unused \ {mine}
      BY <2>6 DEF Unused
    <3>2. LoginOK(q)'
      BY <2>2, <2>5, OvertakenOK
    <3>3. RequestOK(q)'
      <4>1. \A t \in Unused' : tokens'[t].recent => t \in Unused /\ tokens[t].recent
        BY <2>6, <3>1 DEF Unused
      <4> QED
        BY <2>5, <4>1, RequestKept DEF IInv
    <3>4. ResetOK(q)'
      BY <2>1, <2>5, <3>1, ResetKept DEF IInv
    <3> QED
      BY <3>2, <3>3, <3>4
  <2> QED
    BY <2>5, <2>7, <2>8, <2>9, <2>10, EndedOK DEF IInv
<1> QED
  BY <1>1, <1>2

-----------------------------------------------------------------------------
(* Steps of no request.                                                    *)

LEMMA LogoutInv ==
  ASSUME IInv, NEW s \in Sessions, Logout(s)
  PROVE  IInv'
<1>1. /\ sessions' = [sessions EXCEPT ![s].state = "encerrada"]
      /\ UNCHANGED << account, tokens, pc, op, held, overtaken, notes >>
  BY DEF Logout
<1>2. /\ sessions' \in [Sessions -> SessionRow]
      /\ sessions'[s].state = "encerrada"
      /\ \A other \in Sessions \ {s} : sessions'[other] = sessions[other]
  BY <1>1 DEF IInv, TypeOK, SessionRow
<1>3. TypeOK'
  BY <1>1, <1>2 DEF IInv, TypeOK, notes
<1>4. \A other \in Sessions : SessionOK(other)'
  BY <1>1, <1>2 DEF IInv, SessionOK, notes
<1>5. ASSUME NEW q \in Requests
      PROVE  LoginOK(q)' /\ RequestOK(q)' /\ ResetOK(q)'
  BY <1>1 DEF IInv, LoginOK, RequestOK, ResetOK, LoginsInProgress, Asks, Verified, Unused, notes
<1>6. OneValid' /\ UsesCounted'
  BY <1>1 DEF IInv, OneValid, UsesCounted, notes
<1> QED
  BY <1>3, <1>4, <1>5, <1>6 DEF IInv

LEMMA DisableInv ==
  ASSUME IInv, Disable
  PROVE  IInv'
<1>1. /\ account' = [account EXCEPT !.status = "desativada"]
      /\ sessions' = revokeAll(None)
      /\ overtaken' = LoginsInProgress
      /\ UNCHANGED << tokens, pc, op, held, notes >>
  BY DEF Disable
<1>2. /\ sessions' \in [Sessions -> SessionRow]
      /\ \A s \in Sessions : sessions'[s].state # "aberta"
  BY <1>1, Revoked, CredentialsAssumption DEF IInv
<1>3. TypeOK'
  <2>1. account' \in Account
    BY <1>1 DEF IInv, TypeOK, Account
  <2>2. overtaken' \in SUBSET Requests
    BY <1>1 DEF LoginsInProgress
  <2> QED
    BY <1>1, <1>2, <2>1, <2>2 DEF IInv, TypeOK, notes
<1>4. \A s \in Sessions : SessionOK(s)'
  BY <1>2 DEF SessionOK
<1>5. ASSUME NEW q \in Requests
      PROVE  LoginOK(q)' /\ RequestOK(q)' /\ ResetOK(q)'
  <2>1. Waits(q) /\ tokens' = tokens /\ Unused' = Unused
    BY <1>1 DEF Waits, Unused
  <2> QED
    BY <1>1, <2>1, OvertakenOK, RequestKept, ResetKept DEF IInv
<1>6. OneValid' /\ UsesCounted'
  BY <1>1 DEF IInv, OneValid, UsesCounted, notes
<1> QED
  BY <1>3, <1>4, <1>5, <1>6 DEF IInv

LEMMA EnableInv ==
  ASSUME IInv, Enable
  PROVE  IInv'
<1>1. /\ account' = [account EXCEPT !.status = "ativa"]
      /\ UNCHANGED << sessions, tokens, pc, op, held, overtaken, notes >>
  BY DEF Enable
<1>2. /\ account' \in Account /\ account'.status = "ativa"
      /\ account'.password = account.password
  BY <1>1 DEF IInv, TypeOK, Account
<1>3. TypeOK'
  BY <1>1, <1>2 DEF IInv, TypeOK, notes
<1>4. \A s \in Sessions : SessionOK(s)'
  BY <1>1, <1>2 DEF IInv, SessionOK, notes
<1>5. ASSUME NEW q \in Requests
      PROVE  LoginOK(q)' /\ RequestOK(q)' /\ ResetOK(q)'
  BY <1>1, <1>2
     DEF IInv, LoginOK, RequestOK, ResetOK, LoginsInProgress, Asks, Verified, Unused, notes
<1>6. OneValid' /\ UsesCounted'
  BY <1>1 DEF IInv, OneValid, UsesCounted, notes
<1> QED
  BY <1>3, <1>4, <1>5, <1>6 DEF IInv

LEMMA LinkAgesInv ==
  ASSUME IInv, NEW t \in Tokens, LinkAges(t)
  PROVE  IInv'
<1>1. /\ tokens[t].state = "valido"
      /\ UNCHANGED << account, sessions, pc, op, held, overtaken, notes >>
  BY DEF LinkAges
<1>2. /\ tokens' \in [Tokens -> TokenRow]
      /\ tokens'[t].state \in {"valido", "vencido"}
      /\ tokens'[t].recent => tokens[t].recent
      /\ \A u \in Tokens \ {t} : tokens'[u] = tokens[u]
  <2>1. CASE tokens[t].recent
    BY <1>1, <2>1 DEF LinkAges, IInv, TypeOK, TokenRow
  <2>2. CASE ~tokens[t].recent
    BY <1>1, <2>2 DEF LinkAges, IInv, TypeOK, TokenRow
  <2> QED
    BY <2>1, <2>2
<1>3. TypeOK'
  BY <1>1, <1>2 DEF IInv, TypeOK, notes
<1>4. \A s \in Sessions : SessionOK(s)'
  BY <1>1 DEF IInv, SessionOK, notes
<1>5. Unused' = Unused
  BY <1>1, <1>2 DEF Unused
<1>6. ASSUME NEW q \in Requests
      PROVE  LoginOK(q)' /\ RequestOK(q)' /\ ResetOK(q)'
  <2>1. /\ Waits(q) /\ account' = account /\ overtaken' = overtaken
        /\ overwritten' = overwritten
    BY <1>1 DEF Waits, notes
  <2>2. \A u \in Unused' : tokens'[u].recent => u \in Unused /\ tokens[u].recent
    BY <1>2, <1>5 DEF Unused
  <2> QED
    BY <1>5, <2>1, <2>2, LoginKept, RequestKept, ResetKept DEF IInv
<1>7. OneValid'
  BY <1>1, <1>2 DEF IInv, OneValid
<1>8. UsesCounted'
  BY <1>1, <1>2 DEF IInv, UsesCounted, notes
<1> QED
  BY <1>3, <1>4, <1>6, <1>7, <1>8 DEF IInv

-----------------------------------------------------------------------------

LEMMA InitInv ==
  ASSUME Init
  PROVE  IInv
<1>1. TypeOK
  BY CredentialsAssumption DEF Init, TypeOK, SessionRow, TokenRow, Steps
<1>2. \A p \in Requests : LoginOK(p) /\ RequestOK(p) /\ ResetOK(p)
  BY DEF Init, LoginOK, RequestOK, ResetOK, LoginsInProgress, Asks
<1>3. (\A s \in Sessions : SessionOK(s)) /\ OneValid /\ UsesCounted
  BY DEF Init, SessionOK, OneValid, UsesCounted
<1> QED
  BY <1>1, <1>2, <1>3 DEF IInv

LEMMA StepInv ==
  ASSUME IInv, [Next]_vars
  PROVE  IInv'
<1>1. ASSUME NEW p \in Requests, NEW o \in Asked, Start(p, o)
      PROVE  IInv'
  BY <1>1, StartInv
<1>2. ASSUME NEW p \in Requests, Step(p)
      PROVE  IInv'
  BY <1>2, VerifyLoginInv, SignInInv, VerifyCurrentInv, ChangePasswordInv, LockForResetInv,
     IssuedWithinInv, IssueInv, ConsumeInv, ConfirmResetInv DEF Step
<1>3. ASSUME NEW p \in Requests, Fail(p)
      PROVE  IInv'
  BY <1>3, RefuseInv DEF Fail
<1>4. CASE \E s \in Sessions : Logout(s)
  BY <1>4, LogoutInv
<1>5. CASE \E t \in Tokens : LinkAges(t)
  BY <1>5, LinkAgesInv
<1>6. CASE Disable \/ Enable
  BY <1>6, DisableInv, EnableInv
<1>7. CASE UNCHANGED vars
  <2>1. TypeOK'
    BY <1>7 DEF IInv, TypeOK, vars, tables, notes
  <2>2. TablesOK'
    BY <1>7, TablesKept DEF IInv, TablesOK, vars
  <2>3. ASSUME NEW q \in Requests
        PROVE  LoginOK(q)' /\ RequestOK(q)' /\ ResetOK(q)'
    BY <1>7 DEF IInv, LoginOK, RequestOK, ResetOK, LoginsInProgress, Asks, Verified, Unused,
                vars, tables, notes
  <2> QED
    BY <2>1, <2>2, <2>3 DEF IInv, TablesOK
<1> QED
  BY <1>1, <1>2, <1>3, <1>4, <1>5, <1>6, <1>7 DEF Next

\* What requests rely on across their unlocked gaps and under their locks.
THEOREM RelianceHolds == Spec => []IInv
<1>1. Init => IInv
  BY InitInv
<1>2. IInv /\ [Next]_vars => IInv'
  BY StepInv
<1> QED
  BY <1>1, <1>2, PTL DEF Spec

\* Whatever logins, changes, resets and disablings run at once, a session proves
\* the current password of an active account, unless its login was overtaken or
\* another one put an older password back.
THEOREM SessionsAreProved == Spec => []SessionsProve
<1>1. IInv => SessionsProve
  BY DEF IInv, SessionOK, SessionsProve
<1> QED
  BY <1>1, RelianceHolds, PTL

\* However many requests issue and use links together, one at most is valid and
\* none sets a password twice.
THEOREM LinksSetOnce == Spec => []LinkSetsOnce
<1>1. ASSUME IInv
      PROVE  LinkSetsOnce
  <2> DEFINE valid == { t \in Tokens : tokens[t].state = "valido" }
  <2>1. Cardinality(valid) <= 1
    <3>1. CASE valid = {}
      BY <3>1, FS_EmptySet
    <3>2. CASE valid # {}
      <4>1. PICK t \in Tokens : valid = {t}
        BY <1>1, <3>2 DEF IInv, OneValid
      <4>2. Cardinality({t}) = 1
        BY FS_Singleton
      <4>3. Cardinality(valid) = 1
        BY <4>1, <4>2
      <4> QED
        BY <4>3
    <3> QED
      BY <3>1, <3>2
  <2>2. \A t \in Tokens : resets[t] <= 1
    BY <1>1 DEF IInv, UsesCounted
  <2> QED
    BY <2>1, <2>2 DEF LinkSetsOnce
<1> QED
  BY <1>1, RelianceHolds, PTL

\* Only a request that found no recent link replaces links, and it keeps every
\* other request from issuing one meanwhile.
LEMMA FreshStep ==
  ASSUME IInv, [Next]_vars, NEW t \in Tokens,
         tokens[t].state = "valido", tokens[t].recent
  PROVE  tokens'[t].state # "apagado"
<1>1. ASSUME NEW p \in Requests, Issue(p)
      PROVE  FALSE
  <2>1. t \in Unused
    BY DEF Unused
  <2> QED
    BY <1>1, <2>1 DEF Issue, IInv, RequestOK
<1>2. ASSUME NEW p \in Requests, ConfirmReset(p)
      PROVE  tokens'[t].state # "apagado"
  <2>1. CASE Refuse(p)
    BY <2>1 DEF Refuse, tables
  <2>2. CASE ~Refuse(p)
    BY <1>2, <2>2 DEF ConfirmReset, IInv, TypeOK
  <2> QED
    BY <2>1, <2>2
<1>3. ASSUME NEW u \in Tokens, LinkAges(u)
      PROVE  tokens'[t].state # "apagado"
  <2>1. CASE tokens[u].recent
    BY <1>3, <2>1 DEF LinkAges, IInv, TypeOK, TokenRow
  <2>2. CASE ~tokens[u].recent
    BY <1>3, <2>2 DEF LinkAges, IInv, TypeOK, TokenRow
  <2> QED
    BY <2>1, <2>2
<1>4. ASSUME tokens' = tokens
      PROVE  tokens'[t].state # "apagado"
  BY <1>4
<1>5. ASSUME NEW p \in Requests, Step(p)
      PROVE  Issue(p) \/ ConfirmReset(p) \/ tokens' = tokens
  BY <1>5 DEF Step, VerifyLogin, SignIn, VerifyCurrent, ChangePassword, LockForReset,
              IssuedWithin, Consume, GoesOn, Refuse, tables
<1>6. ASSUME NEW p \in Requests, Fail(p) \/ \E o \in Asked : Start(p, o)
      PROVE  tokens' = tokens
  BY <1>6 DEF Fail, Start, Refuse, tables
<1>7. CASE Disable \/ Enable \/ (\E s \in Sessions : Logout(s)) \/ UNCHANGED vars
  BY <1>7 DEF Disable, Enable, Logout, vars, tables
<1> QED
  BY <1>1, <1>2, <1>3, <1>4, <1>5, <1>6, <1>7 DEF Next

\* "O link já enviado continua valendo": no request takes back a link of the
\* interval, because the lock of the account covers both the look and the delete.
THEOREM FreshLinksStay == Spec => FreshLinkStays
<1>1. IInv /\ [Next]_vars =>
        [\A t \in Tokens : tokens[t].state = "valido" /\ tokens[t].recent
                             => tokens'[t].state # "apagado"]_vars
  BY FreshStep
<1> QED
  BY <1>1, RelianceHolds, PTL DEF Spec, FreshLinkStays

=============================================================================
