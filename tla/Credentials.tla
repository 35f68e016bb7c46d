----------------------------- MODULE Credentials -----------------------------
(***************************************************************************)
(* How a person proves who they are: the password of an account, the       *)
(* sessions that logins open and the links that reset the password.        *)
(* Accounts do not share rows, so the module follows one of them.  Logins, *)
(* changes and resets run at once: a password is verified outside the      *)
(* transaction that relies on it, and transactions wait for row locks.     *)
(***************************************************************************)
EXTENDS Naturals, FiniteSets

CONSTANTS
  Passwords,   \* passwords people try
  Sessions,    \* rows of sessions, inserted or not yet
  Tokens,      \* rows of account_tokens, inserted or not yet
  Requests,    \* slots for requests in progress
  None,
  Asked,       \* what requests ask for, among Ops
  Imported     \* the account as the import, or its opening, left it

VARIABLES
  account,     \* row of the account
  sessions,    \* table sessions
  tokens,      \* table account_tokens
  pc,          \* progress of each request
  op,          \* what each request asks for
  held,        \* the request holding the row lock of the account or of a token
  overtaken,   \* logins in progress when sessions were last ended
  overwritten, \* since the last change or reset, a login put back a password that
               \* was no longer the account's
  resets       \* passwords set with each link

tables == << account, sessions, tokens >>
notes  == << overwritten, resets >>
vars   == << tables, pc, op, held, overtaken, notes >>

Account == [password : Passwords, legacy : BOOLEAN, status : {"ativa", "desativada"}]

Ops ==
  [kind : {"login"}, password : Passwords]
    \union [kind : {"troca"}, session : Sessions, current : Passwords, new : Passwords]
    \union [kind : {"pedido"}]
    \union [kind : {"redefinicao"}, token : Tokens, new : Passwords]

ASSUME CredentialsAssumption ==
  /\ None \notin Requests \union Passwords \union Sessions
  /\ "conta" \notin Tokens
  /\ Asked \subseteq Ops
  /\ Imported \in Account

\* A session holds the password its holder proved to know, and whether its login
\* was one of "overtaken"; a link is recent within RESET_REQUEST_INTERVAL_MS.
Init ==
  /\ account = Imported
  /\ sessions = [s \in Sessions |-> [state |-> "ausente", proved |-> None, late |-> FALSE]]
  /\ tokens = [t \in Tokens |-> [state |-> "ausente", recent |-> FALSE]]
  /\ pc = [p \in Requests |-> "parado"]
  /\ op = [p \in Requests |-> None]
  /\ held = [row \in Tokens \union {"conta"} |-> None]
  /\ overtaken = {}
  /\ overwritten = FALSE
  /\ resets = [t \in Tokens |-> 0]

-----------------------------------------------------------------------------

Asks(p, kind) == pc[p] # "parado" /\ op[p].kind = kind

\* The transaction ends and its locks with it.
End(p) ==
  /\ pc' = [pc EXCEPT ![p] = "parado"]
  /\ op' = [op EXCEPT ![p] = None]
  /\ held' = [row \in DOMAIN held |-> IF held[row] = p THEN None ELSE held[row]]

Refuse(p) ==
  /\ End(p)
  /\ overtaken' = overtaken \ {p}
  /\ UNCHANGED << tables, notes >>

GoesOn(p, step) ==
  /\ pc' = [pc EXCEPT ![p] = step]
  /\ UNCHANGED << tables, op, overtaken, notes >>

\* Mutant: the condition on exceptSessionId the wrong way round.
revokeAll_OnlyThat(except) ==
  [s \in Sessions |-> IF sessions[s].state = "aberta" /\ s = except
                        THEN [sessions[s] EXCEPT !.state = "encerrada"] ELSE sessions[s]]

\* SessionsService.revokeAll
revokeAll(except) ==
  [s \in Sessions |-> IF sessions[s].state = "aberta" /\ s # except
                        THEN [sessions[s] EXCEPT !.state = "encerrada"] ELSE sessions[s]]

Verified(p) == pc[p] \in { "conferiu", "conferiu_antiga" }

LoginsInProgress == { p \in Requests : Asks(p, "login") /\ Verified(p) }

SetPassword(password) == account' = [account EXCEPT !.password = password, !.legacy = FALSE]

NoSession == { s \in Sessions : sessions[s].state = "ausente" }
NoToken   == { t \in Tokens : tokens[t].state = "ausente" }

\* Every bounded row a request will need is there when it starts.
RowsFor(o) ==
  LET Pending(kind) == Cardinality({ p \in Requests : Asks(p, kind) })
  IN  /\ o.kind = "login" => Pending("login") < Cardinality(NoSession)
      /\ o.kind = "pedido" => Pending("pedido") < Cardinality(NoToken)

\* A request arrives; a change of password comes with a session that
\* SessionsService.resolve accepts, a reset with a link that was e-mailed.
Start(p, o) ==
  /\ pc[p] = "parado"
  /\ RowsFor(o)
  /\ o.kind = "troca" => sessions[o.session].state = "aberta" /\ account.status = "ativa"
  /\ o.kind = "redefinicao" => tokens[o.token].state # "ausente"
  /\ pc' = [pc EXCEPT ![p] = "pediu"]
  /\ op' = [op EXCEPT ![p] = o]
  /\ UNCHANGED << tables, held, overtaken, notes >>

-----------------------------------------------------------------------------
(* Each step that locks the row of the account waits for it to be free.    *)

\* verifyPassword over a row read outside the transaction.
VerifyLogin(p) ==
  /\ Asks(p, "login") /\ pc[p] = "pediu"
  /\ IF op[p].password = account.password /\ account.status = "ativa"
       THEN GoesOn(p, IF account.legacy THEN "conferiu_antiga" ELSE "conferiu") /\ UNCHANGED held
       ELSE Refuse(p)

\* The transaction of login: the account by its id alone, with the conversion
\* of a legacy hash, and a new session.
SignIn(p) ==
  /\ p \in LoginsInProgress
  /\ held["conta"] = None
  /\ IF pc[p] = "conferiu_antiga"
       THEN /\ SetPassword(op[p].password)
            /\ overwritten' = (overwritten \/ op[p].password # account.password)
       ELSE UNCHANGED << account, overwritten >>
  /\ NoSession # {}
  /\ sessions' = [sessions EXCEPT ![CHOOSE s \in NoSession : TRUE] =
       [state |-> "aberta", proved |-> op[p].password, late |-> p \in overtaken]]
  /\ overtaken' = overtaken \ {p}
  /\ End(p)
  /\ UNCHANGED << tokens, resets >>

\* PasswordsService.assertCurrentPassword
VerifyCurrent(p) ==
  /\ Asks(p, "troca") /\ pc[p] = "pediu"
  /\ IF op[p].current = account.password
       THEN GoesOn(p, "conferiu") /\ UNCHANGED held
       ELSE Refuse(p)

\* The transaction of change: the session that asked stays, and has proved the
\* new password by choosing it.
ChangePassword(p) ==
  /\ Asks(p, "troca") /\ pc[p] = "conferiu"
  /\ held["conta"] = None
  /\ SetPassword(op[p].new)
  /\ overwritten' = FALSE
  /\ sessions' = [revokeAll(op[p].session) EXCEPT ![op[p].session].proved = op[p].new]
  /\ overtaken' = LoginsInProgress
  /\ End(p)
  /\ UNCHANGED << tokens, resets >>

\* Mutant: requestReset reads the account without locking it.
locksAccount_Plain(p) == UNCHANGED held

locksAccount(p) ==
  /\ held["conta"] = None
  /\ held' = [held EXCEPT !["conta"] = p]

\* requestReset: the select of an active account, for update.
LockForReset(p) ==
  /\ Asks(p, "pedido") /\ pc[p] = "pediu"
  /\ IF account.status = "ativa"
       THEN locksAccount(p) /\ GoesOn(p, "bloqueou")
       ELSE Refuse(p)

Unused == { t \in Tokens : tokens[t].state \in { "valido", "vencido" } }

\* AccountTokensService.issuedWithin
IssuedWithin(p) ==
  /\ Asks(p, "pedido") /\ pc[p] = "bloqueou"
  /\ IF \E t \in Unused : tokens[t].recent
       THEN Refuse(p)
       ELSE GoesOn(p, "conferiu") /\ UNCHANGED held

\* AccountTokensService.issue deletes the links not used yet ...
replaced == Unused

\* ... waiting for those that a reset is using, and inserts another.
Issue(p) ==
  /\ Asks(p, "pedido") /\ pc[p] = "conferiu"
  /\ \A t \in Unused : held[t] = None
  /\ NoToken # {}
  /\ tokens' = [t \in Tokens |->
       CASE t = (CHOOSE new \in NoToken : TRUE) -> [state |-> "valido", recent |-> TRUE]
         [] t \in replaced -> [state |-> "apagado", recent |-> FALSE]
         [] OTHER          -> tokens[t]]
  /\ End(p)
  /\ UNCHANGED << account, sessions, overtaken, notes >>

\* Mutant: the update that consumes does not ask that the link is unused.
consumable_Used(t) == tokens[t].state \in { "valido", "usado" }

consumable(t) == tokens[t].state = "valido"

\* AccountTokensService.consume
Consume(p) ==
  /\ Asks(p, "redefinicao") /\ pc[p] = "pediu"
  /\ held[op[p].token] = None
  /\ IF consumable(op[p].token)
       THEN GoesOn(p, "consumiu") /\ held' = [held EXCEPT ![op[p].token] = p]
       ELSE Refuse(p)

\* The rest of confirmReset, undone with the use of the link if the account is
\* not active.
ConfirmReset(p) ==
  /\ Asks(p, "redefinicao") /\ pc[p] = "consumiu"
  /\ held["conta"] = None
  /\ IF account.status = "ativa"
       THEN /\ SetPassword(op[p].new)
            /\ overwritten' = FALSE
            /\ tokens' = [tokens EXCEPT ![op[p].token] = [state |-> "usado", recent |-> FALSE]]
            /\ resets' = [resets EXCEPT ![op[p].token] = @ + 1]
            /\ sessions' = revokeAll(None)
            /\ overtaken' = LoginsInProgress
            /\ End(p)
       ELSE Refuse(p)

-----------------------------------------------------------------------------

\* AuthService.logout
Logout(s) ==
  /\ sessions[s].state = "aberta"
  /\ sessions' = [sessions EXCEPT ![s].state = "encerrada"]
  /\ UNCHANGED << account, tokens, pc, op, held, overtaken, notes >>

\* AccountsService.disable
Disable ==
  /\ held["conta"] = None
  /\ account.status = "ativa"
  /\ account' = [account EXCEPT !.status = "desativada"]
  /\ sessions' = revokeAll(None)
  /\ overtaken' = LoginsInProgress
  /\ UNCHANGED << tokens, pc, op, held, notes >>

\* AccountsService.enable
Enable ==
  /\ held["conta"] = None
  /\ account.status = "desativada"
  /\ account' = [account EXCEPT !.status = "ativa"]
  /\ UNCHANGED << sessions, tokens, pc, op, held, overtaken, notes >>

\* Five minutes pass since a link was issued, and later its two hours.
LinkAges(t) ==
  /\ tokens[t].state = "valido"
  /\ tokens' = [tokens EXCEPT ![t] =
       IF @.recent THEN [@ EXCEPT !.recent = FALSE] ELSE [@ EXCEPT !.state = "vencido"]]
  /\ UNCHANGED << account, sessions, pc, op, held, overtaken, notes >>

\* Two transactions wait for each other: one holds the account and deletes a
\* link, the other holds that link and updates the account.
InDeadlock(p) ==
  \E q \in Requests \ {p} :
    LET Crossed(x, y) == /\ Asks(x, "pedido") /\ pc[x] = "conferiu" /\ held["conta"] = x
                         /\ Asks(y, "redefinicao") /\ pc[y] = "consumiu"
                         /\ \E t \in Unused : held[t] = y
    IN  Crossed(p, q) \/ Crossed(q, p)

\* Mutant: nobody looks for deadlocks.
victim_Nobody(p) == FALSE

\* deadlock_timeout, or statement_timeout of the pool.
victim(p) == InDeadlock(p)

\* Any request may fail and its transaction be undone.
Fail(p) == pc[p] # "parado" /\ Refuse(p)

Step(p) ==
  \/ VerifyLogin(p) \/ SignIn(p)
  \/ VerifyCurrent(p) \/ ChangePassword(p)
  \/ LockForReset(p) \/ IssuedWithin(p) \/ Issue(p)
  \/ Consume(p) \/ ConfirmReset(p)

Next ==
  \/ \E p \in Requests : (\E o \in Asked : Start(p, o)) \/ Step(p) \/ Fail(p)
  \/ \E s \in Sessions : Logout(s)
  \/ \E t \in Tokens : LinkAges(t)
  \/ Disable \/ Enable

\* Requests go on, PostgreSQL queues those that wait for a row and ends one of
\* those in a deadlock.
Fairness ==
  \A p \in Requests : SF_vars(Step(p)) /\ WF_vars(victim(p) /\ Fail(p))

Spec == Init /\ [][Next]_vars /\ Fairness

-----------------------------------------------------------------------------
(* Properties.                                                             *)

\* A session that is open proved the password the account has now, and the
\* account is active, whatever changes, resets and disablings ran at once; only
\* a login they overtook escapes, until the next of them.
SessionsProve ==
  \A s \in Sessions :
    sessions[s].state = "aberta" /\ ~sessions[s].late /\ ~overwritten =>
      sessions[s].proved = account.password /\ account.status = "ativa"

\* At most one link resets the password, and it does so once, however many
\* requests issue links or use one together.
LinkSetsOnce ==
  /\ Cardinality({ t \in Tokens : tokens[t].state = "valido" }) <= 1
  /\ \A t \in Tokens : resets[t] <= 1

\* "O link já enviado continua valendo": within the interval, simultaneous
\* requests do not take back the link that was just sent.
FreshLinkStays ==
  [][\A t \in Tokens : tokens[t].state = "valido" /\ tokens[t].recent
                         => tokens'[t].state # "apagado"]_vars

\* Every request is answered, though a request for a link and a reset lock the
\* account and the link in opposite orders.
Answered == \A p \in Requests : pc[p] # "parado" ~> pc[p] = "parado"

=============================================================================
