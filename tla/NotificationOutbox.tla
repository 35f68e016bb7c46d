-------------------------- MODULE NotificationOutbox --------------------------
(***************************************************************************)
(* The durable queue of e-mails: operations enqueue notices, one processor *)
(* per API instance claims batches of them under a lease, sends them one   *)
(* by one and records each result, and an administrator retries those that *)
(* ran out of attempts.  Time is abstracted to the moments that matter: a  *)
(* wait that ends (BecomesDue) and a lease that runs out (LeaseExpires).   *)
(***************************************************************************)
EXTENDS Naturals, FiniteSets

CONSTANTS
  Notices,       \* rows of the table, inserted or not yet
  Processors,    \* instances of the API with the worker enabled
  BATCH_SIZE,
  MAX_ATTEMPTS,  \* NOTIFICATIONS_MAX_ATTEMPTS
  LeaseCovers,   \* sends that surely end within a lease: 0 if processes stall
  Mishaps,       \* bound: processors that stop or fail to record a result, and
                 \* leases that run out though their holder is alive
  Retries        \* bound: retries by administrators

ASSUME BoundsAssumption ==
  /\ BATCH_SIZE \in Nat \ {0} /\ MAX_ATTEMPTS \in Nat \ {0}
  /\ LeaseCovers \in Nat /\ Mishaps \in Nat /\ Retries \in Nat

VARIABLES
  table,    \* table notifications
  batch,    \* what each processor claimed and has not finished yet
  current,  \* the notice each processor is delivering, and how SMTP answered
  sends,    \* sends of each processor since its claim, up to LeaseCovers
  emails,   \* e-mails that left for each notice: those whole, those without link
  excuses,  \* of each notice: leases that ran out and answers SMTP did not give
  budget    \* what is left of the two bounds

vars == << table, batch, current, sends, emails, excuses, budget >>

NoDelivery == [phase |-> "nada"]
Answers    == { "aceito", "recusado" }

\* A row, not inserted yet.  "due" is nextAttemptAt <= now(), "leased" is
\* lockedUntil >= now(), and "link" says that the payload still holds its link or
\* password.
Absent ==
  [ status |-> "ausente", attempts |-> 0, maxAttempts |-> 0, due |-> FALSE,
    leased |-> FALSE, link |-> FALSE ]

Init ==
  /\ table = [n \in Notices |-> Absent]
  /\ batch = [p \in Processors |-> {}]
  /\ current = [p \in Processors |-> NoDelivery]
  /\ sends = [p \in Processors |-> 0]
  /\ emails = [n \in Notices |-> [whole |-> 0, redacted |-> 0]]
  /\ excuses = [n \in Notices |-> 0]
  /\ budget = [mishaps |-> Mishaps, retries |-> Retries]

Held(p) == batch[p] \union (IF current[p] = NoDelivery THEN {} ELSE { current[p].notice })

Busy(p) == Held(p) # {}

-----------------------------------------------------------------------------

\* NotificationsService.enqueue, in the transaction of the operation.
Enqueue(n) ==
  /\ table[n].status = "ausente"
  /\ table' = [table EXCEPT ![n] =
       [ status |-> "pendente", attempts |-> 0, maxAttempts |-> MAX_ATTEMPTS,
         due |-> TRUE, leased |-> FALSE, link |-> TRUE ]]
  /\ UNCHANGED << batch, current, sends, emails, excuses, budget >>

\* Mutant: rows being sent are claimable whatever their lease.
claimable_AnyLease(n) ==
  (table[n].status = "pendente" /\ table[n].due) \/ table[n].status = "enviando"

\* Mutant: a reservation whose processor stopped is nobody's.
claimable_PendingOnly(n) == table[n].status = "pendente" /\ table[n].due

claimable(n) ==
  \/ table[n].status = "pendente" /\ table[n].due
  \/ table[n].status = "enviando" /\ ~table[n].leased

claimedRow(row) ==
  [row EXCEPT !.status = "enviando", !.attempts = @ + 1, !.leased = TRUE]

\* processBatch: one UPDATE over a FOR UPDATE SKIP LOCKED subquery.  Rows that
\* another processor is claiming at that moment are skipped, so any of the
\* claimable ones may come.  A processor claims only when its batch is over.
Claim(p, ids) ==
  /\ ~Busy(p)
  /\ Cardinality(ids) <= BATCH_SIZE
  /\ \A n \in ids : claimable(n)
  /\ table' = [n \in Notices |-> IF n \in ids THEN claimedRow(table[n]) ELSE table[n]]
  /\ batch' = [batch EXCEPT ![p] =
       { [ id |-> n, attempts |-> table'[n].attempts,
           maxAttempts |-> table[n].maxAttempts, link |-> table[n].link ] : n \in ids }]
  /\ sends' = [sends EXCEPT ![p] = 0]
  /\ UNCHANGED << current, emails, excuses, budget >>

\* deliver: the message goes to SMTP, which answers later.
Send(p, c) ==
  /\ current[p] = NoDelivery
  /\ c \in batch[p]
  /\ batch' = [batch EXCEPT ![p] = @ \ {c}]
  /\ current' = [current EXCEPT ![p] = [phase |-> "enviando", notice |-> c]]
  /\ UNCHANGED << table, sends, emails, excuses, budget >>

Sent(n, whole) ==
  emails' = IF whole THEN [emails EXCEPT ![n].whole = @ + 1]
                     ELSE [emails EXCEPT ![n].redacted = @ + 1]

\* SMTP accepts the message, refuses it, or accepts it and the connection
\* drops before its answer, which send() reports as a failure.
Answer(p, accepted, answer) ==
  /\ current[p].phase = "enviando"
  /\ answer = "aceito" => accepted
  /\ current' = [current EXCEPT ![p] = [phase |-> answer, notice |-> @.notice]]
  /\ LET c == current[p].notice
     IN  /\ IF accepted THEN Sent(c.id, c.link) ELSE UNCHANGED emails
         /\ excuses' = IF accepted /\ answer = "recusado"
                         THEN [excuses EXCEPT ![c.id] = @ + 1] ELSE excuses
  /\ sends' = [sends EXCEPT ![p] = IF @ < LeaseCovers THEN @ + 1 ELSE @]
  /\ UNCHANGED << table, batch, budget >>

\* Mutant: the link stays in the row of a notice that ran out of attempts.
recordedFailure_KeepsLink(row, c) ==
  [row EXCEPT !.status = IF c.attempts >= c.maxAttempts THEN "falhou" ELSE "pendente",
              !.leased = FALSE, !.due = FALSE]

\* The failure of one attempt; the last one takes the link out of the row.
recordedFailure(row, c) ==
  LET exhausted == c.attempts >= c.maxAttempts
  IN  [row EXCEPT !.status = IF exhausted THEN "falhou" ELSE "pendente",
                  !.leased = FALSE, !.due = FALSE, !.link = @ /\ ~exhausted]

recordedSuccess(row) ==
  [row EXCEPT !.status = "enviada", !.leased = FALSE, !.link = FALSE]

\* The update goes by the id of the notice only.
Record(p) ==
  /\ current[p].phase \in Answers
  /\ LET c == current[p].notice
     IN  table' = [table EXCEPT ![c.id] =
           IF current[p].phase = "aceito" THEN recordedSuccess(@) ELSE recordedFailure(@, c)]
  /\ current' = [current EXCEPT ![p] = NoDelivery]
  /\ UNCHANGED << batch, sends, emails, excuses, budget >>

\* The process stops, or the database refuses the result and the rest of the
\* batch is given up.
Interrupt(p) ==
  /\ Busy(p)
  /\ budget.mishaps > 0
  /\ budget' = [budget EXCEPT !.mishaps = @ - 1]
  /\ batch' = [batch EXCEPT ![p] = {}]
  /\ current' = [current EXCEPT ![p] = NoDelivery]
  /\ UNCHANGED << table, sends, emails, excuses >>

HoldersOfLease(n) ==
  { p \in Processors : \E c \in Held(p) : c.id = n /\ c.attempts = table[n].attempts }

\* LOCK_SECONDS pass: the processor stopped, or the rest of its batch was slow.
LeaseExpires(n) ==
  /\ table[n].leased
  /\ \A p \in HoldersOfLease(n) : sends[p] >= LeaseCovers /\ budget.mishaps > 0
  /\ budget' = IF HoldersOfLease(n) = {} THEN budget ELSE [budget EXCEPT !.mishaps = @ - 1]
  /\ table' = [table EXCEPT ![n].leased = FALSE]
  /\ excuses' = [excuses EXCEPT ![n] = @ + 1]
  /\ UNCHANGED << batch, current, sends, emails >>

BecomesDue(n) ==
  /\ table[n].status = "pendente" /\ ~table[n].due
  /\ table' = [table EXCEPT ![n].due = TRUE]
  /\ UNCHANGED << batch, current, sends, emails, excuses, budget >>

\* NotificationsService.retry
Retry(n) ==
  /\ table[n].status = "falhou"
  /\ budget.retries > 0
  /\ budget' = [budget EXCEPT !.retries = @ - 1]
  /\ table' = [table EXCEPT ![n].status = "pendente", ![n].due = TRUE,
                            ![n].maxAttempts = table[n].attempts + MAX_ATTEMPTS]
  /\ UNCHANGED << batch, current, sends, emails, excuses >>

-----------------------------------------------------------------------------

ClaimSome(p) == \E ids \in (SUBSET Notices) \ {{}} : Claim(p, ids)
SendOne(p)   == \E c \in batch[p] : Send(p, c)
AnswerOne(p) == \E accepted \in BOOLEAN, answer \in Answers : Answer(p, accepted, answer)

Next ==
  \/ \E n \in Notices : Enqueue(n) \/ LeaseExpires(n) \/ BecomesDue(n) \/ Retry(n)
  \/ \E p \in Processors : ClaimSome(p) \/ SendOne(p) \/ AnswerOne(p) \/ Record(p) \/ Interrupt(p)

\* The timer polls for ever, send() returns within its two time-outs, results
\* are recorded, and time passes.  Which of the claimable rows a claim takes is
\* the order of nextAttemptAt: an old one is not passed over for ever.
Fairness ==
  /\ \A p \in Processors : WF_vars(SendOne(p) \/ AnswerOne(p) \/ Record(p))
  /\ \A n \in Notices :
       /\ WF_vars(LeaseExpires(n) \/ BecomesDue(n))
       /\ SF_vars(\E p \in Processors, ids \in SUBSET Notices : n \in ids /\ Claim(p, ids))

Spec == Init /\ [][Next]_vars /\ Fairness

-----------------------------------------------------------------------------
(* Properties.                                                             *)

\* "Pelo menos uma vez": an e-mail repeats only if a lease ran out or SMTP took
\* a message without saying so, and then at most once for each of those.
NoUnexcusedDuplicate ==
  \A n \in Notices : emails[n].whole + emails[n].redacted <= 1 + excuses[n]

\* Passwords and links with a token leave the database with the last attempt,
\* even when a slow processor records its result after another one's.
SecretsLeave ==
  \A n \in Notices : table[n].status \in { "enviada", "falhou" } => ~table[n].link

\* Every notice is eventually sent or visibly failed, whatever processors stop.
Resolved ==
  \A n \in Notices :
    table[n].status \in { "pendente", "enviando" } ~> table[n].status \in { "enviada", "falhou" }

=============================================================================
