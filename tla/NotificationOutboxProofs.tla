----------------------- MODULE NotificationOutboxProofs -----------------------
(***************************************************************************)
(* What the queue keeps true for any number of notices, instances of the   *)
(* API, attempts and mishaps: no e-mail repeats without an excuse, and no  *)
(* secret outlives the last attempt.                                       *)
(*                                                                         *)
(* Duplicates are bounded by counting rights to send.  A right is created  *)
(* with the notice, or by an excuse; it is the row's while it waits to be  *)
(* claimed, and the processor's from the claim until SMTP takes the        *)
(* message or the failure is recorded.  An e-mail uses a right up.         *)
(***************************************************************************)
EXTENDS NotificationOutbox, FiniteSetTheorems, TLAPS

Statuses == { "ausente", "pendente", "enviando", "enviada", "falhou" }

Row ==
  [ status : Statuses, attempts : Nat, maxAttempts : Nat,
    due : BOOLEAN, leased : BOOLEAN, link : BOOLEAN ]

Copy == [ id : Notices, attempts : Nat, maxAttempts : Nat, link : BOOLEAN ]

Delivery == [ phase : {"enviando"} \union Answers, notice : Copy ]

TypeOK ==
  /\ table \in [Notices -> Row]
  /\ batch \in [Processors -> SUBSET Copy]
  /\ current \in [Processors -> {NoDelivery} \union Delivery]
  /\ sends \in [Processors -> Nat]
  /\ emails \in [Notices -> [whole : Nat, redacted : Nat]]
  /\ excuses \in [Notices -> Nat]
  /\ budget \in [mishaps : Nat, retries : Nat]

\* A processor holds a notice once: it is waiting in the batch or being
\* delivered, never both.
HeldOnce ==
  \A p \in Processors :
    /\ \A c, d \in batch[p] : c.id = d.id => c = d
    /\ current[p] # NoDelivery => \A c \in batch[p] : c.id # current[p].notice.id

\* The processor will send the notice, or will record that it was not sent.
MaySend(p, n) ==
  \/ \E c \in batch[p] : c.id = n
  \/ /\ current[p] # NoDelivery
     /\ current[p].phase \in {"enviando", "recusado"}
     /\ current[p].notice.id = n

Senders(n) == { p \in Processors : MaySend(p, n) }

\* The row can be claimed, now or without any excuse in between.
RowOwes(row) ==
  IF \/ row.status \in {"ausente", "pendente", "falhou"}
     \/ row.status = "enviando" /\ ~row.leased
    THEN 1 ELSE 0

Rights(n) ==
  /\ IsFiniteSet(Senders(n))
  /\ emails[n].whole + emails[n].redacted + RowOwes(table[n]) + Cardinality(Senders(n))
       <= 1 + excuses[n]

RightsAddUp == \A n \in Notices : Rights(n)

IInv == TypeOK /\ HeldOnce /\ RightsAddUp /\ SecretsLeave

-----------------------------------------------------------------------------
(* Counting the senders of a notice while one processor takes a step.      *)

LEMMA OneMoves ==
  ASSUME NEW S, NEW T, NEW p, IsFiniteSet(S), T \ {p} = S \ {p}
  PROVE  /\ IsFiniteSet(T)
         /\ Cardinality(S) \in Nat /\ Cardinality(T) \in Nat
         /\ (p \in S <=> p \in T) => Cardinality(T) = Cardinality(S)
         /\ p \notin S /\ p \in T => Cardinality(T) = Cardinality(S) + 1
         /\ p \in S /\ p \notin T => Cardinality(S) = Cardinality(T) + 1
<1>1. CASE p \in S <=> p \in T
  <2>1. T = S
    BY <1>1
  <2> QED
    BY <1>1, <2>1, FS_CardinalityType
<1>2. CASE p \notin S /\ p \in T
  <2>1. T = S \union {p}
    BY <1>2
  <2> QED
    BY <1>2, <2>1, FS_AddElement, FS_CardinalityType
<1>3. CASE p \in S /\ p \notin T
  <2>1. T = S \ {p} /\ S = T \union {p}
    BY <1>3
  <2>2. IsFiniteSet(T)
    BY <1>3, <2>1, FS_RemoveElement
  <2> QED
    BY <1>3, <2>1, <2>2, FS_AddElement, FS_CardinalityType
<1> QED
  BY <1>1, <1>2, <1>3

OthersIdle(p) ==
  \A q \in Processors \ {p} : batch'[q] = batch[q] /\ current'[q] = current[q]

LEMMA SendersMove ==
  ASSUME NEW p \in Processors, OthersIdle(p), NEW n \in Notices, Rights(n)
  PROVE  /\ IsFiniteSet(Senders(n)')
         /\ Cardinality(Senders(n)) \in Nat /\ Cardinality(Senders(n)') \in Nat
         /\ (MaySend(p, n) <=> MaySend(p, n)')
              => Cardinality(Senders(n)') = Cardinality(Senders(n))
         /\ ~MaySend(p, n) /\ MaySend(p, n)'
              => Cardinality(Senders(n)') = Cardinality(Senders(n)) + 1
         /\ MaySend(p, n) /\ ~MaySend(p, n)'
              => Cardinality(Senders(n)) = Cardinality(Senders(n)') + 1
<1>1. \A q \in Processors \ {p} : MaySend(q, n)' <=> MaySend(q, n)
  BY DEF OthersIdle, MaySend
<1>2. Senders(n)' \ {p} = Senders(n) \ {p}
  BY <1>1 DEF Senders
<1>3. /\ p \in Senders(n) <=> MaySend(p, n)
      /\ p \in Senders(n)' <=> MaySend(p, n)'
  BY DEF Senders
<1>4. IsFiniteSet(Senders(n))
  BY DEF Rights
<1> QED
  BY <1>2, <1>3, <1>4, OneMoves

\* No processor takes a step, and what the row owes was not created for free.
LEMMA RowMoves ==
  ASSUME TypeOK, NEW n \in Notices, Rights(n), batch' = batch, current' = current,
         emails' = emails, excuses'[n] \in Nat,
         RowOwes(table'[n]) + excuses[n] <= RowOwes(table[n]) + excuses'[n]
  PROVE  Rights(n)'
<1>1. Senders(n)' = Senders(n)
  BY DEF Senders, MaySend
<1>2. /\ emails[n].whole \in Nat /\ emails[n].redacted \in Nat /\ excuses[n] \in Nat
      /\ RowOwes(table[n]) \in Nat /\ RowOwes(table'[n]) \in Nat
  BY DEF TypeOK, RowOwes
<1>3. Cardinality(Senders(n)) \in Nat
  BY FS_CardinalityType DEF Rights
<1> QED
  BY <1>1, <1>2, <1>3 DEF Rights

-----------------------------------------------------------------------------
(* Steps of the row alone.                                                 *)

LEMMA EnqueueInv ==
  ASSUME BoundsAssumption, IInv, NEW n \in Notices, Enqueue(n)
  PROVE  IInv'
<1>1. MAX_ATTEMPTS \in Nat
  BY DEF BoundsAssumption
<1>2. TypeOK'
  BY <1>1 DEF IInv, TypeOK, Enqueue, Row, Statuses
<1>3. HeldOnce' /\ SecretsLeave'
  BY DEF IInv, TypeOK, HeldOnce, SecretsLeave, Enqueue
<1>4. ASSUME NEW m \in Notices
      PROVE  Rights(m)'
  <2>1. RowOwes(table'[m]) = RowOwes(table[m])
    BY DEF IInv, TypeOK, Enqueue, RowOwes
  <2>2. Rights(m)
    BY DEF IInv, RightsAddUp
  <2>3. /\ RowOwes(table[m]) \in {0, 1}
        /\ excuses'[m] = excuses[m] /\ excuses[m] \in Nat
    BY DEF RowOwes, IInv, TypeOK, Enqueue
  <2>4. batch' = batch /\ current' = current /\ emails' = emails /\ TypeOK
    BY DEF IInv, Enqueue
  <2> QED
    BY <2>1, <2>2, <2>3, <2>4, RowMoves
<1> QED
  BY <1>2, <1>3, <1>4 DEF IInv, RightsAddUp

LEMMA BecomesDueInv ==
  ASSUME IInv, NEW n \in Notices, BecomesDue(n)
  PROVE  IInv'
<1>1. TypeOK'
  BY DEF IInv, TypeOK, BecomesDue, Row
<1>2. HeldOnce' /\ SecretsLeave'
  BY DEF IInv, TypeOK, HeldOnce, SecretsLeave, BecomesDue
<1>3. ASSUME NEW m \in Notices
      PROVE  Rights(m)'
  <2>1. RowOwes(table'[m]) = RowOwes(table[m])
    BY DEF IInv, TypeOK, BecomesDue, RowOwes, Row
  <2>2. Rights(m)
    BY DEF IInv, RightsAddUp
  <2>3. /\ RowOwes(table[m]) \in {0, 1}
        /\ excuses'[m] = excuses[m] /\ excuses[m] \in Nat
    BY DEF RowOwes, IInv, TypeOK, BecomesDue
  <2>4. batch' = batch /\ current' = current /\ emails' = emails /\ TypeOK
    BY DEF IInv, BecomesDue
  <2> QED
    BY <2>1, <2>2, <2>3, <2>4, RowMoves
<1> QED
  BY <1>1, <1>2, <1>3 DEF IInv, RightsAddUp

LEMMA RetryInv ==
  ASSUME BoundsAssumption, IInv, NEW n \in Notices, Retry(n)
  PROVE  IInv'
<1>1. /\ MAX_ATTEMPTS \in Nat
      /\ table[n].attempts + MAX_ATTEMPTS \in Nat
      /\ budget.retries - 1 \in Nat
  BY DEF BoundsAssumption, IInv, TypeOK, Row, Retry
<1>2. TypeOK'
  <2>1. table' \in [Notices -> Row]
    <3>1. table'[n] = [table[n] EXCEPT !.status = "pendente", !.due = TRUE,
                                       !.maxAttempts = table[n].attempts + MAX_ATTEMPTS]
      BY DEF IInv, TypeOK, Retry
    <3>2. table[n] \in Row /\ "pendente" \in Statuses
      BY DEF IInv, TypeOK, Statuses
    <3>3. table'[n] \in Row
      BY <1>1, <3>1, <3>2 DEF Row
    <3>4. \A m \in Notices \ {n} : table'[m] = table[m]
      BY DEF IInv, TypeOK, Retry
    <3>5. DOMAIN table' = Notices /\ table' = [m \in Notices |-> table'[m]]
      BY DEF IInv, TypeOK, Retry
    <3> QED
      BY <3>3, <3>4, <3>5 DEF IInv, TypeOK
  <2>2. budget' \in [mishaps : Nat, retries : Nat]
    BY <1>1 DEF IInv, TypeOK, Retry
  <2> QED
    BY <2>1, <2>2 DEF IInv, TypeOK, Retry
<1>3. HeldOnce' /\ SecretsLeave'
  BY DEF IInv, TypeOK, HeldOnce, SecretsLeave, Retry, Row
<1>4. ASSUME NEW m \in Notices
      PROVE  Rights(m)'
  <2>1. RowOwes(table'[m]) = RowOwes(table[m])
    BY DEF IInv, TypeOK, Retry, RowOwes, Row
  <2>2. Rights(m)
    BY DEF IInv, RightsAddUp
  <2>3. /\ RowOwes(table[m]) \in {0, 1}
        /\ excuses'[m] = excuses[m] /\ excuses[m] \in Nat
    BY DEF RowOwes, IInv, TypeOK, Retry
  <2>4. batch' = batch /\ current' = current /\ emails' = emails /\ TypeOK
    BY DEF IInv, Retry
  <2> QED
    BY <2>1, <2>2, <2>3, <2>4, RowMoves
<1> QED
  BY <1>2, <1>3, <1>4 DEF IInv, RightsAddUp

\* The row is owed again, and the excuse is on record.
LEMMA LeaseExpiresInv ==
  ASSUME IInv, NEW n \in Notices, LeaseExpires(n)
  PROVE  IInv'
<1>1. TypeOK'
  <2>1. budget' \in [mishaps : Nat, retries : Nat]
    <3>1. CASE HoldersOfLease(n) = {}
      BY <3>1 DEF IInv, TypeOK, LeaseExpires
    <3>2. CASE HoldersOfLease(n) # {}
      <4>1. budget.mishaps > 0 /\ budget.mishaps - 1 \in Nat
        BY <3>2 DEF IInv, TypeOK, LeaseExpires
      <4> QED
        BY <3>2, <4>1 DEF IInv, TypeOK, LeaseExpires
    <3> QED
      BY <3>1, <3>2
  <2>2. table' \in [Notices -> Row]
    BY DEF IInv, TypeOK, LeaseExpires, Row
  <2>3. excuses' \in [Notices -> Nat]
    BY DEF IInv, TypeOK, LeaseExpires
  <2> QED
    BY <2>1, <2>2, <2>3 DEF IInv, TypeOK, LeaseExpires
<1>2. HeldOnce' /\ SecretsLeave'
  BY DEF IInv, TypeOK, HeldOnce, SecretsLeave, LeaseExpires, Row
<1>3. ASSUME NEW m \in Notices
      PROVE  Rights(m)'
  <2>1. Rights(m)
    BY DEF IInv, RightsAddUp
  <2>2. batch' = batch /\ current' = current /\ emails' = emails /\ TypeOK
    BY DEF IInv, LeaseExpires
  <2>3. CASE m = n
    <3>1. excuses'[m] = excuses[m] + 1 /\ excuses[m] \in Nat
      BY <2>3 DEF IInv, TypeOK, LeaseExpires
    <3>2. RowOwes(table'[m]) \in {0, 1} /\ RowOwes(table[m]) \in {0, 1}
      BY DEF RowOwes
    <3> QED
      BY <2>1, <2>2, <3>1, <3>2, RowMoves
  <2>4. CASE m # n
    <3>1. excuses'[m] = excuses[m] /\ table'[m] = table[m] /\ excuses[m] \in Nat
      BY <2>4 DEF IInv, TypeOK, LeaseExpires
    <3>2. RowOwes(table[m]) \in {0, 1}
      BY DEF RowOwes
    <3> QED
      BY <2>1, <2>2, <3>1, <3>2, RowMoves
  <2> QED
    BY <2>3, <2>4
<1> QED
  BY <1>1, <1>2, <1>3 DEF IInv, RightsAddUp

-----------------------------------------------------------------------------
(* Steps of a processor.                                                   *)

LEMMA ClaimedRow ==
  ASSUME NEW row \in Row
  PROVE  /\ claimedRow(row) \in Row
         /\ claimedRow(row).status = "enviando"
         /\ claimedRow(row).leased
<1>1. row.attempts + 1 \in Nat
  BY DEF Row
<1>2. "enviando" \in Statuses
  BY DEF Statuses
<1>3. claimedRow(row) \in Row
  BY <1>1, <1>2 DEF claimedRow, Row
<1>4. claimedRow(row).status = "enviando" /\ claimedRow(row).leased
  BY DEF claimedRow, Row
<1> QED
  BY <1>3, <1>4

\* The rights of the rows claimed pass to the processor.
LEMMA ClaimInv ==
  ASSUME IInv, NEW p \in Processors, NEW ids \in SUBSET Notices, Claim(p, ids)
  PROVE  IInv'
<1>1. batch[p] = {} /\ current[p] = NoDelivery
  BY DEF Claim, Busy, Held
<1>2. \A n \in Notices : /\ table[n] \in Row
                         /\ n \in ids => table'[n] = claimedRow(table[n])
                         /\ n \notin ids => table'[n] = table[n]
  BY DEF IInv, TypeOK, Claim
<1>3. \A n \in Notices : /\ table'[n] \in Row
                         /\ n \in ids => table'[n].status = "enviando" /\ table'[n].leased
  BY <1>2, ClaimedRow
<1>4. batch'[p] = { [ id |-> n, attempts |-> table'[n].attempts,
                      maxAttempts |-> table[n].maxAttempts, link |-> table[n].link ] : n \in ids }
  BY DEF IInv, TypeOK, Claim
<1>5. batch'[p] \in SUBSET Copy
  BY <1>2, <1>3, <1>4 DEF Copy, Row
<1>6. TypeOK'
  BY <1>3, <1>5 DEF IInv, TypeOK, Claim
<1>7. HeldOnce'
  <2>1. \A c, d \in batch'[p] : c.id = d.id => c = d
    BY <1>4
  <2>2. current'[p] = NoDelivery
    BY <1>1 DEF Claim
  <2> QED
    BY <2>1, <2>2 DEF IInv, TypeOK, HeldOnce, Claim
<1>8. SecretsLeave'
  BY <1>2, <1>3 DEF IInv, SecretsLeave
<1>9. ASSUME NEW n \in Notices
      PROVE  Rights(n)'
  <2>1. Rights(n) /\ OthersIdle(p)
    BY DEF IInv, TypeOK, RightsAddUp, Claim, OthersIdle
  <2>2. ~MaySend(p, n)
    BY <1>1 DEF MaySend
  <2>3. MaySend(p, n)' <=> n \in ids
    <3> DEFINE copyOf(m) ==
                 [ id |-> m, attempts |-> table'[m].attempts,
                   maxAttempts |-> table[m].maxAttempts, link |-> table[m].link ]
    <3>1. (\E c \in batch'[p] : c.id = n) <=> n \in ids
      <4>1. batch'[p] = { copyOf(m) : m \in ids } /\ \A m : copyOf(m).id = m
        BY <1>4
      <4> HIDE DEF copyOf
      <4> QED
        BY <4>1
    <3>2. current'[p] = NoDelivery
      BY <1>1 DEF Claim
    <3> QED
      BY <3>1, <3>2 DEF MaySend
  <2>4. /\ emails' = emails /\ excuses' = excuses
        /\ emails[n].whole \in Nat /\ emails[n].redacted \in Nat /\ excuses[n] \in Nat
    BY DEF IInv, TypeOK, Claim
  <2>5. CASE n \in ids
    <3>1. RowOwes(table[n]) = 1 /\ RowOwes(table'[n]) = 0
      BY <1>3, <2>5 DEF RowOwes, Claim, claimable
    <3> QED
      BY <2>1, <2>2, <2>3, <2>4, <2>5, <3>1, SendersMove DEF Rights
  <2>6. CASE n \notin ids
    <3>1. RowOwes(table'[n]) = RowOwes(table[n]) /\ RowOwes(table[n]) \in {0, 1}
      BY <1>2, <2>6 DEF RowOwes
    <3> QED
      BY <2>1, <2>2, <2>3, <2>4, <2>6, <3>1, SendersMove DEF Rights
  <2> QED
    BY <2>5, <2>6
<1> QED
  BY <1>6, <1>7, <1>8, <1>9 DEF IInv, RightsAddUp

LEMMA SendInv ==
  ASSUME IInv, NEW p \in Processors, NEW c, Send(p, c)
  PROVE  IInv'
<1>1. /\ c \in Copy /\ c \in batch[p] /\ current[p] = NoDelivery
      /\ batch'[p] = batch[p] \ {c}
      /\ current'[p] = [phase |-> "enviando", notice |-> c]
      /\ OthersIdle(p)
      /\ UNCHANGED << table, sends, emails, excuses, budget >>
  BY DEF IInv, TypeOK, Send, OthersIdle
<1>2. current'[p] \in Delivery /\ current'[p] # NoDelivery
  BY <1>1 DEF Delivery, NoDelivery
<1>3. TypeOK'
  BY <1>1, <1>2 DEF IInv, TypeOK, Send
<1>4. HeldOnce'
  BY <1>1 DEF IInv, HeldOnce, OthersIdle
<1>5. SecretsLeave'
  BY <1>1 DEF IInv, SecretsLeave
<1>6. ASSUME NEW n \in Notices
      PROVE  Rights(n)'
  <2>1. Rights(n)
    BY DEF IInv, RightsAddUp
  <2>2. MaySend(p, n)' <=> MaySend(p, n)
    BY <1>1, <1>2 DEF MaySend
  <2> QED
    BY <1>1, <2>1, <2>2, SendersMove DEF Rights
<1> QED
  BY <1>3, <1>4, <1>5, <1>6 DEF IInv, RightsAddUp

LEMMA Delivering ==
  ASSUME TypeOK, NEW p \in Processors, current[p].phase # "nada"
  PROVE  /\ current[p] \in Delivery /\ current[p] # NoDelivery
         /\ current[p].notice \in Copy /\ current[p].notice.id \in Notices
  BY DEF TypeOK, Delivery, NoDelivery, Copy

\* One e-mail more, of either kind.
LEMMA SentCounts ==
  ASSUME TypeOK, NEW n \in Notices, NEW whole \in BOOLEAN, Sent(n, whole)
  PROVE  /\ emails' \in [Notices -> [whole : Nat, redacted : Nat]]
         /\ emails'[n].whole + emails'[n].redacted = emails[n].whole + emails[n].redacted + 1
         /\ \A m \in Notices \ {n} : emails'[m] = emails[m]
<1>1. emails \in [Notices -> [whole : Nat, redacted : Nat]]
  BY DEF TypeOK
<1>2. /\ emails[n].whole \in Nat /\ emails[n].redacted \in Nat
      /\ emails[n].whole + 1 \in Nat /\ emails[n].redacted + 1 \in Nat
  BY <1>1
<1>3. CASE whole
  <2>1. emails' = [emails EXCEPT ![n] = [emails[n] EXCEPT !.whole = emails[n].whole + 1]]
    BY <1>3 DEF Sent
  <2>2. /\ emails'[n] = [emails[n] EXCEPT !.whole = emails[n].whole + 1]
        /\ emails[n] \in [whole : Nat, redacted : Nat]
    BY <1>1, <2>1
  <2>3. /\ emails'[n] \in [whole : Nat, redacted : Nat]
        /\ emails'[n].whole = emails[n].whole + 1 /\ emails'[n].redacted = emails[n].redacted
    BY <1>2, <2>2
  <2>4. /\ \A m \in Notices \ {n} : emails'[m] = emails[m]
        /\ emails' \in [Notices -> [whole : Nat, redacted : Nat]]
    BY <1>1, <2>1, <2>3
  <2>5. emails'[n].whole + emails'[n].redacted = emails[n].whole + emails[n].redacted + 1
    BY <1>2, <2>3
  <2> QED
    BY <2>4, <2>5
<1>4. CASE ~whole
  <2>1. emails' = [emails EXCEPT ![n] = [emails[n] EXCEPT !.redacted = emails[n].redacted + 1]]
    BY <1>4 DEF Sent
  <2>2. /\ emails'[n] = [emails[n] EXCEPT !.redacted = emails[n].redacted + 1]
        /\ emails[n] \in [whole : Nat, redacted : Nat]
    BY <1>1, <2>1
  <2>3. /\ emails'[n] \in [whole : Nat, redacted : Nat]
        /\ emails'[n].redacted = emails[n].redacted + 1 /\ emails'[n].whole = emails[n].whole
    BY <1>2, <2>2
  <2>4. /\ \A m \in Notices \ {n} : emails'[m] = emails[m]
        /\ emails' \in [Notices -> [whole : Nat, redacted : Nat]]
    BY <1>1, <2>1, <2>3
  <2>5. emails'[n].whole + emails'[n].redacted = emails[n].whole + emails[n].redacted + 1
    BY <1>2, <2>3
  <2> QED
    BY <2>4, <2>5
<1> QED
  BY <1>3, <1>4

\* An e-mail that leaves uses the processor's right, or leaves an excuse.
LEMMA AnswerInv ==
  ASSUME IInv, NEW p \in Processors, NEW accepted \in BOOLEAN, NEW answer \in Answers,
         Answer(p, accepted, answer)
  PROVE  IInv'
<1> DEFINE c == current[p].notice
<1>1. /\ current[p] \in Delivery /\ current[p] # NoDelivery /\ current[p].phase = "enviando"
      /\ c \in Copy /\ c.id \in Notices /\ c.link \in BOOLEAN
  BY Delivering DEF IInv, Answer, Copy
<1>2. /\ current'[p] = [phase |-> answer, notice |-> c]
      /\ current' \in [Processors -> {NoDelivery} \union Delivery]
      /\ OthersIdle(p)
      /\ batch' = batch /\ table' = table
  BY <1>1 DEF IInv, TypeOK, Answer, OthersIdle, Delivery
<1>3. /\ accepted => Sent(c.id, c.link)
      /\ ~accepted => emails' = emails
      /\ excuses' = IF accepted /\ answer = "recusado"
                      THEN [excuses EXCEPT ![c.id] = excuses[c.id] + 1] ELSE excuses
      /\ answer = "aceito" => accepted
  BY DEF Answer
<1>4. /\ accepted => /\ emails' \in [Notices -> [whole : Nat, redacted : Nat]]
                     /\ emails'[c.id].whole + emails'[c.id].redacted
                          = emails[c.id].whole + emails[c.id].redacted + 1
                     /\ \A n \in Notices \ {c.id} : emails'[n] = emails[n]
      /\ excuses' \in [Notices -> Nat]
  BY <1>1, <1>3, SentCounts DEF IInv, TypeOK
<1>5. TypeOK'
  <2>1. sends' \in [Processors -> Nat]
    BY DEF IInv, TypeOK, Answer
  <2>2. emails' \in [Notices -> [whole : Nat, redacted : Nat]]
    BY <1>3, <1>4 DEF IInv, TypeOK
  <2> QED
    BY <1>2, <1>4, <2>1, <2>2 DEF IInv, TypeOK, Answer
<1>6. HeldOnce'
  BY <1>1, <1>2 DEF IInv, HeldOnce, OthersIdle
<1>7. SecretsLeave'
  BY <1>2 DEF IInv, SecretsLeave
<1>8. ASSUME NEW n \in Notices
      PROVE  Rights(n)'
  <2>1. /\ Rights(n)
        /\ emails[n].whole \in Nat /\ emails[n].redacted \in Nat /\ excuses[n] \in Nat
        /\ RowOwes(table'[n]) = RowOwes(table[n]) /\ RowOwes(table[n]) \in {0, 1}
    BY <1>2 DEF IInv, TypeOK, RightsAddUp, RowOwes
  <2>2. CASE n # c.id
    <3>1. MaySend(p, n)' <=> MaySend(p, n)
      BY <1>1, <1>2, <2>2 DEF MaySend
    <3>2. emails'[n] = emails[n] /\ excuses'[n] = excuses[n]
      BY <1>1, <1>3, <1>4, <2>2 DEF IInv, TypeOK
    <3> QED
      BY <1>2, <2>1, <3>1, <3>2, SendersMove DEF Rights
  <2>3. CASE n = c.id /\ answer = "aceito"
    <3>1. MaySend(p, n)
      BY <1>1, <2>3 DEF MaySend
    <3>2. ~MaySend(p, n)'
      <4>1. \A d \in batch[p] : d.id # n
        BY <1>1, <2>3 DEF IInv, HeldOnce
      <4> QED
        BY <1>2, <2>3, <4>1 DEF MaySend
    <3>3. /\ emails'[n].whole + emails'[n].redacted = emails[n].whole + emails[n].redacted + 1
          /\ emails'[n].whole \in Nat /\ emails'[n].redacted \in Nat
          /\ excuses'[n] = excuses[n]
      BY <1>3, <1>4, <2>3
    <3> QED
      BY <1>2, <2>1, <3>1, <3>2, <3>3, SendersMove DEF Rights
  <2>4. CASE n = c.id /\ answer = "recusado"
    <3>1. MaySend(p, n) /\ MaySend(p, n)'
      <4>1. current'[p] # NoDelivery /\ current'[p].phase = "recusado" /\ current'[p].notice = c
        BY <1>2, <2>4 DEF NoDelivery
      <4> QED
        BY <1>1, <2>4, <4>1 DEF MaySend
    <3>2. CASE accepted
      <4>1. /\ emails'[n].whole + emails'[n].redacted = emails[n].whole + emails[n].redacted + 1
            /\ emails'[n].whole \in Nat /\ emails'[n].redacted \in Nat
            /\ excuses'[n] = excuses[n] + 1
        BY <1>1, <1>3, <1>4, <2>4, <3>2 DEF IInv, TypeOK
      <4> QED
        BY <1>2, <2>1, <3>1, <4>1, SendersMove DEF Rights
    <3>3. CASE ~accepted
      <4>1. emails' = emails /\ excuses' = excuses
        BY <1>3, <3>3
      <4> QED
        BY <1>2, <2>1, <3>1, <4>1, SendersMove DEF Rights
    <3> QED
      BY <3>2, <3>3
  <2> QED
    BY <2>2, <2>3, <2>4 DEF Answers
<1> QED
  BY <1>5, <1>6, <1>7, <1>8 DEF IInv, RightsAddUp

LEMMA RecordedRow ==
  ASSUME NEW row \in Row, NEW c \in Copy
  PROVE  /\ recordedSuccess(row) \in Row /\ recordedFailure(row, c) \in Row
         /\ RowOwes(recordedSuccess(row)) = 0 /\ RowOwes(recordedFailure(row, c)) = 1
         /\ ~recordedSuccess(row).link
         /\ recordedFailure(row, c).status \in {"enviada", "falhou"}
              => ~recordedFailure(row, c).link
<1>1. {"enviada", "falhou", "pendente"} \subseteq Statuses
  BY DEF Statuses
<1>2. /\ recordedSuccess(row) \in Row
      /\ recordedSuccess(row).status = "enviada" /\ ~recordedSuccess(row).link
  BY <1>1 DEF recordedSuccess, Row
<1>3. CASE c.attempts >= c.maxAttempts
  BY <1>1, <1>2, <1>3 DEF recordedFailure, Row, RowOwes
<1>4. CASE ~(c.attempts >= c.maxAttempts)
  BY <1>1, <1>2, <1>4 DEF recordedFailure, Row, RowOwes
<1> QED
  BY <1>3, <1>4

\* A failure on record gives the processor's right back to the row, whatever
\* happened to the row in between.
LEMMA RecordInv ==
  ASSUME IInv, NEW p \in Processors, Record(p)
  PROVE  IInv'
<1> DEFINE c == current[p].notice
           written == IF current[p].phase = "aceito" THEN recordedSuccess(table[c.id])
                                                      ELSE recordedFailure(table[c.id], c)
<1>1. /\ current[p] \in Delivery /\ current[p] # NoDelivery /\ current[p].phase \in Answers
      /\ c \in Copy /\ c.id \in Notices
  BY Delivering DEF IInv, Record, Answers
<1>2. /\ table' = [table EXCEPT ![c.id] = written]
      /\ current'[p] = NoDelivery
      /\ current' \in [Processors -> {NoDelivery} \union Delivery]
      /\ OthersIdle(p)
      /\ UNCHANGED << batch, sends, emails, excuses, budget >>
  BY DEF IInv, TypeOK, Record, OthersIdle
<1>3. table[c.id] \in Row
  BY <1>1 DEF IInv, TypeOK
<1>4. /\ written \in Row
      /\ written.status \in {"enviada", "falhou"} => ~written.link
      /\ RowOwes(written) = IF current[p].phase = "aceito" THEN 0 ELSE 1
  BY <1>1, <1>3, RecordedRow
<1> HIDE DEF written
<1>5. /\ table'[c.id] = written
      /\ \A n \in Notices \ {c.id} : table'[n] = table[n]
  BY <1>1, <1>2 DEF IInv, TypeOK
<1>6. TypeOK'
  BY <1>2, <1>4 DEF IInv, TypeOK
<1>7. HeldOnce'
  BY <1>2 DEF IInv, HeldOnce, OthersIdle
<1>8. SecretsLeave'
  BY <1>4, <1>5 DEF IInv, SecretsLeave
<1>9. ASSUME NEW n \in Notices
      PROVE  Rights(n)'
  <2>1. /\ Rights(n)
        /\ emails[n].whole \in Nat /\ emails[n].redacted \in Nat /\ excuses[n] \in Nat
        /\ RowOwes(table[n]) \in {0, 1}
    BY DEF IInv, TypeOK, RightsAddUp, RowOwes
  <2>2. CASE n # c.id
    <3>1. MaySend(p, n)' <=> MaySend(p, n)
      BY <1>1, <1>2, <2>2 DEF MaySend
    <3> QED
      BY <1>2, <1>5, <2>1, <2>2, <3>1, SendersMove DEF Rights
  <2>3. CASE n = c.id /\ current[p].phase = "aceito"
    <3>1. MaySend(p, n)' <=> MaySend(p, n)
      BY <1>1, <1>2, <2>3 DEF MaySend
    <3> QED
      BY <1>2, <1>4, <1>5, <2>1, <2>3, <3>1, SendersMove DEF Rights
  <2>4. CASE n = c.id /\ current[p].phase = "recusado"
    <3>1. MaySend(p, n)
      BY <1>1, <2>4 DEF MaySend
    <3>2. ~MaySend(p, n)'
      <4>1. \A d \in batch[p] : d.id # n
        BY <1>1, <2>4 DEF IInv, HeldOnce
      <4> QED
        BY <1>2, <4>1 DEF MaySend
    <3>3. RowOwes(table'[n]) = 1
      BY <1>4, <1>5, <2>4
    <3> QED
      BY <1>2, <2>1, <3>1, <3>2, <3>3, SendersMove DEF Rights
  <2> QED
    BY <1>1, <2>2, <2>3, <2>4 DEF Answers
<1> QED
  BY <1>6, <1>7, <1>8, <1>9 DEF IInv, RightsAddUp

\* The rights of a processor that stops are lost, until the leases run out.
LEMMA InterruptInv ==
  ASSUME IInv, NEW p \in Processors, Interrupt(p)
  PROVE  IInv'
<1>1. /\ batch'[p] = {} /\ current'[p] = NoDelivery
      /\ OthersIdle(p)
      /\ UNCHANGED << table, sends, emails, excuses >>
  BY DEF IInv, TypeOK, Interrupt, OthersIdle
<1>2. TypeOK'
  <2>1. budget.mishaps - 1 \in Nat
    BY DEF IInv, TypeOK, Interrupt
  <2>2. budget' \in [mishaps : Nat, retries : Nat]
    BY <2>1 DEF IInv, TypeOK, Interrupt
  <2> QED
    BY <2>2 DEF IInv, TypeOK, Interrupt
<1>3. HeldOnce'
  BY <1>1 DEF IInv, HeldOnce, OthersIdle
<1>4. SecretsLeave'
  BY <1>1 DEF IInv, SecretsLeave
<1>5. ASSUME NEW n \in Notices
      PROVE  Rights(n)'
  <2>1. /\ Rights(n)
        /\ emails[n].whole \in Nat /\ emails[n].redacted \in Nat /\ excuses[n] \in Nat
        /\ RowOwes(table[n]) \in {0, 1}
    BY DEF IInv, TypeOK, RightsAddUp, RowOwes
  <2>2. ~MaySend(p, n)'
    BY <1>1 DEF MaySend
  <2> QED
    BY <1>1, <2>1, <2>2, SendersMove DEF Rights
<1> QED
  BY <1>2, <1>3, <1>4, <1>5 DEF IInv, RightsAddUp

-----------------------------------------------------------------------------

LEMMA InitInv ==
  ASSUME BoundsAssumption, Init
  PROVE  IInv
<1>1. TypeOK
  BY DEF BoundsAssumption, Init, TypeOK, Absent, Row, Statuses
<1>2. HeldOnce /\ SecretsLeave
  BY DEF Init, HeldOnce, SecretsLeave, Absent
<1>3. ASSUME NEW n \in Notices
      PROVE  Rights(n)
  <2>1. Senders(n) = {}
    BY DEF Init, Senders, MaySend
  <2>2. /\ RowOwes(table[n]) = 1
        /\ emails[n].whole = 0 /\ emails[n].redacted = 0 /\ excuses[n] = 0
    BY DEF Init, RowOwes, Absent
  <2> QED
    BY <2>1, <2>2, FS_EmptySet DEF Rights
<1> QED
  BY <1>1, <1>2, <1>3 DEF IInv, RightsAddUp

LEMMA StepInv ==
  ASSUME BoundsAssumption, IInv, [Next]_vars
  PROVE  IInv'
<1>1. ASSUME NEW n \in Notices,
             Enqueue(n) \/ LeaseExpires(n) \/ BecomesDue(n) \/ Retry(n)
      PROVE  IInv'
  BY <1>1, EnqueueInv, LeaseExpiresInv, BecomesDueInv, RetryInv
<1>2. ASSUME NEW p \in Processors,
             ClaimSome(p) \/ SendOne(p) \/ AnswerOne(p) \/ Record(p) \/ Interrupt(p)
      PROVE  IInv'
  BY <1>2, ClaimInv, SendInv, AnswerInv, RecordInv, InterruptInv
     DEF ClaimSome, SendOne, AnswerOne
<1>3. CASE UNCHANGED vars
  BY <1>3 DEF vars, IInv, TypeOK, HeldOnce, SecretsLeave, RightsAddUp, Rights, Senders, MaySend
<1> QED
  BY <1>1, <1>2, <1>3 DEF Next

\* Rights to send are created with the notice and by excuses only, and every
\* e-mail uses one up.
THEOREM RightsAreCounted == Spec => []IInv
<1>1. Init => IInv
  BY InitInv, BoundsAssumption
<1>2. IInv /\ [Next]_vars => IInv'
  BY StepInv, BoundsAssumption
<1> QED
  BY <1>1, <1>2, PTL DEF Spec

\* However many instances claim, stop, lose leases or record late, an e-mail
\* repeats at most once for each lease that ran out and each answer SMTP kept.
THEOREM DuplicatesAreExcused == Spec => []NoUnexcusedDuplicate
<1>1. ASSUME IInv
      PROVE  NoUnexcusedDuplicate
  <2>1. ASSUME NEW n \in Notices
        PROVE  emails[n].whole + emails[n].redacted <= 1 + excuses[n]
    <3>1. /\ Rights(n)
          /\ emails[n].whole \in Nat /\ emails[n].redacted \in Nat /\ excuses[n] \in Nat
      BY <1>1 DEF IInv, TypeOK, RightsAddUp
    <3>2. Cardinality(Senders(n)) \in Nat /\ RowOwes(table[n]) \in {0, 1}
      BY <3>1, FS_CardinalityType DEF Rights, RowOwes
    <3> QED
      BY <3>1, <3>2 DEF Rights
  <2> QED
    BY <2>1 DEF NoUnexcusedDuplicate
<1> QED
  BY <1>1, RightsAreCounted, PTL

\* No link or password stays in a row that was sent or given up, even when two
\* processors record results of the same notice in any order.
THEOREM SecretsDoLeave == Spec => []SecretsLeave
<1>1. IInv => SecretsLeave
  BY DEF IInv
<1> QED
  BY <1>1, RightsAreCounted, PTL

=============================================================================
