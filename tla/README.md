# Central de Manutenção: formal verification

Central de Manutenção receives maintenance requests (RMAs, "chamados"): a
customer opens one with its equipment and fiscal documents, ships it, the
factory receives it, diagnoses, repairs, films a proof that it works, and ships
it back.  The API is a NestJS application over PostgreSQL; a React application
and a page opened on a phone are its clients.  The modules in this directory
specify what the API and the stateful parts of its clients do, check it with TLC
on small instances, and prove the main results with TLAPS for every instance.

## The system: parts, state, interactions

| Part | State | Operations | What makes it correct |
| --- | --- | --- | --- |
| RMA lifecycle (`rmas/`, contracts) | `rmas`, `rma_items`, shipments, receipts, validation videos | open, confirm shipment, register receipt, change stage, attach video, assign, change priority, cancel | stages, dates and logistics agree; the deadline is given once; nothing returns without its proof; an RMA closes when its last item is delivered and never changes afterwards |
| RMA opening and documents (`rmas/rma-opening*`, `rma-documents*`) | the same tables, `rma_documents`, files linked | open with an `openingKey`, add documents | one RMA per key, each file used once |
| RMA queries and pages (`rmas.service`, `portal-rmas.service`, `sla`, `rma-filters`, `pages/rmas`) | none of their own; the rows, and the present time | detail, portal detail, attention queue, what each page offers | two computations of one deadline agree; pages offer what the API accepts |
| Conversation (`rma-messages`, notices, `RmaConversation`) | `rma_messages`, notices with a dedupe key; the list each page shows | send, notify at most once per window, poll | one notice for a side and window, nobody is missed, nothing sent disappears |
| Notification queue (`notifications/`) | `notifications` (status, attempts, lease, payload) | enqueue, claim a batch, send, record, retry | at least once, repeated only for cause, no secret left behind, nothing stuck |
| Files (`files/`) | `files` and their content on disk | upload, claim, read, remove expired | a record always has its content, a file is linked once |
| Mobile uploads (`mobile-uploads/`, `MobileUploadButton`, `MobileUploadPage`) | `upload_sessions`, their files, the window and the phones | create, upload by QR code, attach the video, poll, close | limits hold under simultaneous uploads, a closed code takes nothing, what arrives is shown |
| Opening form (`pages/rmas/opening`, `components/terms`, `upload-queue`) | the draft, the queue of uploads, the review, requests in flight | pick, move, remove, receive from a phone, review, confirm, accept the terms | a file stays with its equipment, what is reviewed is what is sent |
| Accounts (`identity/accounts*`, `portal-access`) | `accounts` | change role, disable, enable | there is always an active administrator |
| Sessions and passwords (`identity/auth*`, `sessions*`, `passwords*`) | `sessions`, `account_tokens`, password hashes, failures in memory | login, logout, reset, change | what a change of password or account ends stays ended |
| Invitations (`identity/invitations*`) | `invitations` | issue, revoke, accept | accepted once |
| Customers (`customers/`, `AuthService.register`, `portal-access`) | `customers`, `customer_contacts`, their accounts | register, create, add a contact, give access | customer, contact and account are born together; nobody reaches the customer of another |
| Legacy import (`legacy-import/`) | all of the above, `legacy_records` | import staff, customers, tickets | each ticket whole or not at all, once, every text of its conversation once and on the right side |

Operations interact through shared tables.  Every one that changes an RMA locks
its row first (`lockOpenRma`); the transaction of an operation also inserts the
notices it causes, which a timer in each API process sends later; the RMA takes
files that the file service stored before; a phone uploads on behalf of the
account that made the QR code; the import writes RMAs in the stages the old
system left them in; pages compute what they offer from answers that may be old.
What is hard is listed with its lines under `hazards` in `PROJECT.json`:
concurrent transactions at READ COMMITTED that read, decide and write in several
statements; unique keys and row locks taken in different orders; leases that end
while their holder is alive; answers of SMTP and of the API that get lost;
results recorded late; uploads answered when their place has moved; executions
stopped in the middle; and long legal sequences of stage changes over four date
columns that CHECK constraints relate.

## Modules

| Module | What it is |
| --- | --- |
| `RmaStages` | The contracts: stages, the relation between them, who moves an item where, when the deadline runs, until when an RMA can be cancelled. |
| `RmaPromise` | Abstract specification: where each piece of equipment is, whether its deadline runs, how the RMA ended. |
| `RmaLifecycle` | The committed rows of RMAs and items. One action per operation of the API: `OpenByCustomer`, `OpenByStaff`, `Import`, `ConfirmShipment`, `RegisterReceipt`, `ChangeStage`, `AttachVideo`, `Assign`, `ChangePriority`, `Cancel`, and `Configure` for a deployment with another `RMA_SLA_HOURS`. Implements `RmaPromise` (`INSTANCE RmaPromise WITH` the mapping `outcome`, `place`, `clock`). |
| `RmaRequests` | The same operations as the API runs them: a request finds the RMA, locks its row, makes its checks, writes and commits; others run in between; any may fail; a restart undoes all. Implements `RmaLifecycle`. |
| `RmaPanel` | `RmaLifecycle` with time: the instants of its dates, the internal notes, the state of each deadline, the attention queue, what each page offers to each role and what the API accepts from it. |
| `RmaLifecycleProofs` | The theorems about `RmaLifecycle`, then about `RmaRequests` and then about `RmaPanel`, with their proofs. |
| `RmaConversation` | The messages of one RMA, their transactions and notices, and the pages that poll them. |
| `NotificationOutbox` | The queue of e-mails, its processors, SMTP, leases, retries. |
| `Credentials` | The password of an account, its sessions and its reset links: `login`, `change`, `requestReset` and `confirmReset` broken at the points where they verify outside the transaction or wait for a row, `Logout`, `Disable`, `Enable`, links that age. |
| `Accounts` | Roles and status of accounts, and how accounts are made: `changeRole`, `disable`, `enable`, invitations issued, revoked, accepted and expiring, accesses given by the team, self-registration. Each request is broken where it reads, locks or writes. |
| `Customers` | Registrations by the customer and by the team, contacts and their accesses, broken at every look, insert and lock, with the waits and deadlocks of unique keys. |
| `Files` | The temporary files of an account: upload (quota, content, row), the cleaner, a stop of the process. |
| `Openings` | `Files` composed with the requests that use them: openings with a key and documents sent later, before and inside their transactions. |
| `MobileUploads` | `Files` composed with the QR codes, the phones that send through them and the computer that polls and closes. |
| `OpeningDraft` | The opening form in the browser: draft, queue of uploads, checks of the invoice, terms, review, confirmation and its lost answers. |
| `LegacyImport` | The command of the import, its three phases, its files and its report, run any number of times, at once or not, while the portal is in use. |
| `AccountsProofs`, `CredentialsProofs`, `CustomersProofs`, `LegacyImportProofs`, `NotificationOutboxProofs` | The theorems about the module each is named after, with their proofs. |
| `PagesProofs` | The theorems about what the pages show: `RmaConversation`, then `OpeningDraft`, with their proofs. |
| `FilesProofs` | The theorems about `Files` and `Openings`, then about `MobileUploads`, with their proofs. |
| `MC*` | Instances for TLC; each `.cfg` is one run. |

### How state and actions correspond to the code

* `rmas[r]` and `items[i]` are the rows.  An instant column is kept as whether
  it is set, because what the code asks of one is only that; the rows of the two
  logistics tables are counted per item; the validation video is a flag of its
  item; `returning` is what the cancellation wrote in the internal note and in
  the e-mail.  An RMA not opened yet has origin `"nenhuma"`.
* An action of `RmaLifecycle` is a whole transaction.  Its guard is
  `lockOpenRma`, the checks that follow it, and the `WHERE` of the update
  together with `ensureAllMoved`, which undoes the transaction unless every item
  chosen was moved.  `ChangeStage` includes the closing of the RMA.
* `RmaRequests` breaks that transaction at the statements another transaction
  can be seen between: the search outside the transaction, the lock, the reads,
  the update, the commit.  What a transaction wrote is in `after[p]` until
  `Commit` shows it to others.  `Hang` is a transaction that stops making progress
  and keeps its lock; `Fail` ends one, because it failed or because the pool's
  time-outs reached it; `Restart` stops the process and undoes them all.
* `RmaPanel` adds to those rows what they leave out: `startedAt` and `finishedAt`
  are the two instants of the deadline, in hours, and `updatedAt` is the date of
  the row, which `touchRma` writes by hand and `$onUpdate` by itself.  A query
  reads one committed state.  Operators named after a component
  (`ChangeStageAction`, `ConfirmShipmentAction`, ...) say what that component
  lets somebody do with the RMA it was given; `accepts...` say what the API does
  with it.  `ReceiveItemsAction` exists twice in the interface, as its dialog and as
  the stage `recebido` of `ChangeStageAction`, which the page sends to the same
  route.
* In `RmaConversation` a message is named by the instant its transaction began.
  A request is `"gravada"`, `"avisada"`, then confirmed or undone; the key of a
  notice inserted and not committed makes another insertion wait
  (`uncommitted`).  Windows are the intervals of a clock that starts at the epoch
  (`noticeKey`), and `Inbox` is the mailbox of the sector, the one that hears of
  customers.  `list[a]` is what a page shows and the request it waits for.  To ask
  again (`invalidateQueries`, after a message is sent) gives up a request under way
  only when the page already has a list (`loaded`); before that it joins it, so the
  first list of a page may lack the message the form has just sent (`mayLack`).
  `told[a]` is what the page was told it sent, without what that first list may lack;
  it exists to state `SentIsShown`.  `Heard` is about every message, those too.
* In `NotificationOutbox` a row keeps its status, its attempts and their limit,
  whether it is due, whether its lease runs, and whether the payload still has
  its link or password.  `batch[p]` and `current[p]` are what the processor took
  into memory with `RETURNING`; results are recorded from that copy and by id
  alone, as `deliver` does.  `excuses` counts, for each notice, the leases that
  ended and the answers that were lost; it exists to state what repetition is
  excused.
* `Credentials` follows one account, since accounts share no row. `pc[p]` and
  `op[p]` are a request in progress, `held` the row locks a transaction keeps
  between two of its steps (the account for `requestReset`, the link for
  `confirmReset`); steps that end their transaction need the lock free and do
  not record it. A session keeps what its holder `proved` to know. Three
  variables only state properties: `overtaken` are the logins whose
  verification is older than the last ending of sessions, and `late` marks the
  session such a login opens; `overwritten` tells that a login wrote a legacy
  password back over a newer one; `resets` counts uses of each link.
* In `Accounts`, an account is the row of its e-mail. `held` has the advisory
  lock of the administrators and the rows a transaction keeps between two of its
  steps. An update that is not committed is held, not written: `accept` marks its
  invitation by taking the row (`MarkAccepted`) and the mark becomes
  `"aceito"` when its account is inserted, so a refusal in between leaves the
  invitation open, as the transaction undone does. `InsertInvitation` and
  `InsertAccount` look again at what the unique indexes guarantee: one account,
  and one open invitation, for an e-mail.
* In `Customers`, `plan` is the order in which each operation looks at keys and
  inserts them; `held` are the keys a transaction inserted or locked and has not
  committed, which make another one wait.  A customer is named by its document
  and the e-mail of its first contact, so that two customers of one document
  would be two.  `Deadlock` undoes one of the requests of a cycle of waits;
  `Fail` is any other error.
* In `Files`, `row` and `content` are the table and the disk, which are written
  in separate steps; `discarding` is what the cleaner deleted from the table and
  has yet to delete from the disk. The cleaner's `DELETE` waits for rows a
  transaction holds, which `Openings` passes to it (`HeldFiles`).
* In `Openings` an opening key stands for the RMA it opens. Holding a key is both
  an RMA inserted and not committed, which makes another insertion of that key
  wait, and the lock of an RMA that exists. `ReadInvoiceRow` and `ReadInvoiceContent` are
  `acceptForRma`, before the transaction; `ClaimFiles` links one field of the
  form at a time; `Commit` writes what the transaction did, or undoes it when a file
  was missing. `answer` is what the last request was told. All files belong to one
  account.  `PurposeOf` is what each was sent for: `claimTemporaryFiles` finds a file
  only in a field of its purpose, so one named in two fields is refused; a video is
  claimed as a photo is.
* In `MobileUploads`, `session` is the row of a code, `sent` its
  `upload_session_files`; an upload locks the row, stores, answers, and, for a
  validation, attaches in a second transaction, whose failure gives the room
  back.  `window` is the dialog of the computer with the status it last received,
  `poll` the answer on its way, `deleting` the `DELETE` a closed dialog sent;
  `page` is what a phone believes is left to send.
* In `OpeningDraft`, `upload[f]` goes through the queue (waiting, sending, told
  to wait, done); an answer replaces the slot of its file wherever it is by then,
  and nowhere if it was removed.  `check[f]` is the validation of an invoice: under
  way, paused without a connection, or answered.  `Reconnected` resumes the paused
  one and repeats the failed one, whether the form is being edited or reviewed, since
  TanStack Query refetches on reconnect; so a check may be under way, and answer
  "divergente", behind a review.  The account has accepted a version of the terms
  (`account`), which the page knows from the session it read last (`session`); an
  acceptance with another opening, a session read again (`SessionRead`) and one that
  cannot be read, which takes the form off the page with its draft (`SessionLost`,
  `page` "perdido"), happen at any time.  `ready` is what the review froze; `request`
  what each confirmation carries until the server gets it or the network drops
  it; `opened` what the server has for the key, as `Openings` models it.
* In `LegacyImport`, `dump` is the previous system, `records` the table
  `legacy_records`, `rmas` the imported RMAs with everything their transaction
  wrote, `disk` the copies of files by execution, ticket and order, and `run` the
  progress, maps and report of each execution.  An entry of a conversation has a
  `text` or not, as `plainTextOf` leaves it: `messagesOf` and `notesOf` take only
  those that have (`entriesOf`), and a ticket opens its conversation with the text of
  its `opening`, if any.  `Register` is the portal in use.

## Runs

| Run | Instance | Shows |
| --- | --- | --- |
| `rma_lifecycle` | one RMA of three items, one person, two priorities, one value of `RMA_SLA_HOURS` (`rma_panel` has two) | the invariants, that a closed RMA is frozen, and that the lifecycle implements `RmaPromise` |
| `rma_requests` | one RMA of two items, two concurrent requests, the operations that can conflict (the theorem `RequestsAreOperations` has them all, changes of assignee and priority too) | that concurrent requests look like operations one at a time, and that each is answered |
| `rma_panel` | one RMA of two items, one person, deadlines of one or two hours, two hours of time | the queue selected by the database and the pages agree, what is offered is accepted, verdicts are final, and the date shown tells of what the customer sees |
| `rma_conversation` | one agent, one customer, two messages in transactions that overlap, windows of two instants started anywhere, lists that fail or come late from the first one on | notices, lists that never lose what was sent once they are loaded, and that every message reaches every page |
| `notifications` | two processors, one notice, two attempts, one retry, three mishaps | repetition only for cause, redaction, and that every notice is resolved |
| `credentials` | two concurrent requests of the four kinds, an account with a legacy hash, two passwords, two sessions, two links | sessions prove the current password unless their login was overtaken, links, and that crossed locks block nobody |
| `accounts` | two concurrent requests; two administrators who act on each other; an e-mail without account, invited up to twice, given access, registered | an administrator always remains, and an invitation answered or replaced is never accepted |
| `customers` | two concurrent requests; a new document registered by both sides with equal or different e-mails; an imported customer registered again, given access, with a new contact; an e-mail of the team | a document has one customer, nobody reaches the customer of another, and crossed keys block nobody |
| `openings` | two concurrent requests; an opening by invoice or by declaration, documents for it and for an imported RMA; three files, a quota of two | contents exist, files are used once, documentation in order stays, repetitions without invoice get their RMA |
| `mobile_uploads` | one code, of an opening or a validation; two phones, two videos, room for one | limits, closing, attaching, and that what arrives is shown |
| `opening_draft` | two equipment, two photos, an invoice, one upload at a time, one retry, one confirmation, two versions of the terms, connections and sessions that come and go | files follow their equipment, and what is reviewed is what is sent |
| `legacy_import` | two executions, two agents, two users, two tickets, eight dumps that differ in what the import decides on | nothing twice, tickets whole and accounted for, conversations on their side with every text once |

Why the bounds are enough.  Two items make the difference between "some" and
"all" of an RMA, and a third leaves some behind twice; nothing counts items or
RMAs.  That an operation does not reach beyond its own RMA needs no second one in
the runs: the theorems hold for any number of them.  Two requests are what a race needs: a row
lock makes further ones wait behind the first.  Two processors and a lease that
can end at any moment give every overlap of claims, since a third claim behaves
towards the second as the second towards the first.  One notice is enough in
`notifications`: notices meet only in the batch of a processor, where what one
does to another is to make it wait, and a lease that may end at any moment
already stands for any wait.
`Mishaps` (processors that stop or fail to record, and leases that run out
though their holder is alive), `Retries`, `MAX_ATTEMPTS` and `BATCH_SIZE` bound
what an unlucky day can add; `LeaseCovers`, the sends that surely end within a
lease, is 0, the most permissive value, since a process may stall.
In `credentials` two passwords tell the current
one from another, two sessions the one that asks from one that is ended, two
links the last one from a replaced one; a login or a request for a link starts
only while the row it will insert is available.
In `accounts` two administrators are the fewest that can remove each other, and
two invitations the fewest of which one replaces the other.
In `customers` a request holds at most one document, one e-mail and one contact,
so two requests make every wait and every cycle of two; longer cycles only repeat
them.
In `openings` each file is wanted by two requests that may run at once, one of them in
a different field of a different RMA, and one request names an XML in two
fields; a quota below the number of files makes it refuse.
In `rma_panel` `MaxHour` 2 with deadlines of one and two hours and a warning of one
lets a deadline be far, near, exactly at its end and gone by, and an item begin
after another is late; the three roles are those whose permissions differ on an
RMA (an administrator has those of an agent).  In `rma_conversation` `WINDOW` is
two instants and the first message falls anywhere in one, so that two messages
share a window or not; `MaxWrites` and two slots let two transactions overlap.
In `mobile_uploads` two files compete for the room of one, in the code and in
the quota of the account; in `opening_draft`
`MAX_PARALLEL_UPLOADS` 1 makes the second file wait, and `Retries` 1 lets an upload be
told to wait and then fail; `LastTerms` 2 is one change of the terms.  In
`legacy_import` the second execution may follow the first, stopped anywhere, or
run beside it; two of each kind make them share an e-mail, a customer or a
requester.  Symmetry is used over interchangeable items, requests, executions,
equipment and photos, only in runs whose temporal properties are action
properties or a refinement without fairness.

`CHECK_DEADLOCK FALSE` is given where the system may really stop: when every RMA
is closed, every notice sent, every file used or every message written, nothing
remains to be done.

### Fairness

`RmaRequests` assumes weak fairness of the steps of a request in progress (Node and
PostgreSQL run them until it hangs), of the time-outs of the pool, which end
one that does, and strong fairness of the lock: PostgreSQL queues the transactions that wait for a row.
`NotificationOutbox` assumes that sending, answering and recording go on
(`send` is bounded by its two time-outs), that time passes, so waits and leases
end, and that a claimable row is not passed over for ever (the claim takes the
oldest `nextAttemptAt` first and the timer never stops).  `Credentials` assumes
that the steps of a request go on, with strong fairness because those that need
a row wait for it in PostgreSQL's queue, and that PostgreSQL ends one of two
transactions that wait for each other (`victim`).  `Customers` assumes the same of
its requests: weak fairness of looking, committing and of the detection of
deadlocks, strong fairness of what waits for a key.  `MobileUploads` assumes that
the computer keeps asking while its dialog is open (`refetchInterval`) and that
answers are not lost for ever; `RmaConversation` that pages ask again every twenty
seconds, as those in a visible tab do (TanStack Query pauses the others), show what they get, and that a list asked for again and again is read in
the end.  Openings, retries, mishaps, uploads and requests are never assumed to
happen.

## Theorems

`RmaLifecycleProofs` proves, for any sets of RMAs, items, staff, priorities and
hours, under the three assumptions `RmaLifecycle` names (each item has an RMA;
`None` is neither an hour nor a person; `"normal"` is a priority):

* the type invariant `TypeOK`, and every safety invariant the run checks:
  `ChecksHold`, `LogisticsAddUp`, `VideoBeforeReturn`, `ClosesByItself`,
  `ReturnListIsWhatArrived`;
* the action properties `ClosedIsFrozen` and `DeadlineIsFixed` (a deadline is
  given once and neither its start nor its hours change; `VerdictIsFinal`, below,
  is its counterpart with instants);
* `KeepsPromise`: `RmaLifecycle` implements `RmaPromise`.

None of the invariants is inductive alone.  `ReturnListIsWhatArrived` compares
stages with dates at the moment of a cancellation, so it needs that every item
has arrived exactly when its stage says so; `ChecksHold` needs the same for the
deadline.  The inductive invariant `IInv` says, for one item, how stage, arrival,
deadline, logistics and video relate (`ItemOK`), and for one
RMA (`RmaOK`, `ClosesByItself`) how its closing relates to the stages of its items; `Invariant` proves
`Spec => []IInv` with one step per action, and the other theorems follow from
it.  The two action properties and the refinement use `IInv` in the state before
the step.

`AccountsProofs` proves, for any e-mails, invitations, requests and
administrators at the start, under the four assumptions `Accounts` names (the
values that name different things differ; invitations are numbered; somebody
administers at the start), its `TypeOK` and `SomeoneAdministers`. The latter is not inductive: a request
changes an account some steps after it counted the administrators. The
invariant adds that from that count to the change the request holds the advisory
lock (`HoldsOK`), hence alone, and that the other administrator it saw is still
there (`LeavesAnother`), since every operation that could remove one needs that
lock.

The second invariant of that module, `InvitationsOK`, is what `LastInvitationCounts`
needs: an invitation is held only while it is open, they are issued in the order of
their numbers, and the open one of an e-mail is the last of it.

The second part of `RmaLifecycleProofs` proves `OneAtATime`: for any number of
concurrent requests, `RmaRequests` implements `RmaLifecycle`.  The invariant `RInv` says of a request what
its place in its transaction gives it: from the lock on it is alone with its RMA,
so what it checked is still true of the committed rows, and what it wrote is what
the operation makes of them.  It holds together with `IInv` of the lifecycle, since
each rests on the other, and `HoldsUnderConcurrency` then carries every theorem of
the first part over to concurrent requests, the refinement of `RmaPromise`
included.

The third part of that module is about `RmaPanel`, for any hours and pages.  It
implements `RmaLifecycle` (`PanelIsLifecycle`), so `IInv` holds of what every query
reads, with the types of the instants beside it (`Instants`).
`QueueAgrees` follows from the database and the pages looking at the same due times
(`SameDueTimes`) and from the least of them being one of them.
`OfferedIsAccepted` compares, for any selection of items, what the component asks of each
with what the transaction asks of all (`OffersOfSelection`, `ShipmentOffered`).
`VerdictIsFinal` and `DateTellsTheCustomer` are proved step by step.

`NotificationOutboxProofs` proves `NoUnexcusedDuplicate` and `SecretsLeave` for any
numbers of notices, processors, attempts, retries and mishaps.  The number of
e-mails says nothing by itself, because a lease that ended leaves two processors
with one notice.  The invariant counts rights to send: one comes with the notice
and one with each excuse; it is the row's until it is claimed and then of one
processor, and an e-mail uses it up (`RightsAddUp`).

`CredentialsProofs` proves `SessionsProve`, `LinkSetsOnce` and the action property
`FreshLinkStays` for any passwords, sessions, links and requests.  `login` verifies
outside its transaction, so the invariant says what a verification is still worth
(`LoginOK`: it is of the current password, or the login was overtaken or a legacy
hash was written back); a request for a link and a reset rely on the row they lock
(`RequestOK`, `ResetOK`), and a link was used once exactly when it is marked so
(`UsesCounted`).

`CustomersProofs` proves `BornTogether` and the action property `AccessIsGiven` for any
documents, e-mails and requests.  A request looks before it inserts and what it saw
may change in between; the invariant relies on no look, only on what is held: a key
a request inserted is its own and in no committed row until it ends
(`HeldIsFree`), and what it was about is still there (`StillThere`).

`FilesProofs` proves, of `Openings`, `RecordHasContent` and `UsedOnce` and the action properties
`DocumentationSettles` and `RepeatsWithoutInvoice` for any files, keys and
requests.  The invariant says that a row has its content and that a content being
discarded has no row; that a transaction holds only rows that are temporary
(`HeldIsTemporary`), each in one field; that what it found under its lock, the key
free or the documentation pending, is so when it commits (`FoundIsSo`); and that a
file used by an RMA is linked and by one only.

Its second part proves `LimitHolds` and the action property `ClosedTakesNothing`
for any codes, phones and files.  The invariant is about the lock of the row of a
code (`LockHolds`): the upload that has it is alone, and the code is open and has
room for it until it ends, so that counting and inserting are one step.

`PagesProofs` proves, of `RmaConversation`, `Announced` and `SentIsShown` for any accounts, windows
and requests.  The invariant says what is known before the tables show it: a request
that passed by the notice of its window inserted it or left one that is there
(`RequestOK`), and what a page was told it sent is committed and is in the list it
read last (`ToldOK`), since being told makes a page that has a list give up the one on
its way; a page without a list joins its first request, and `told` says what that one
may lack.

Its second part proves, of `OpeningDraft`, `ReviewedIsSent` and the action property
`FilesFollowTheirItem` for any equipment, files, uploads at once and retries.  Nobody
edits a draft under review, but answers still arrive; the invariant says why none
changes it: a slot that is not being sent had the last answer of its upload
(`SlotOK`), a file waits in one place of the queue (`WaitingOnce`) and so answers
once, and a review starts with every slot sent (`ReviewHolds`).  The checks of
the invoice need nothing of the kind: what they answer behind a review changes neither
the draft nor what is sent.
`KeysOnce` is what lets `removeItem`, a filter by key, be the removal of one place.

`LegacyImportProofs` proves `NeverTwice`, `TicketsAreWhole` and
`ConversationKeepsItsSide` for any number of executions, agents, users and tickets and
any dump of the previous system (`DumpsAssumption` says only that an e-mail or a
document that is not valid is `None` and that the entries of a ticket, with text or
without, have numbers of their own).  Who finds no record may be wrong when it writes; what the invariant rests
on is the two keys of `legacy_records` (`RecordsDiffer`), what came with each record
(`RecordsMean`, `ContactsRecorded`, `RmasRecorded`), and, of each execution, what it
knows of the users (`UsersKnown`), what it left behind (`TicketsSettled`,
`RmasBehind`) and whose its copies are (`CopiesKnown`), which others do not touch
(`OthersGoOn`).

The proofs use no assumption but those on constants that the modules name, which
every run evaluates.  Each inductive invariant was first checked by TLC on the
instance of its run.

Model-checked only:

* liveness (`Answered`, `Resolved`, `Heard`, `ReceivedIsShown`), which is out of the
  prover's reach.

Every invariant and every action property of the runs is a theorem.

## Divergences

Where the code does other than what a doc, a comment or a test says, as met while
modelling.  Each is a behaviour the module reaches; no run states it as a
property, since the runs are kept for what holds.

1. **An imported ticket can stay open for ever** (`RmaLifecycle`).  The import
   takes `closedAt` from the ticket and each stage from its equipment
   (`ticket-plan.ts:282`, `ticket-rows.ts:17`).  An open ticket whose equipment are
   all "concluido" enters open with every item `finalizado`: no stage change can
   move an item, closing only happens on a stage change, and cancelling is
   refused after a despatch.  `contracts/src/rma-management.ts:55` says an RMA past its
   despatch "segue até o fim".
2. **A manual retry sends an e-mail without its link** (`NotificationOutbox`,
   `emails[n].redacted`).  The last failed attempt replaces the link and the
   password in the payload by "[removido após envio]"
   (`notification-processor.service.ts:119`), and `retry` re-sends that payload.
   `docs/0-fundacao/0.1-fundacao.md:29` says the notice "pode ser reenviado", and
   `test/notifications.e2e-spec.ts:86` calls it the recovery.
3. **Two live processors can send the same notice** (`NotificationOutbox`).  One
   lease of 120 s covers a batch of ten sent one by one; with slow SMTP it ends
   before the last ones are sent.  `docs/0-fundacao/0.1-fundacao.md:27`:
   "Processadores concorrentes não enviam o mesmo aviso duas vezes".
   `NoUnexcusedDuplicate`, which holds, says what repetitions there can be.
4. **A login can outlive the change that should have ended it** (`Credentials`).
   `login` verifies the password outside its transaction
   (`auth.service.ts:47-75`) and then opens a session without looking again; a
   change, a reset or a disabling that commits in between ends the sessions it
   can see, and the new one stays with a password that is no longer the
   account's.  When the hash was of the previous system, that transaction also
   writes the old password back.  `passwords.service.ts:21` says both "encerram as
   sessões que não comprovaram a senha nova".  `SessionsProve`, which holds, says
   that this is the only way.
5. **A parallel repetition of an opening may be refused** (`Openings`). The key
   is searched, then the invoice is read while it is temporary, then the
   transaction begins (`rma-opening.service.ts:94-117`). If the first of two identical
   requests commits after the second searched and before it reads, the invoice is
   no longer temporary and the second is told to send it again, though its RMA
   exists. `docs/1-abertura-do-chamado/1.2-abertura-envio-e-recebimento.md:38`
   says the key returns that RMA to parallel requests too. Without
   an invoice this does not happen (`RepeatsWithoutInvoice`).
6. **An execution of the import can end itself, every time** (`LegacyImport`).
   An agent whose e-mail is the inbox of the sector, or is in the list, is linked
   to the account that has it before anybody looks whether another agent was
   (`staff-import.ts:52`); `legacy_records_entity_key` refuses the second one, and
   nothing catches the error.  `scripts/import-legacy.ts:14` says "Rodar de novo só
   acrescenta o que faltou".
7. **An acceptance made again is of the old terms** (`OpeningDraft`).  The page
   keeps the version it loaded (`warranty-terms.ts:12`), so after a refusal it
   shows and accepts the same one until it is reloaded, and the draft is lost.
   `docs/3-comunicacao-e-cadastro/3.2-cadastro-senha-e-termo.md:17`: "o envio é
   recusado e o aceite precisa ser refeito".
8. **Closing the window of a QR code may leave it open** (`MobileUploads`).  The
   `DELETE` is sent only if a status "aberta" was already received
   (`MobileUploadButton.tsx:74`), and its failure is ignored; the code then lasts
   until it expires.  `docs/2-operacao-do-chamado/2.2-fotos-videos-e-celular.md:25`
   says that closing invalidates the link at once.
9. **Two crossed registrations may be answered with an internal error**
   (`Customers`).  They take the e-mail and the document in opposite orders; the
   deadlock PostgreSQL breaks is not a unique violation, the only race
   `exception.filter.ts:80` turns into a conflict.
10. **The page of a customer offers a shipment the API refuses** (`RmaPanel`), for a ticket
    imported closed with equipment never sent: `ConfirmShipmentAction` looks at the
    cancellation and at the stages, not at the closing.  `OfferedIsAccepted` excepts
    these tickets and no others (`closedByImport`).
11. **The deadline starts at the diagnosis** (`RmaLifecycle`, `RmaPromise!StartClock`).
    `slaChange` sets `sla_started_at` on entering `SLA_START_STAGE`
    (`rma-stages.service.ts:137`), and
    `docs/2-operacao-do-chamado/2.3-fluxo-de-etapas.md:18` says so: "Começa na entrada
    em diagnóstico".  The page that registers a receipt says that it starts there:
    `ReceiveItemsAction.tsx:14` ("cada item confirmado inicia o próprio prazo") and
    `:47`, which the agent reads ("O prazo de cada um começa agora."); and so does
    `docs/1-abertura-do-chamado/1.2-abertura-envio-e-recebimento.md` at `:3` ("Cada item
    recebido inicia o próprio prazo"), `:27` ("desde o instante do recebimento físico")
    and `:43`.  `KeepsPromise` is about the deadline the code gives, not about this one.
12. **Two notices of one side may be an instant apart** (`RmaConversation`,
    `noticeKey`).  The key of a notice holds the half hour of the clock it was written
    in (`rma-messages.service.ts:31`), so messages on both sides of a border cause two
    e-mails.  `docs/2-operacao-do-chamado/2.1-perfis-e-conversa.md:24` and
    `docs/3-comunicacao-e-cadastro/3.1-avisos-por-email.md:24` say "no máximo um aviso
    por chamado a cada 30 minutos".  `Announced` asks for the notice of each window, as
    the code does; a notice every thirty minutes of any interval is not what it says.
13. **A message without a responsible agent is e-mailed** (`RmaConversation`,
    `reachable`).  `customerMessage` always writes to the mailbox of the sector
    (`rma-team-notices.ts:53`), as `3.1-avisos-por-email.md:21` says ("Aviso, com o
    responsável do chamado") and
    `:23`; `2.1-perfis-e-conversa.md:24` says "A mensagem do cliente avisa o
    responsável. Sem responsável, ninguém recebe e-mail".
14. **A connection that comes back may take the draft away** (`OpeningDraft`,
    `SessionLost`).  The session is read again on reconnect, and when that fails the
    guard of the route replaces the form (`auth/session.tsx:23`, `auth/guards.tsx:16`),
    whose draft is in its memory only.  `RmaOpeningForm.tsx:41`: "Os dados ficam no
    rascunho em qualquer erro".
15. **An entry of an old conversation may be left out unreported** (`LegacyImport`,
    `entriesOf`).  One that is empty once its HTML is taken out, an image alone, is
    skipped without a word (`ticket-conversation.ts:79-80`).
    `docs/5-homologacao-e-migracao/5.2-migracao-do-sistema-anterior.md:271` has the
    "quantidades" of "mensagens, notas" compared with the old system, less only what is
    of customers who do not migrate.

Two more behaviours nobody wrote about, which the modules reach:

* A message told before the first list of its page has come may be missing from that
  list, until the next poll (`RmaConversation`): `invalidateQueries`
  (`RmaConversation.tsx:84`) joins a request under way when there is no list yet, and
  the form is there before it.
* A review may be confirmed with an invoice found "divergente" after it opened
  (`OpeningDraft`): `reviewBlocker` runs once, at the review (`RmaOpeningForm.tsx:120`),
  while a check that failed or was paused is asked for again on reconnect
  (`main.tsx:37-49` only turns off the refetch on focus).  Nothing wrong is opened: the
  API judges the invoice again (`invoice-validation.service.ts:56-85`).

## Plan

In order of importance:

1. The assignment of an RMA composed with the disabling of its assignee.

## Not modelled

* The halves of two hazards that another property catches: `VideoBeforeReturn` and
  `ReturnListIsWhatArrived` are checked of whole operations, so that a video or a
  receipt which comes between what another operation reads and what it writes is the
  business of `OneAtATime`; and `ClosesByItself` is about RMAs opened here, so that
  what a ticket imported with a state of its own may break is that of `ChecksHold`.
* Of what the pages offer, the change of priority (`PrioritySelect`) and the documents
  sent later (`SendDocuments`): `OfferedIsAccepted` does not speak of them.
* Of the conversation, the order of two messages whose transactions overlap: the one
  that began first may appear above one already shown; and a message sent twice
  because its answer was lost, which has no key to recognise it.
* Of the queries, lists read in two statements (rows and total), searches by
  text, and pages of results.
* Of the import, the dry run, the events of the history, the priority of
  tickets, and invoices in detail; a `writeFile` that fails halfway
  (`file-storage.ts:41`), which leaves part of a copy `TicketsAreWhole` does not count;
  and a `COMMIT` that succeeds with its answer lost (`ticket-import.ts:47`), after which
  the copies of a ticket that was imported are discarded.
* The opening form of the team, which is that of the customer without the
  terms; the rules that judge the text of an invoice.
* The internal notes of a customer: one text, the last to write wins.
* The expiry of a session by inactivity and the count of failed logins in memory;
  captcha, rate limits, the audit trail, templates, layouts, downloads and byte
  ranges; deployment and backup scripts.
