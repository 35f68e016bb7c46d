--------------------------- MODULE RmaConversation ---------------------------
(***************************************************************************)
(* The conversation of one RMA between the team and its customer.  Each    *)
(* account has the page of the RMA open; a message and the notice of it    *)
(* are inserted in one transaction, and at most one notice per side is     *)
(* kept of each window of time.  A message is named by the instant its     *)
(* transaction began, its createdAt, and no two begin at the same instant  *)
(* (the database counts microseconds).  Messages are never changed, and    *)
(* the RMA being closed does not matter.                                   *)
(***************************************************************************)
EXTENDS Naturals, FiniteSets

CONSTANTS
  Staff, Customers,  \* accounts that have the page of the RMA open
  Consultation,      \* accounts of the team that may only read
  Requests,          \* slots for requests to write
  None,
  Inbox,             \* MAINTENANCE_INBOX_EMAIL is configured
  WINDOW,            \* MESSAGE_NOTICE_WINDOW_MS, in instants
  MaxWrites          \* bound: requests to write

ASSUME ConversationAssumption ==
  /\ Staff \intersect Customers = {} /\ Consultation \subseteq Staff
  /\ None \notin Staff \union Customers \union Requests
  /\ Inbox \in BOOLEAN /\ WINDOW \in Nat \ {0} /\ MaxWrites \in Nat

VARIABLES
  now,
  written,   \* requests to write so far
  requester, \* the RMA has a contact as requester; imported ones may not
  messages,  \* table rma_messages
  notices,   \* dedupe keys of the table notifications
  requests,
  form,      \* the request each page waits for, or None
  list,      \* what each page shows, whether a first list came, what it asked for
  told       \* messages each page was told it sent, as Answered says

vars == << now, written, requester, messages, notices, requests, form, list, told >>

Accounts == Staff \union Customers

Side(a) == IF a \in Staff THEN "equipe" ELSE "cliente"

canSend(a) == a \notin Consultation

\* When messages may be written: the first anywhere in a window.
Instants == 0 .. WINDOW + MaxWrites - 2

\* The key also holds the RMA, the only one here.  Windows begin at fixed instants, so
\* two messages near a border are of two windows: see Divergences in the README.
noticeKey(side, at) == [side |-> side, window |-> at \div WINDOW]

NoRequest == [phase |-> "livre"]

Init ==
  /\ now \in 0 .. WINDOW - 1
  /\ written = 0
  /\ requester \in BOOLEAN
  /\ messages = {}
  /\ notices = {}
  /\ requests = [r \in Requests |-> NoRequest]
  /\ form = [a \in Accounts |-> None]
  /\ list = [a \in Accounts |-> [shown |-> {}, loaded |-> FALSE, fetch |-> "pedida", rows |-> {}]]
  /\ told = [a \in Accounts |-> {}]

-----------------------------------------------------------------------------

\* Slots are alike: the first free one is taken.
freeRequest ==
  CHOOSE r \in Requests \union {None} :
    IF \E q \in Requests : requests[q] = NoRequest
      THEN r # None /\ requests[r] = NoRequest ELSE r = None

\* The form posts the text and its button waits for the answer.  sendAsStaff and
\* sendAsCustomer read the RMA, then BEGIN, which fixes now(), and insert the row
\* nobody else sees yet.
Send(a, r) ==
  /\ canSend(a)
  /\ form[a] = None
  /\ r = freeRequest
  /\ written < MaxWrites
  /\ written' = written + 1
  /\ now' = now + 1
  /\ form' = [form EXCEPT ![a] = r]
  /\ requests' = [requests EXCEPT ![r] =
       [phase |-> "gravada", author |-> a, at |-> now, key |-> {}]]
  /\ UNCHANGED << requester, messages, notices, list, told >>

\* Somebody is to be told: the requester of what the team wrote, the mailbox of
\* the sector of what the customer wrote, whoever is responsible for the RMA or
\* nobody (Divergences in the README).
reachable(side) == IF side = "equipe" THEN requester ELSE Inbox

\* Keys that transactions in progress inserted.
uncommitted == UNION { requests[o].key : o \in { q \in Requests : requests[q].phase = "avisada" } }

\* Mutant: a key in progress counts as there.
enqueue_TakesItForThere(r, key) ==
  requests' = [requests EXCEPT ![r].phase = "avisada",
                               ![r].key = {key} \ (notices \union uncommitted)]

\* NotificationsService.enqueue with onConflictDoNothing: waits for the
\* transaction that inserted the same key to end, and inserts unless it is there.
enqueue(r, key) ==
  /\ key \notin uncommitted
  /\ requests' = [requests EXCEPT ![r].phase = "avisada", ![r].key = {key} \ notices]

\* RmaRequesterNotices.notify and RmaTeamNotices.customerMessage.
Notify(r) ==
  LET side == Side(requests[r].author)
  IN
  /\ requests[r].phase = "gravada"
  /\ IF reachable(side)
       THEN enqueue(r, noticeKey(side, requests[r].at))
       ELSE requests' = [requests EXCEPT ![r].phase = "avisada"]
  /\ UNCHANGED << now, written, requester, messages, notices, form, list, told >>

Commit(r) ==
  /\ requests[r].phase = "avisada"
  /\ messages' = messages \union {[at |-> requests[r].at, author |-> requests[r].author]}
  /\ notices' = notices \union requests[r].key
  /\ requests' = [requests EXCEPT ![r].phase = "confirmada", ![r].key = {}]
  /\ UNCHANGED << now, written, requester, form, list, told >>

\* The database refuses or the process stops: nothing of the transaction stays.
RollBack(r) ==
  /\ requests[r].phase \in { "gravada", "avisada" }
  /\ requests' = [requests EXCEPT ![r].phase = "desfeita", ![r].key = {}]
  /\ UNCHANGED << now, written, requester, messages, notices, form, list, told >>

-----------------------------------------------------------------------------

underWay(l) == l.fetch \in { "pedida", "lida" }

\* Mutant: the request under way always answers for the new one.
refetch_Joins(l) == IF underWay(l) THEN l ELSE [l EXCEPT !.fetch = "pedida", !.rows = {}]

\* invalidateQueries: a request under way is given up for a new one once the page has
\* a list; before the first one, it answers for both.
refetch(l) ==
  IF underWay(l) /\ ~l.loaded THEN l ELSE [l EXCEPT !.fetch = "pedida", !.rows = {}]

\* The first list of the page was read and has not come: it may lack what is sent now.
mayLack(l) == l.fetch = "lida" /\ ~l.loaded

\* The answer of a request that the page still waits for: a success clears the
\* form and asks for the list again; an error keeps the text in the form.
Answered(r) ==
  LET a == requests[r].author
  IN
  /\ requests[r].phase \in { "confirmada", "desfeita" }
  /\ form[a] = r
  /\ form' = [form EXCEPT ![a] = None]
  /\ IF requests[r].phase = "confirmada"
       THEN /\ list' = [list EXCEPT ![a] = refetch(list[a])]
            /\ told' = IF mayLack(list[a]) THEN told
                       ELSE [told EXCEPT ![a] = @ \union {requests[r].at}]
       ELSE UNCHANGED << list, told >>
  /\ requests' = [requests EXCEPT ![r] = NoRequest]
  /\ UNCHANGED << now, written, requester, messages, notices >>

\* The connection is lost: the page shows an error and may post the text again,
\* while the request goes on.
ConnectionLost(a) ==
  /\ form[a] # None
  /\ form' = [form EXCEPT ![a] = None]
  /\ UNCHANGED << now, written, requester, messages, notices, requests, list, told >>

\* A request whose page no longer waits ends unnoticed.
Unheard(r) ==
  /\ requests[r].phase \in { "confirmada", "desfeita" }
  /\ form[requests[r].author] # r
  /\ requests' = [requests EXCEPT ![r] = NoRequest]
  /\ UNCHANGED << now, written, requester, messages, notices, form, list, told >>

-----------------------------------------------------------------------------

\* Mutant: pages read only when opened and after sending.
polls_Never(a) == FALSE

\* MESSAGES_REFRESH_MS: every page that is open, whoever reads it.
polls(a) == TRUE

Poll(a) ==
  /\ polls(a)
  /\ list[a].fetch \in { "nenhuma", "falhou" }
  /\ list' = [list EXCEPT ![a] = refetch(list[a])]
  /\ UNCHANGED << now, written, requester, messages, notices, requests, form, told >>

\* The portal has no names of the team.
toView(row, reader) ==
  [ at   |-> row.at,
    side |-> Side(row.author),
    name |-> IF reader \in Customers /\ row.author \in Staff THEN None ELSE row.author,
    mine |-> row.author = reader ]

\* listForStaff, listForCustomer; they come in the order of createdAt.
Read(a) ==
  /\ list[a].fetch = "pedida"
  /\ list' = [list EXCEPT ![a].fetch = "lida", ![a].rows = { toView(row, a) : row \in messages }]
  /\ UNCHANGED << now, written, requester, messages, notices, requests, form, told >>

Show(a) ==
  /\ list[a].fetch = "lida"
  /\ list' = [list EXCEPT ![a] =
       [shown |-> @.rows, loaded |-> TRUE, fetch |-> "nenhuma", rows |-> {}]]
  /\ UNCHANGED << now, written, requester, messages, notices, requests, form, told >>

\* Every attempt of the client library failed, before the server read the rows or
\* after: the list stays as it was, under an error.
FetchFails(a) ==
  /\ list[a].fetch = "pedida"
  /\ list' = [list EXCEPT ![a].fetch = "falhou"]
  /\ UNCHANGED << now, written, requester, messages, notices, requests, form, told >>

Next ==
  \/ \E a \in Accounts, r \in Requests : Send(a, r)
  \/ \E r \in Requests : Notify(r) \/ Commit(r) \/ RollBack(r) \/ Answered(r) \/ Unheard(r)
  \/ \E a \in Accounts :
       ConnectionLost(a) \/ Poll(a) \/ Read(a) \/ Show(a) \/ FetchFails(a)

\* Pages stay open and ask again every twenty seconds, and a list asked for again
\* and again is read in the end.
Fairness ==
  \A a \in Accounts : WF_vars(Poll(a)) /\ SF_vars(Read(a)) /\ WF_vars(Show(a))

Spec == Init /\ [][Next]_vars /\ Fairness

-----------------------------------------------------------------------------

\* Whoever can be told of a message has a notice of the window of MESSAGE_NOTICE_WINDOW_MS
\* it was written in, even when the transaction that first took the notice of that window was
\* undone (RmaMessagesService.sendAsStaff and sendAsCustomer, enqueue).  Windows are those of
\* noticeKey and the mailbox of the sector is always told, which two docs say otherwise:
\* see Divergences in the README.
Announced ==
  \A m \in messages :
    reachable(Side(m.author)) =>
      \E key \in notices : key.side = Side(m.author) /\ key.window = m.at \div WINDOW

\* What a page was told it sent is in its list as the account's own, once no list
\* is on its way: an older list never takes the place of the one that has it.  Only
\* the first list of a page may lack what it was told after that list was read
\* (RmaConversation, onSuccess; told leaves that out).
SentIsShown ==
  \A a \in Accounts :
    list[a].fetch = "nenhuma" =>
      \A at \in told[a] : \E v \in list[a].shown : v.at = at /\ v.mine

\* Every message reaches every page that is open, whatever the requests that fail
\* on the way (RmaConversation, refetchInterval).
Heard ==
  \A a \in Accounts, at \in Instants :
    (\E m \in messages : m.at = at) ~> (\E v \in list[a].shown : v.at = at)

=============================================================================
