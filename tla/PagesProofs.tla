----------------------------- MODULE PagesProofs -----------------------------
(***************************************************************************)
(* Proofs about what the pages show.  First the conversation of an RMA,    *)
(* for any accounts, windows and concurrent requests: whoever can be told  *)
(* of a message has a notice of its window, and what a page was told it    *)
(* sent is in the list it shows, once it has one; a request knows two      *)
(* things the tables do not say yet: that it has the notice, or that its   *)
(* message is committed.                                                   *)
(* Then the form that opens an RMA: what is reviewed is what is sent.      *)
(***************************************************************************)
EXTENDS RmaConversation, OpeningDraft, SequenceTheorems, TLAPS

Sides   == {"equipe", "cliente"}
Windows == { at \div WINDOW : at \in Nat }
Key     == [side : Sides, window : Windows]
Message == [at : Nat, author : Accounts]
View    == [at : Nat, side : Sides, name : Accounts \union {None}, mine : BOOLEAN]
Request == [phase : {"gravada", "avisada", "confirmada", "desfeita"},
            author : Accounts, at : Nat, key : SUBSET Key]
List    == [shown : SUBSET View, loaded : BOOLEAN,
            fetch : {"nenhuma", "pedida", "lida", "falhou"}, rows : SUBSET View]

TypeOK ==
  /\ now \in Nat
  /\ messages \subseteq Message
  /\ notices \subseteq Key
  /\ requests \in [Requests -> Request \union {NoRequest}]
  /\ list \in [Accounts -> List]
  /\ told \in [Accounts -> SUBSET Nat]

noticeOf(row) == noticeKey(Side(row.author), row.at)

\* A request that enqueued has its notice, or another one put it there; one that
\* is committed has its message there.
RequestOK(r) ==
  /\ requests[r].phase = "avisada" /\ reachable(Side(requests[r].author)) =>
       noticeOf(requests[r]) \in requests[r].key \union notices
  /\ requests[r].phase = "confirmada" =>
       [at |-> requests[r].at, author |-> requests[r].author] \in messages

RowsAnnounced ==
  \A m \in messages : reachable(Side(m.author)) => noticeOf(m) \in notices

sentBy(a, at) == [at |-> at, author |-> a]

\* What the page of an account was told it sent is there, and in the last list
\* it read.
ToldOK(a) ==
  \A at \in told[a] :
    /\ sentBy(a, at) \in messages
    /\ list[a].fetch = "lida" => toView(sentBy(a, at), a) \in list[a].rows
    /\ list[a].fetch = "nenhuma" => toView(sentBy(a, at), a) \in list[a].shown

IInv ==
  /\ TypeOK
  /\ \A r \in Requests : RequestOK(r)
  /\ RowsAnnounced
  /\ \A a \in Accounts : ToldOK(a)

-----------------------------------------------------------------------------
(* Rows, keys and views.                                                   *)

LEMMA KeyType == ASSUME NEW a \in Accounts, NEW at \in Nat PROVE noticeKey(Side(a), at) \in Key
<1>1. Side(a) \in Sides BY DEF Side, Sides
<1>2. at \div WINDOW \in Windows BY DEF Windows
<1> QED BY <1>1, <1>2 DEF noticeKey, Key

LEMMA ViewType == ASSUME NEW m \in Message, NEW a \in Accounts PROVE toView(m, a) \in View
<1>1. m.at \in Nat /\ m.author \in Accounts BY DEF Message
<1>2. Side(m.author) \in Sides BY DEF Side, Sides
<1>3. (IF a \in Customers /\ m.author \in Staff THEN None ELSE m.author) \in Accounts \union {None}
  BY <1>1
<1>4. (m.author = a) \in BOOLEAN OBVIOUS
<1> QED BY <1>1, <1>2, <1>3, <1>4 DEF toView, View

\* A request in progress is a row with an author.
LEMMA InProgress ==
  ASSUME TypeOK, NEW r \in Requests, requests[r].phase # "livre"
  PROVE  requests[r] \in Request
BY DEF TypeOK, NoRequest

LEMMA FreeIsNothing == ASSUME NEW r, requests[r] = NoRequest PROVE RequestOK(r)
BY DEF RequestOK, NoRequest

\* The tables only grow: what the other requests know stays so.
LEMMA OthersKnow ==
  ASSUME IInv, NEW r \in Requests,
         \A q \in Requests \ {r} : requests'[q] = requests[q],
         messages \subseteq messages', notices \subseteq notices', requester' = requester
  PROVE  \A q \in Requests \ {r} : RequestOK(q)'
<1> SUFFICES ASSUME NEW q \in Requests \ {r} PROVE RequestOK(q)' OBVIOUS
<1>1. RequestOK(q) /\ requests'[q] = requests[q] BY DEF IInv
<1> QED BY <1>1 DEF RequestOK, noticeOf, noticeKey, reachable

LEMMA PagesKnow ==
  ASSUME IInv, messages \subseteq messages', list' = list, told' = told
  PROVE  \A a \in Accounts : ToldOK(a)'
BY DEF IInv, ToldOK, sentBy, toView

\* Steps of requests that write no row and tell no page.
LEMMA OnlyRequests ==
  ASSUME IInv, NEW r \in Requests, NEW row \in Request \union {NoRequest},
         requests' = [requests EXCEPT ![r] = row], RequestOK(r)',
         now' \in Nat, messages' = messages, notices' = notices, requester' = requester,
         list' = list, told' = told
  PROVE  IInv'
<1>1. \A q \in Requests \ {r} : requests'[q] = requests[q] BY DEF IInv, TypeOK
<1>2. TypeOK' BY DEF IInv, TypeOK
<1>3. \A q \in Requests : RequestOK(q)' BY <1>1, OthersKnow
<1>4. RowsAnnounced' BY DEF IInv, RowsAnnounced, noticeOf, noticeKey, reachable
<1>5. \A a \in Accounts : ToldOK(a)' BY PagesKnow
<1> QED BY <1>2, <1>3, <1>4, <1>5 DEF IInv

-----------------------------------------------------------------------------
(* The steps of requests.                                                  *)

LEMMA SendKeeps ==
  ASSUME IInv, NEW a \in Accounts, NEW r \in Requests, Send(a, r)
  PROVE  IInv'
<1> DEFINE row == [phase |-> "gravada", author |-> a, at |-> now, key |-> {}]
<1>1. /\ requests' = [requests EXCEPT ![r] = row] /\ now' = now + 1
      /\ UNCHANGED << requester, messages, notices, list, told >>
  BY DEF Send
<1>2. now \in Nat /\ now + 1 \in Nat BY DEF IInv, TypeOK
<1>3. row \in Request BY <1>2 DEF Request
<1>4. requests'[r] = row BY <1>1 DEF IInv, TypeOK
<1>5. RequestOK(r)' BY <1>4 DEF RequestOK
<1> HIDE DEF row
<1> QED BY <1>1, <1>2, <1>3, <1>5, OnlyRequests

LEMMA NotifyKeeps == ASSUME IInv, NEW r \in Requests, Notify(r) PROVE IInv'
<1> DEFINE old == requests[r]
           key == noticeKey(Side(old.author), old.at)
<1>1. old.phase = "gravada" /\ UNCHANGED << now, requester, messages, notices, list, told >>
  BY DEF Notify
<1>2. old \in Request BY <1>1, InProgress DEF IInv
<1>3. old.author \in Accounts /\ old.at \in Nat BY <1>2 DEF Request
<1>4. key \in Key BY <1>3, KeyType
<1>5. requests \in [Requests -> Request \union {NoRequest}] BY DEF IInv, TypeOK
<1>6. CASE reachable(Side(old.author))
  <2>1. requests' = [requests EXCEPT ![r].phase = "avisada", ![r].key = {key} \ notices]
    BY <1>6 DEF Notify, enqueue
  <2> DEFINE row == [old EXCEPT !.phase = "avisada", !.key = {key} \ notices]
  <2>2. requests' = [requests EXCEPT ![r] = row] BY <1>5, <2>1
  <2>3. /\ row.phase = "avisada" /\ row.key = {key} \ notices
        /\ row.author = old.author /\ row.at = old.at
    BY <1>2 DEF Request
  <2>4. row \in Request BY <1>2, <1>4 DEF Request
  <2> HIDE DEF row
  <2>5. requests'[r] = row BY <1>5, <2>2
  <2>6. noticeOf(row) = key BY <2>3 DEF noticeOf
  <2>7. RequestOK(r)'
    <3>1. key \in row.key \union notices' BY <1>1, <2>3
    <3>2. noticeOf(requests[r])' = key BY <2>5, <2>6 DEF noticeOf
    <3> QED BY <2>3, <2>5, <3>1, <3>2 DEF RequestOK
  <2>8. now' \in Nat BY <1>1 DEF IInv, TypeOK
  <2> QED BY <1>1, <2>2, <2>4, <2>7, <2>8, OnlyRequests
<1>7. CASE ~reachable(Side(old.author))
  <2>1. requests' = [requests EXCEPT ![r].phase = "avisada"] BY <1>7 DEF Notify
  <2> DEFINE row == [old EXCEPT !.phase = "avisada"]
  <2>2. requests' = [requests EXCEPT ![r] = row] BY <1>5, <2>1
  <2>3. row.phase = "avisada" /\ row.author = old.author BY <1>2 DEF Request
  <2>4. row \in Request BY <1>2 DEF Request
  <2> HIDE DEF row
  <2>5. requests'[r] = row BY <1>5, <2>2
  <2>6. RequestOK(r)' BY <1>1, <1>7, <2>3, <2>5 DEF RequestOK, reachable
  <2>7. now' \in Nat BY <1>1 DEF IInv, TypeOK
  <2> QED BY <1>1, <2>2, <2>4, <2>6, <2>7, OnlyRequests
<1> QED BY <1>6, <1>7

\* The message and the notice of its window come into sight together.
LEMMA CommitKeeps == ASSUME IInv, NEW r \in Requests, Commit(r) PROVE IInv'
<1> DEFINE old == requests[r]
           row == [old EXCEPT !.phase = "confirmada", !.key = {}]
           m   == [at |-> old.at, author |-> old.author]
<1>1. /\ old.phase = "avisada" /\ UNCHANGED << now, requester, list, told >>
      /\ messages' = messages \union {m} /\ notices' = notices \union old.key
      /\ requests' = [requests EXCEPT ![r].phase = "confirmada", ![r].key = {}]
  BY DEF Commit
<1>2. old \in Request BY <1>1, InProgress DEF IInv
<1>3. requests \in [Requests -> Request \union {NoRequest}] BY DEF IInv, TypeOK
<1>4. requests' = [requests EXCEPT ![r] = row] BY <1>1, <1>3
<1>5. /\ row.phase = "confirmada" /\ row.author = old.author /\ row.at = old.at
      /\ row \in Request
  BY <1>2 DEF Request
<1>6. m \in Message /\ m.author = old.author /\ m.at = old.at /\ old.key \subseteq Key
  BY <1>2 DEF Request, Message
<1>7. RequestOK(r) BY DEF IInv
<1> HIDE DEF row
<1>8. requests'[r] = row /\ \A q \in Requests \ {r} : requests'[q] = requests[q] BY <1>3, <1>4
<1>9. TypeOK' BY <1>1, <1>3, <1>4, <1>5, <1>6 DEF IInv, TypeOK
<1>10. RequestOK(r)'
  <2>1. m \in messages' BY <1>1
  <2>2. requests'[r].phase = "confirmada" BY <1>5, <1>8
  <2>3. m = [at |-> requests'[r].at, author |-> requests'[r].author] BY <1>5, <1>8
  <2> HIDE DEF m
  <2> QED BY <2>1, <2>2, <2>3 DEF RequestOK
<1>11. \A q \in Requests : RequestOK(q)' BY <1>1, <1>8, <1>10, OthersKnow
<1>12. RowsAnnounced'
  <2>1. reachable(Side(m.author)) => noticeOf(m) \in notices'
    <3>1. noticeOf(m) = noticeOf(old) BY <1>6 DEF noticeOf
    <3> QED BY <1>1, <1>6, <1>7, <3>1 DEF RequestOK
  <2>2. \A n \in messages : reachable(Side(n.author)) => noticeOf(n) \in notices'
    BY <1>1 DEF IInv, RowsAnnounced
  <2> HIDE DEF m
  <2> QED BY <1>1, <2>1, <2>2 DEF RowsAnnounced, noticeOf, noticeKey, reachable
<1>13. \A a \in Accounts : ToldOK(a)' BY <1>1, PagesKnow
<1> QED BY <1>9, <1>11, <1>12, <1>13 DEF IInv

LEMMA RollBackKeeps == ASSUME IInv, NEW r \in Requests, RollBack(r) PROVE IInv'
<1> DEFINE old == requests[r]
           row == [old EXCEPT !.phase = "desfeita", !.key = {}]
<1>1. /\ old.phase \in {"gravada", "avisada"}
      /\ UNCHANGED << now, requester, messages, notices, list, told >>
      /\ requests' = [requests EXCEPT ![r].phase = "desfeita", ![r].key = {}]
  BY DEF RollBack
<1>2. old \in Request BY <1>1, InProgress DEF IInv
<1>3. requests \in [Requests -> Request \union {NoRequest}] BY DEF IInv, TypeOK
<1>4. requests' = [requests EXCEPT ![r] = row] BY <1>1, <1>3
<1>5. row.phase = "desfeita" /\ row \in Request BY <1>2 DEF Request
<1> HIDE DEF row
<1>6. requests'[r] = row BY <1>3, <1>4
<1>7. RequestOK(r)' BY <1>5, <1>6 DEF RequestOK
<1>8. now' \in Nat BY <1>1 DEF IInv, TypeOK
<1> QED BY <1>1, <1>4, <1>5, <1>7, <1>8, OnlyRequests

LEMMA UnheardKeeps == ASSUME IInv, NEW r \in Requests, Unheard(r) PROVE IInv'
<1>1. /\ requests' = [requests EXCEPT ![r] = NoRequest]
      /\ UNCHANGED << now, requester, messages, notices, list, told >>
  BY DEF Unheard
<1>2. requests'[r] = NoRequest BY <1>1 DEF IInv, TypeOK
<1>3. RequestOK(r)' BY <1>2 DEF RequestOK, NoRequest
<1>4. now' \in Nat BY <1>1 DEF IInv, TypeOK
<1> QED BY <1>1, <1>3, <1>4, OnlyRequests

-----------------------------------------------------------------------------
(* The steps of pages.                                                     *)

\* A page gets another list, or is told of a message that is there.
LEMMA OnlyPages ==
  ASSUME IInv, NEW a \in Accounts, NEW l \in List, NEW known \in SUBSET Nat,
         list' = [list EXCEPT ![a] = l], told' = [told EXCEPT ![a] = known],
         \A at \in known :
           /\ sentBy(a, at) \in messages
           /\ l.fetch = "lida" => toView(sentBy(a, at), a) \in l.rows
           /\ l.fetch = "nenhuma" => toView(sentBy(a, at), a) \in l.shown,
         messages' = messages
  PROVE  /\ list' \in [Accounts -> List] /\ told' \in [Accounts -> SUBSET Nat]
         /\ \A b \in Accounts : ToldOK(b)'
<1>1. /\ list'[a] = l /\ told'[a] = known
      /\ \A b \in Accounts \ {a} : list'[b] = list[b] /\ told'[b] = told[b]
  BY DEF IInv, TypeOK
<1>2. list' \in [Accounts -> List] /\ told' \in [Accounts -> SUBSET Nat] BY DEF IInv, TypeOK
<1>3. ToldOK(a)' BY <1>1 DEF ToldOK, sentBy, toView
<1>4. ASSUME NEW b \in Accounts \ {a} PROVE ToldOK(b)'
  <2>1. list'[b] = list[b] /\ told'[b] = told[b] BY <1>1
  <2>2. ToldOK(b) BY DEF IInv
  <2> QED BY <2>1, <2>2 DEF ToldOK, sentBy, toView
<1> QED BY <1>2, <1>3, <1>4

\* The pages that read and show, as the requests and the tables stay as they were.
LEMMA OnlyThisPage ==
  ASSUME IInv, NEW a \in Accounts, NEW l \in List, list' = [list EXCEPT ![a] = l],
         \A at \in told[a] :
           /\ l.fetch = "lida" => toView(sentBy(a, at), a) \in l.rows
           /\ l.fetch = "nenhuma" => toView(sentBy(a, at), a) \in l.shown,
         UNCHANGED << now, requester, messages, notices, requests, told >>
  PROVE  IInv'
<1>1. told' = [told EXCEPT ![a] = told[a]] /\ told[a] \in SUBSET Nat BY DEF IInv, TypeOK
<1>2. \A at \in told[a] : sentBy(a, at) \in messages BY DEF IInv, ToldOK
<1>3. /\ list' \in [Accounts -> List] /\ told' \in [Accounts -> SUBSET Nat]
      /\ \A b \in Accounts : ToldOK(b)'
  BY <1>1, <1>2, OnlyPages
<1>4. TypeOK' BY <1>3 DEF IInv, TypeOK
<1>5. \A r \in Requests : RequestOK(r)' BY DEF IInv, RequestOK, noticeOf, noticeKey, reachable
<1>6. RowsAnnounced' BY DEF IInv, RowsAnnounced, noticeOf, noticeKey, reachable
<1> QED BY <1>3, <1>4, <1>5, <1>6 DEF IInv

\* The page waits for a list nobody has read yet, unless its first one was.
LEMMA Asked ==
  ASSUME NEW l \in List
  PROVE  /\ refetch(l) \in List
         /\ ~mayLack(l) => refetch(l).fetch = "pedida"
         /\ mayLack(l) => refetch(l) = l
BY DEF List, refetch, underWay, mayLack

\* The message of a request that is confirmed is there, and a list is read before
\* it is expected in what the page shows.
LEMMA AnsweredKeeps == ASSUME IInv, NEW r \in Requests, Answered(r) PROVE IInv'
<1> DEFINE old == requests[r]
           a   == old.author
<1>1. /\ old.phase \in {"confirmada", "desfeita"} /\ requests' = [requests EXCEPT ![r] = NoRequest]
      /\ UNCHANGED << now, requester, messages, notices >>
  BY DEF Answered
<1>2. old \in Request BY <1>1, InProgress DEF IInv
<1>3. a \in Accounts /\ old.at \in Nat BY <1>2 DEF Request
<1>4. requests'[r] = NoRequest /\ \A q \in Requests \ {r} : requests'[q] = requests[q]
  BY <1>1 DEF IInv, TypeOK
<1>5. RequestOK(r)' BY <1>4 DEF RequestOK, NoRequest
<1>6. now' \in Nat BY <1>1 DEF IInv, TypeOK
<1>7. CASE old.phase = "desfeita"
  <2>1. list' = list /\ told' = told BY <1>7 DEF Answered
  <2> QED BY <1>1, <1>5, <1>6, <2>1, OnlyRequests
<1>8. CASE old.phase = "confirmada" /\ mayLack(list[a])
  <2>1. list' = [list EXCEPT ![a] = refetch(list[a])] /\ told' = told BY <1>8 DEF Answered
  <2>2. list[a] \in List /\ list \in [Accounts -> List] BY <1>3 DEF IInv, TypeOK
  <2>3. refetch(list[a]) = list[a] BY <1>8, <2>2, Asked
  <2>4. list' = list BY <2>1, <2>2, <2>3
  <2> QED BY <1>1, <1>5, <1>6, <2>1, <2>4, OnlyRequests
<1>9. CASE old.phase = "confirmada" /\ ~mayLack(list[a])
  <2> DEFINE known == told[a] \union {old.at}
  <2>1. list' = [list EXCEPT ![a] = refetch(list[a])] /\ told' = [told EXCEPT ![a] = known]
    BY <1>9 DEF Answered
  <2>2. refetch(list[a]) \in List /\ refetch(list[a]).fetch = "pedida"
    BY <1>3, <1>9, Asked DEF IInv, TypeOK
  <2>3. known \in SUBSET Nat BY <1>3 DEF IInv, TypeOK
  <2>4. \A at \in known : sentBy(a, at) \in messages
    <3>1. \A at \in told[a] : sentBy(a, at) \in messages BY <1>3 DEF IInv, ToldOK
    <3>2. RequestOK(r) BY DEF IInv
    <3>3. sentBy(a, old.at) \in messages BY <1>9, <3>2 DEF RequestOK, sentBy
    <3> QED BY <3>1, <3>3
  <2> HIDE DEF known, a
  <2>5. /\ list' \in [Accounts -> List] /\ told' \in [Accounts -> SUBSET Nat]
        /\ \A b \in Accounts : ToldOK(b)'
    BY <1>1, <1>3, <2>1, <2>2, <2>3, <2>4, OnlyPages
  <2>6. TypeOK' BY <1>1, <1>6, <2>5 DEF IInv, TypeOK
  <2>7. \A q \in Requests : RequestOK(q)' BY <1>1, <1>4, <1>5, OthersKnow
  <2>8. RowsAnnounced' BY <1>1 DEF IInv, RowsAnnounced, noticeOf, noticeKey, reachable
  <2> QED BY <2>5, <2>6, <2>7, <2>8 DEF IInv
<1> QED BY <1>1, <1>7, <1>8, <1>9

LEMMA PollKeeps == ASSUME IInv, NEW a \in Accounts, Poll(a) PROVE IInv'
<1>1. /\ list' = [list EXCEPT ![a] = refetch(list[a])]
      /\ UNCHANGED << now, requester, messages, notices, requests, told >>
  BY DEF Poll
<1>2. ~mayLack(list[a]) BY DEF Poll, mayLack
<1>3. refetch(list[a]) \in List /\ refetch(list[a]).fetch = "pedida"
  BY <1>2, Asked DEF IInv, TypeOK
<1> QED BY <1>1, <1>3, OnlyThisPage

LEMMA ReadKeeps == ASSUME IInv, NEW a \in Accounts, Read(a) PROVE IInv'
<1> DEFINE rows == { toView(row, a) : row \in messages }
           l    == [list[a] EXCEPT !.fetch = "lida", !.rows = rows]
<1>1. /\ list' = [list EXCEPT ![a].fetch = "lida", ![a].rows = rows]
      /\ UNCHANGED << now, requester, messages, notices, requests, told >>
  BY DEF Read
<1>2. list[a] \in List /\ list \in [Accounts -> List] BY DEF IInv, TypeOK
<1>3. rows \in SUBSET View
  <2>1. \A row \in messages : toView(row, a) \in View BY ViewType DEF IInv, TypeOK
  <2> QED BY <2>1
<1>4. \A at \in told[a] : toView(sentBy(a, at), a) \in rows
  <2>1. \A at \in told[a] : sentBy(a, at) \in messages BY DEF IInv, ToldOK
  <2> QED BY <2>1
<1> HIDE DEF rows
<1>5. list' = [list EXCEPT ![a] = l] BY <1>1, <1>2
<1>6. l \in List /\ l.fetch = "lida" /\ l.rows = rows BY <1>2, <1>3 DEF List
<1> HIDE DEF l
<1> QED BY <1>1, <1>4, <1>5, <1>6, OnlyThisPage

LEMMA ShowKeeps == ASSUME IInv, NEW a \in Accounts, Show(a) PROVE IInv'
<1> DEFINE l == [shown |-> list[a].rows, loaded |-> TRUE, fetch |-> "nenhuma", rows |-> {}]
<1>1. /\ list[a].fetch = "lida" /\ list' = [list EXCEPT ![a] = l]
      /\ UNCHANGED << now, requester, messages, notices, requests, told >>
  BY DEF Show
<1>2. list[a].rows \in SUBSET View BY DEF IInv, TypeOK, List
<1>3. l \in List /\ l.fetch = "nenhuma" /\ l.shown = list[a].rows BY <1>2 DEF List
<1>4. \A at \in told[a] : toView(sentBy(a, at), a) \in list[a].rows BY <1>1 DEF IInv, ToldOK
<1> HIDE DEF l
<1> QED BY <1>1, <1>3, <1>4, OnlyThisPage

LEMMA FetchFailsKeeps == ASSUME IInv, NEW a \in Accounts, FetchFails(a) PROVE IInv'
<1> DEFINE l == [list[a] EXCEPT !.fetch = "falhou"]
<1>1. /\ list' = [list EXCEPT ![a].fetch = "falhou"]
      /\ UNCHANGED << now, requester, messages, notices, requests, told >>
  BY DEF FetchFails
<1>2. list[a] \in List /\ list \in [Accounts -> List] BY DEF IInv, TypeOK
<1>3. list' = [list EXCEPT ![a] = l] BY <1>1, <1>2
<1>4. l \in List /\ l.fetch = "falhou" BY <1>2 DEF List
<1> HIDE DEF l
<1> QED BY <1>1, <1>3, <1>4, OnlyThisPage

-----------------------------------------------------------------------------
(* The theorems.                                                           *)

LEMMA InitHolds == Init => IInv
<1> SUFFICES ASSUME Init PROVE IInv OBVIOUS
<1>1. now \in Nat BY ConversationAssumption DEF Init
<1>2. TypeOK BY <1>1 DEF Init, TypeOK, List
<1>3. \A r \in Requests : RequestOK(r) BY DEF Init, RequestOK, NoRequest
<1>4. RowsAnnounced /\ \A a \in Accounts : ToldOK(a) BY DEF Init, RowsAnnounced, ToldOK
<1> QED BY <1>2, <1>3, <1>4 DEF IInv

LEMMA NextKeeps == IInv /\ [Next]_vars => IInv'
<1> SUFFICES ASSUME IInv, [Next]_vars PROVE IInv' OBVIOUS
<1>1. ASSUME UNCHANGED vars \/ \E a \in Accounts : ConnectionLost(a) PROVE IInv'
  <2>1. UNCHANGED << now, requester, messages, notices, requests, list, told >>
    BY <1>1 DEF vars, ConnectionLost
  <2>2. TypeOK' BY <2>1 DEF IInv, TypeOK
  <2>3. \A r \in Requests : RequestOK(r)'
    BY <2>1 DEF IInv, RequestOK, noticeOf, noticeKey, reachable
  <2>4. RowsAnnounced' BY <2>1 DEF IInv, RowsAnnounced, noticeOf, noticeKey, reachable
  <2>5. \A a \in Accounts : ToldOK(a)' BY <2>1, PagesKnow
  <2> QED BY <2>2, <2>3, <2>4, <2>5 DEF IInv
<1>2. ASSUME NEW a \in Accounts, NEW r \in Requests, Send(a, r) PROVE IInv' BY <1>2, SendKeeps
<1>3. ASSUME NEW r \in Requests,
             Notify(r) \/ Commit(r) \/ RollBack(r) \/ Answered(r) \/ Unheard(r)
      PROVE  IInv'
  BY <1>3, NotifyKeeps, CommitKeeps, RollBackKeeps, AnsweredKeeps, UnheardKeeps
<1>4. ASSUME NEW a \in Accounts, Poll(a) \/ Read(a) \/ Show(a) \/ FetchFails(a) PROVE IInv'
  BY <1>4, PollKeeps, ReadKeeps, ShowKeeps, FetchFailsKeeps
<1> QED BY <1>1, <1>2, <1>3, <1>4 DEF Next

\* What requests know of the tables, and pages of their messages, in every
\* reachable state of the conversation.
THEOREM KnownIsThere == Spec => []IInv
BY InitHolds, NextKeeps, PTL DEF Spec

\* Nobody is missed: whoever can be told of a message has a notice of the window
\* it was written in, whatever transactions overlap and are undone
\* (RmaMessagesService, NotificationsService.enqueue).
THEOREM NobodyIsMissed == Spec => []Announced
<1>1. IInv => Announced
  <2> SUFFICES ASSUME IInv, NEW m \in messages, reachable(Side(m.author))
               PROVE  \E key \in notices :
                        key.side = Side(m.author) /\ key.window = m.at \div WINDOW
    BY DEF Announced
  <2>1. noticeOf(m) \in notices BY DEF IInv, RowsAnnounced
  <2>2. noticeOf(m).side = Side(m.author) /\ noticeOf(m).window = m.at \div WINDOW
    BY DEF noticeOf, noticeKey
  <2> QED BY <2>1, <2>2
<1> QED BY <1>1, KnownIsThere, PTL

\* What a page was told it sent never disappears from it: an older list does not
\* take the place of the one that has it, but for what it was told after its first
\* list was read and before it came (RmaConversation, onSuccess).
THEOREM SentNeverDisappears == Spec => []SentIsShown
<1>1. IInv => SentIsShown
  <2> SUFFICES ASSUME IInv, NEW a \in Accounts, list[a].fetch = "nenhuma", NEW at \in told[a]
               PROVE  \E v \in list[a].shown : v.at = at /\ v.mine
    BY DEF SentIsShown
  <2>1. toView(sentBy(a, at), a) \in list[a].shown BY DEF IInv, ToldOK
  <2>2. sentBy(a, at).author = a /\ sentBy(a, at).at = at BY DEF sentBy
  <2>3. toView(sentBy(a, at), a).at = at BY <2>2 DEF toView
  <2>4. toView(sentBy(a, at), a).mine BY <2>2 DEF toView
  <2> QED BY <2>1, <2>3, <2>4
<1> QED BY <1>1, KnownIsThere, PTL

-----------------------------------------------------------------------------
(* The opening form: what is reviewed is what is sent.  While a review is  *)
(* shown nothing edits the draft, so only the answers of uploads could     *)
(* change it: every file in it already had its last answer, and a file     *)
(* answers once.  The check of the invoice and the session of the page may *)
(* be answered meanwhile; what is sent does not depend on them.            *)

Progress == {"nova", "fila", "enviando", "espera", "terminou"}
Checks == {"nenhuma", "pedida", "pausada", "valida", "divergente", "falhou"}

DraftTypeOK ==
  /\ items \in Seq(Item)
  /\ documents \in [DOCUMENT_PURPOSE -> Slot \union {Nothing}]
  /\ waiting \in Seq(Files)
  /\ upload \in [Files -> Progress]
  /\ check \in [Picked({"nota_xml"}) -> Checks]

\* Each equipment has a key of its own, and no key comes back.
KeysOnce ==
  /\ \A m, n \in DOMAIN items : items[m].key = items[n].key => m = n
  /\ \A n \in DOMAIN items : items[n].key \in used

\* A file waits for its turn in one place of the queue.
WaitingOnce ==
  /\ \A n \in DOMAIN waiting : upload[waiting[n]] = "fila"
  /\ \A m, n \in DOMAIN waiting : waiting[m] = waiting[n] => m = n

\* A slot that is not being sent had the last answer of its upload.
SlotOK(s) ==
  /\ upload[s.file] # "nova"
  /\ s.status # "enviando" => upload[s.file] = "terminou"

ItemsOK ==
  \A n \in DOMAIN items : \A s \in items[n].slots : PurposeOf[s.file] \in MEDIA /\ SlotOK(s)

DocumentsOK ==
  \A d \in DOCUMENT_PURPOSE : documents[d] # Nothing =>
    PurposeOf[documents[d].file] = d /\ SlotOK(documents[d])

\* What the review froze of the draft.
FrozenIs(input) == ready.items = input.items /\ ready.documents = input.documents

MarkedTerms == ready.terms # Nothing => ready.terms = accepted

\* Stronger than the property: all is sent.
ReviewHolds ==
  page = "aberto" /\ ready # Nothing =>
    /\ FrozenIs(toOpeningInput)
    /\ MarkedTerms
    /\ \A s \in allSlots : s.status = "enviado"

DraftInv ==
  /\ DraftTypeOK
  /\ KeysOnce
  /\ WaitingOnce
  /\ ItemsOK
  /\ DocumentsOK
  /\ ReviewHolds

-----------------------------------------------------------------------------
(* The queue of uploads.                                                   *)

QueueOK ==
  /\ waiting \in Seq(Files)
  /\ upload \in [Files -> Progress]
  /\ WaitingOnce

\* The last answer of an upload is the last, and none is new again.
UploadsGoOn ==
  \A g \in Files :
    /\ upload[g] = "terminou" => upload'[g] = "terminou"
    /\ upload[g] # "nova" => upload'[g] # "nova"

LEMMA WaitsIn == ASSUME waiting \in Seq(Files)
                 PROVE  /\ Len(waiting) \in Nat /\ DOMAIN waiting = 1 .. Len(waiting)
                        /\ \A n \in DOMAIN waiting : waiting[n] \in Files
BY LenProperties

\* Steps of one upload that is not in the queue.
LEMMA AloneKeepsQueue ==
  ASSUME QueueOK, NEW f \in Files, NEW p \in Progress \ {"nova", "fila"},
         upload[f] \notin {"fila", "terminou"},
         upload' = [upload EXCEPT ![f] = p], waiting' = waiting
  PROVE  QueueOK' /\ UploadsGoOn /\ upload'[f] = p
<1>1. \A n \in DOMAIN waiting : waiting[n] \in Files BY WaitsIn DEF QueueOK
<1>2. upload' \in [Files -> Progress] /\ upload'[f] = p BY DEF QueueOK
<1>3. \A g \in Files : g # f => upload'[g] = upload[g] BY DEF QueueOK
<1>4. UploadsGoOn BY <1>2, <1>3 DEF UploadsGoOn
<1>5. WaitingOnce' BY <1>1, <1>3 DEF QueueOK, WaitingOnce
<1> QED BY <1>2, <1>4, <1>5 DEF QueueOK

LEMMA EnqueueKeepsQueue ==
  ASSUME QueueOK, NEW f \in Files, upload[f] = "nova", Enqueue(f)
  PROVE  QueueOK' /\ UploadsGoOn /\ upload'[f] # "nova"
<1>1. CASE active < MAX_PARALLEL_UPLOADS
  <2>1. upload' = [upload EXCEPT ![f] = "enviando"] /\ waiting' = waiting BY <1>1 DEF Enqueue
  <2>2. "enviando" \in Progress \ {"nova", "fila"} /\ upload[f] \notin {"fila", "terminou"}
    BY DEF Progress
  <2>3. QueueOK' /\ UploadsGoOn /\ upload'[f] = "enviando"
    BY <2>1, <2>2, AloneKeepsQueue
  <2> QED BY <2>3
<1>2. CASE ~(active < MAX_PARALLEL_UPLOADS)
  <2>1. upload' = [upload EXCEPT ![f] = "fila"] /\ waiting' = Append(waiting, f)
    BY <1>2 DEF Enqueue
  <2>2. /\ Len(waiting) \in Nat /\ DOMAIN waiting = 1 .. Len(waiting)
        /\ \A n \in DOMAIN waiting : waiting[n] \in Files
    BY WaitsIn DEF QueueOK
  <2>3. /\ waiting' \in Seq(Files) /\ Len(waiting') = Len(waiting) + 1
        /\ \A n \in 1 .. Len(waiting) : waiting'[n] = waiting[n]
        /\ waiting'[Len(waiting) + 1] = f
    BY <2>1, AppendProperties DEF QueueOK
  <2>4. DOMAIN waiting' = 1 .. Len(waiting) + 1 BY <2>3, LenProperties
  <2>5. upload' \in [Files -> Progress] /\ upload'[f] = "fila" BY <2>1 DEF QueueOK, Progress
  <2>6. \A g \in Files : g # f => upload'[g] = upload[g] BY <2>1 DEF QueueOK
  <2>7. UploadsGoOn BY <2>5, <2>6 DEF UploadsGoOn
  <2>8. \A n \in 1 .. Len(waiting) : waiting[n] # f BY <2>2 DEF QueueOK, WaitingOnce
  <2>9. \A n \in 1 .. Len(waiting) + 1 : n \in 1 .. Len(waiting) \/ n = Len(waiting) + 1
    BY <2>2
  <2>10. \A n \in DOMAIN waiting' : upload'[waiting'[n]] = "fila"
    BY <2>2, <2>3, <2>4, <2>5, <2>6, <2>8, <2>9 DEF QueueOK, WaitingOnce
  <2>11. \A m, n \in DOMAIN waiting' : waiting'[m] = waiting'[n] => m = n
    BY <2>2, <2>3, <2>4, <2>8, <2>9 DEF QueueOK, WaitingOnce
  <2> QED BY <2>3, <2>5, <2>7, <2>10, <2>11 DEF QueueOK, WaitingOnce
<1> QED BY <1>1, <1>2

LEMMA ReleaseKeepsQueue ==
  ASSUME QueueOK, NEW f \in Files, upload[f] = "enviando", release(f)
  PROVE  QueueOK' /\ UploadsGoOn /\ upload'[f] = "terminou"
<1>1. CASE waiting = << >>
  <2>1. upload' = [upload EXCEPT ![f] = "terminou"] /\ waiting' = waiting BY <1>1 DEF release
  <2>2. "terminou" \in Progress \ {"nova", "fila"} /\ upload[f] \notin {"fila", "terminou"}
    BY DEF Progress
  <2> QED BY <2>1, <2>2, AloneKeepsQueue
<1>2. CASE waiting # << >>
  <2> DEFINE h == Head(waiting)
  <2>1. upload' = [upload EXCEPT ![f] = "terminou", ![h] = "enviando"] /\ waiting' = Tail(waiting)
    BY <1>2 DEF release
  <2>2. /\ Len(waiting) \in Nat /\ DOMAIN waiting = 1 .. Len(waiting)
        /\ \A n \in DOMAIN waiting : waiting[n] \in Files
    BY WaitsIn DEF QueueOK
  <2>3. /\ h \in Files /\ Tail(waiting) \in Seq(Files) /\ Len(Tail(waiting)) = Len(waiting) - 1
        /\ \A n \in 1 .. Len(Tail(waiting)) : Tail(waiting)[n] = waiting[n + 1]
    BY <1>2, HeadTailProperties DEF QueueOK
  <2>4. DOMAIN waiting' = 1 .. Len(waiting) - 1 BY <2>1, <2>3, LenProperties
  <2>5. h = waiting[1] /\ 1 \in DOMAIN waiting
    BY <1>2, <2>2, EmptySeq DEF QueueOK
  <2>6. upload[h] = "fila" BY <2>5 DEF QueueOK, WaitingOnce
  <2>7. upload' \in [Files -> Progress] /\ upload'[f] = "terminou" /\ upload'[h] = "enviando"
    BY <2>1, <2>3, <2>6 DEF QueueOK, Progress
  <2>8. \A g \in Files \ {f, h} : upload'[g] = upload[g] BY <2>1 DEF QueueOK
  <2>9. UploadsGoOn BY <2>6, <2>7, <2>8 DEF UploadsGoOn
  <2>10. \A n \in DOMAIN waiting' : n + 1 \in DOMAIN waiting /\ n + 1 # 1
    BY <2>2, <2>4
  <2>11. \A n \in DOMAIN waiting' : waiting'[n] = waiting[n + 1]
    BY <2>1, <2>3, <2>4
  <2>12. \A n \in DOMAIN waiting' : upload'[waiting'[n]] = "fila"
    BY <2>2, <2>5, <2>8, <2>10, <2>11 DEF QueueOK, WaitingOnce
  <2>13. \A m, n \in DOMAIN waiting' : waiting'[m] = waiting'[n] => m = n
    <3> SUFFICES ASSUME NEW m \in DOMAIN waiting', NEW n \in DOMAIN waiting',
                        waiting'[m] = waiting'[n]
                 PROVE  m = n
      OBVIOUS
    <3>1. m + 1 = n + 1 BY <2>10, <2>11 DEF QueueOK, WaitingOnce
    <3> QED BY <3>1, <2>2, <2>4
  <2> QED BY <2>1, <2>3, <2>7, <2>9, <2>12, <2>13 DEF QueueOK, WaitingOnce
<1> QED BY <1>1, <1>2

-----------------------------------------------------------------------------
(* The draft.                                                              *)

\* A step brings no file to an equipment but one it had, or a new one.
Follow ==
  \A n \in DOMAIN items' : \A s \in items'[n].slots :
    \/ upload[s.file] = "nova"
    \/ \E m \in DOMAIN items : /\ items[m].key = items'[n].key
                               /\ \E t \in items[m].slots : t.file = s.file

LEMMA ItemsIn ==
  ASSUME DraftTypeOK
  PROVE  /\ Len(items) \in Nat /\ DOMAIN items = 1 .. Len(items)
         /\ \A n \in DOMAIN items : items[n] \in Item
         /\ items = [n \in DOMAIN items |-> items[n]]
<1>1. items \in Seq(Item) BY DEF DraftTypeOK
<1>2. items \in [1 .. Len(items) -> Item] /\ Len(items) \in Nat /\ DOMAIN items = 1 .. Len(items)
  BY <1>1, LenProperties
<1> QED BY <1>2

LEMMA ItemParts ==
  ASSUME NEW item \in Item
  PROVE  /\ item.key \in Items /\ item.slots \subseteq Slot
         /\ \A s \in item.slots : s.file \in Files
BY DEF Item, Slot

LEMMA NewSlots ==
  ASSUME NEW item \in Item, NEW slots \in SUBSET Slot
  PROVE  /\ [item EXCEPT !.slots = slots] \in Item
         /\ [item EXCEPT !.slots = slots].key = item.key
         /\ [item EXCEPT !.slots = slots].slots = slots
BY DEF Item

LEMMA SameFollows == ASSUME items' = items PROVE Follow
BY DEF Follow

LEMMA ItemsStay ==
  ASSUME DraftTypeOK, ItemsOK, UploadsGoOn,
         \A n \in DOMAIN items' : \A s \in items'[n].slots :
           \/ \E m \in DOMAIN items : s \in items[m].slots
           \/ PurposeOf[s.file] \in MEDIA /\ SlotOK(s)'
  PROVE  ItemsOK'
<1> SUFFICES ASSUME NEW n \in DOMAIN items', NEW s \in items'[n].slots
             PROVE  PurposeOf[s.file] \in MEDIA /\ SlotOK(s)'
  BY DEF ItemsOK
<1>1. CASE \E m \in DOMAIN items : s \in items[m].slots
  <2>1. PICK m \in DOMAIN items : s \in items[m].slots BY <1>1
  <2>2. s.file \in Files BY <2>1, ItemsIn, ItemParts
  <2>3. PurposeOf[s.file] \in MEDIA /\ SlotOK(s) BY <2>1 DEF ItemsOK
  <2> QED BY <2>2, <2>3 DEF SlotOK, UploadsGoOn
<1> QED BY <1>1

LEMMA DocumentsStay ==
  ASSUME DraftTypeOK, DocumentsOK, UploadsGoOn, NEW d \in DOCUMENT_PURPOSE,
         documents[d] # Nothing, documents'[d] = documents[d]
  PROVE  PurposeOf[documents'[d].file] = d /\ SlotOK(documents[d])'
<1>1. documents[d] \in Slot BY DEF DraftTypeOK
<1>2. documents[d].file \in Files BY <1>1 DEF Slot
<1>3. PurposeOf[documents[d].file] = d /\ SlotOK(documents[d]) BY DEF DocumentsOK
<1> QED BY <1>2, <1>3 DEF SlotOK, UploadsGoOn

LEMMA SameDocuments ==
  ASSUME DraftTypeOK, DocumentsOK, UploadsGoOn, documents' = documents
  PROVE  DocumentsOK'
<1> SUFFICES ASSUME NEW d \in DOCUMENT_PURPOSE, documents'[d] # Nothing
             PROVE  PurposeOf[documents'[d].file] = d /\ SlotOK(documents[d])'
  BY DEF DocumentsOK
<1> QED BY DocumentsStay

LEMMA SameItems ==
  ASSUME DraftTypeOK, ItemsOK, UploadsGoOn, items' = items
  PROVE  ItemsOK'
BY ItemsStay

LEMMA SameUploads == ASSUME upload' = upload PROVE UploadsGoOn
BY DEF UploadsGoOn

LEMMA SameQueue == ASSUME QueueOK, upload' = upload, waiting' = waiting PROVE QueueOK'
BY DEF QueueOK, WaitingOnce

\* The equipment stays in its place, with its key.
LEMMA InPlace ==
  ASSUME DraftTypeOK, KeysOnce, used' = used, items' = [n \in DOMAIN items |-> items'[n]],
         \A n \in DOMAIN items : items'[n] \in Item /\ items'[n].key = items[n].key
  PROVE  items' \in Seq(Item) /\ KeysOnce'
<1>1. Len(items) \in Nat /\ DOMAIN items = 1 .. Len(items) BY ItemsIn
<1>2. items' \in [1 .. Len(items) -> Item] BY <1>1
<1>3. items' \in Seq(Item) BY <1>1, <1>2
<1>4. DOMAIN items' = DOMAIN items OBVIOUS
<1>5. KeysOnce' BY <1>4 DEF KeysOnce
<1> QED BY <1>3, <1>5

\* No review is shown while the user edits.
LEMMA EditingKeeps ==
  ASSUME Editing, UNCHANGED sendVars, QueueOK',
         items' \in Seq(Item), documents' \in [DOCUMENT_PURPOSE -> Slot \union {Nothing}],
         check' \in [Picked({"nota_xml"}) -> Checks],
         KeysOnce', ItemsOK', DocumentsOK'
  PROVE  DraftInv'
<1>1. ReviewHolds' BY DEF ReviewHolds, Editing, sendVars
<1> QED BY <1>1 DEF DraftInv, DraftTypeOK, QueueOK

LEMMA StartKeeps ==
  ASSUME QueueOK, NEW f \in Files, upload[f] = "nova", NEW s \in Initial(f), startUpload(f, s)
  PROVE  QueueOK' /\ UploadsGoOn /\ s \in Slot /\ s.file = f /\ SlotOK(s)'
<1>1. CASE s = startsSending(f) /\ Enqueue(f)
  <2>1. QueueOK' /\ UploadsGoOn /\ upload'[f] # "nova" BY <1>1, EnqueueKeepsQueue
  <2>2. s \in Slot /\ s.file = f /\ s.status = "enviando" BY <1>1 DEF startsSending, Slot
  <2> QED BY <2>1, <2>2 DEF SlotOK
<1>2. CASE /\ s = precheckFails(f)
           /\ upload' = [upload EXCEPT ![f] = "terminou"]
           /\ UNCHANGED << active, waiting, attempt >>
  <2>1. "terminou" \in Progress \ {"nova", "fila"} /\ upload[f] \notin {"fila", "terminou"}
    BY DEF Progress
  <2>2. QueueOK' /\ UploadsGoOn /\ upload'[f] = "terminou" BY <1>2, <2>1, AloneKeepsQueue
  <2>3. s \in Slot /\ s.file = f BY <1>2 DEF precheckFails, Slot
  <2> QED BY <2>2, <2>3 DEF SlotOK
<1> QED BY <1>1, <1>2 DEF startUpload

LEMMA AddMediaKeeps ==
  ASSUME DraftInv, NEW key \in Items, NEW f \in Picked(MEDIA), AddMedia(key, f)
  PROVE  DraftInv' /\ Follow
<1>1. f \in Files /\ PurposeOf[f] \in MEDIA BY DEF Picked
<1>2. Editing /\ upload[f] = "nova" /\ UNCHANGED << documents, used, check, sendVars >>
  BY DEF AddMedia, sendVars
<1>3. PICK s \in Initial(f) :
        /\ startUpload(f, s)
        /\ items' = mapItem(items, key, LAMBDA item : [item EXCEPT !.slots = @ \union {s}])
  BY DEF AddMedia
<1>4. QueueOK BY DEF DraftInv, DraftTypeOK, QueueOK
<1>5. QueueOK' /\ UploadsGoOn /\ s \in Slot /\ s.file = f /\ SlotOK(s)'
  BY <1>1, <1>2, <1>3, <1>4, StartKeeps
<1>6. items' = [n \in DOMAIN items |->
                  IF items[n].key = key THEN [items[n] EXCEPT !.slots = @ \union {s}] ELSE items[n]]
  BY <1>3 DEF mapItem
<1>7. \A n \in DOMAIN items : items[n] \in Item /\ items[n].slots \union {s} \in SUBSET Slot
  BY <1>5, ItemsIn, ItemParts DEF DraftInv
<1>8. \A n \in DOMAIN items :
        /\ items'[n] \in Item /\ items'[n].key = items[n].key
        /\ items'[n].slots \subseteq items[n].slots \union {s}
  <2> SUFFICES ASSUME NEW n \in DOMAIN items
               PROVE  /\ items'[n] \in Item /\ items'[n].key = items[n].key
                      /\ items'[n].slots \subseteq items[n].slots \union {s}
    OBVIOUS
  <2>1. CASE items[n].key = key
    <3>1. items'[n] = [items[n] EXCEPT !.slots = items[n].slots \union {s}] BY <1>6, <2>1
    <3> QED BY <3>1, <1>7, NewSlots
  <2>2. CASE items[n].key # key BY <1>6, <1>7, <2>2
  <2> QED BY <2>1, <2>2
<1>9. items' \in Seq(Item) /\ KeysOnce' BY <1>2, <1>6, <1>8, InPlace DEF DraftInv
<1>10. DOMAIN items' = DOMAIN items BY <1>6
<1>11. ItemsOK' BY <1>1, <1>5, <1>8, <1>10, ItemsStay DEF DraftInv
<1>12. DocumentsOK' BY <1>2, <1>5, SameDocuments DEF DraftInv
<1>13. DraftInv' BY <1>2, <1>5, <1>9, <1>11, <1>12, EditingKeeps DEF DraftInv, DraftTypeOK
<1>14. Follow BY <1>2, <1>5, <1>8, <1>10 DEF Follow
<1> QED BY <1>13, <1>14

LEMMA ReceiveFileKeeps ==
  ASSUME DraftInv, NEW key \in Items, NEW f \in Picked(MEDIA), ReceiveFile(key, f)
  PROVE  DraftInv' /\ Follow
<1> DEFINE s == [file |-> f, status |-> "enviado"]
<1>1. f \in Files /\ PurposeOf[f] \in MEDIA BY DEF Picked
<1>2. /\ Editing /\ upload[f] = "nova"
      /\ UNCHANGED << documents, used, waiting, check, sendVars >>
      /\ upload' = [upload EXCEPT ![f] = "terminou"]
  BY DEF ReceiveFile, sendVars
<1>3. QueueOK BY DEF DraftInv, DraftTypeOK, QueueOK
<1>4. "terminou" \in Progress \ {"nova", "fila"} /\ upload[f] \notin {"fila", "terminou"}
  BY <1>2 DEF Progress
<1>5. QueueOK' /\ UploadsGoOn /\ upload'[f] = "terminou"
  BY <1>1, <1>2, <1>3, <1>4, AloneKeepsQueue
<1>6. s \in Slot /\ s.file = f /\ SlotOK(s)' BY <1>1, <1>5 DEF Slot, SlotOK
<1> HIDE DEF s
<1>7. items' = [n \in DOMAIN items |->
                  IF items[n].key = key THEN withReceivedFile(items[n], f) ELSE items[n]]
  BY DEF ReceiveFile, mapItem
<1>8. \A n \in DOMAIN items : items[n] \in Item /\ items[n].slots \union {s} \in SUBSET Slot
  BY <1>6, ItemsIn, ItemParts DEF DraftInv
<1>9. \A n \in DOMAIN items :
        /\ items'[n] \in Item /\ items'[n].key = items[n].key
        /\ items'[n].slots \subseteq items[n].slots \union {s}
  <2> SUFFICES ASSUME NEW n \in DOMAIN items
               PROVE  /\ items'[n] \in Item /\ items'[n].key = items[n].key
                      /\ items'[n].slots \subseteq items[n].slots \union {s}
    OBVIOUS
  <2>1. CASE items[n].key = key /\ fits(items[n], PurposeOf[f])
    <3>1. items'[n] = [items[n] EXCEPT !.slots = items[n].slots \union {s}]
      BY <1>7, <2>1 DEF withReceivedFile, s
    <3> QED BY <3>1, <1>8, NewSlots
  <2>2. CASE ~(items[n].key = key /\ fits(items[n], PurposeOf[f]))
    <3>1. items'[n] = items[n] BY <1>7, <2>2 DEF withReceivedFile
    <3> QED BY <3>1, <1>8
  <2> QED BY <2>1, <2>2
<1>10. items' \in Seq(Item) /\ KeysOnce' BY <1>2, <1>7, <1>9, InPlace DEF DraftInv
<1>11. DOMAIN items' = DOMAIN items BY <1>7
<1>12. ItemsOK' BY <1>1, <1>5, <1>6, <1>9, <1>11, ItemsStay DEF DraftInv
<1>13. DocumentsOK' BY <1>2, <1>5, SameDocuments DEF DraftInv
<1>14. DraftInv' BY <1>2, <1>5, <1>10, <1>12, <1>13, EditingKeeps DEF DraftInv, DraftTypeOK
<1>15. Follow BY <1>2, <1>6, <1>9, <1>11 DEF Follow
<1> QED BY <1>14, <1>15

\* Edits that leave the queue alone.
LEMMA QuietEdit ==
  ASSUME DraftInv, Editing, UNCHANGED << queueVars, check, sendVars >>
  PROVE  QueueOK' /\ UploadsGoOn /\ check' \in [Picked({"nota_xml"}) -> Checks]
<1>1. upload' = upload /\ waiting' = waiting /\ check' = check BY DEF queueVars
<1>2. QueueOK BY DEF DraftInv, DraftTypeOK, QueueOK
<1> QED BY <1>1, <1>2, SameQueue, SameUploads DEF DraftInv, DraftTypeOK

LEMMA RemoveMediaKeeps ==
  ASSUME DraftInv, NEW key \in Items, NEW f \in Picked(MEDIA), RemoveMedia(key, f)
  PROVE  DraftInv' /\ Follow
<1>1. Editing /\ UNCHANGED << documents, used, queueVars, check, sendVars >>
  BY DEF RemoveMedia, sendVars, queueVars
<1>2. QueueOK' /\ UploadsGoOn /\ check' \in [Picked({"nota_xml"}) -> Checks] BY <1>1, QuietEdit
<1>3. items' = [n \in DOMAIN items |->
                  IF items[n].key = key
                    THEN [items[n] EXCEPT !.slots = { s \in @ : s.file # f }] ELSE items[n]]
  BY DEF RemoveMedia, mapItem
<1>4. \A n \in DOMAIN items :
        items[n] \in Item /\ { s \in items[n].slots : s.file # f } \in SUBSET Slot
  BY ItemsIn, ItemParts DEF DraftInv
<1>5. \A n \in DOMAIN items :
        /\ items'[n] \in Item /\ items'[n].key = items[n].key
        /\ items'[n].slots \subseteq items[n].slots
  <2> SUFFICES ASSUME NEW n \in DOMAIN items
               PROVE  /\ items'[n] \in Item /\ items'[n].key = items[n].key
                      /\ items'[n].slots \subseteq items[n].slots
    OBVIOUS
  <2>1. CASE items[n].key = key
    <3>1. items'[n] = [items[n] EXCEPT !.slots = { s \in items[n].slots : s.file # f }]
      BY <1>3, <2>1
    <3> QED BY <3>1, <1>4, NewSlots
  <2>2. CASE items[n].key # key BY <1>3, <1>4, <2>2
  <2> QED BY <2>1, <2>2
<1>6. items' \in Seq(Item) /\ KeysOnce' BY <1>1, <1>3, <1>5, InPlace DEF DraftInv
<1>7. DOMAIN items' = DOMAIN items BY <1>3
<1>8. ItemsOK' BY <1>2, <1>5, <1>7, ItemsStay DEF DraftInv
<1>9. DocumentsOK' BY <1>1, <1>2, SameDocuments DEF DraftInv
<1>10. DraftInv' BY <1>1, <1>2, <1>6, <1>8, <1>9, EditingKeeps DEF DraftInv, DraftTypeOK
<1>11. Follow BY <1>5, <1>7 DEF Follow
<1> QED BY <1>10, <1>11

LEMMA SelectDocumentKeeps ==
  ASSUME DraftInv, NEW f \in Picked(DOCUMENT_PURPOSE), SelectDocument(f)
  PROVE  DraftInv' /\ Follow
<1> DEFINE d == PurposeOf[f]
<1>1. f \in Files /\ d \in DOCUMENT_PURPOSE BY DEF Picked
<1>2. Editing /\ upload[f] = "nova" /\ UNCHANGED << items, used, check, sendVars >>
  BY DEF SelectDocument, sendVars
<1>3. PICK s \in Initial(f) : startUpload(f, s) /\ documents' = [documents EXCEPT ![d] = s]
  BY DEF SelectDocument
<1>4. QueueOK BY DEF DraftInv, DraftTypeOK, QueueOK
<1>5. QueueOK' /\ UploadsGoOn /\ s \in Slot /\ s.file = f /\ SlotOK(s)'
  BY <1>1, <1>2, <1>3, <1>4, StartKeeps
<1>6. documents \in [DOCUMENT_PURPOSE -> Slot \union {Nothing}] BY DEF DraftInv, DraftTypeOK
<1>7. documents' \in [DOCUMENT_PURPOSE -> Slot \union {Nothing}] BY <1>3, <1>5, <1>6
<1>8. DocumentsOK'
  <2> SUFFICES ASSUME NEW e \in DOCUMENT_PURPOSE, documents'[e] # Nothing
               PROVE  PurposeOf[documents'[e].file] = e /\ SlotOK(documents[e])'
    BY DEF DocumentsOK
  <2>1. CASE e = d
    <3>1. documents'[e] = s BY <1>1, <1>3, <1>6, <2>1
    <3> QED BY <3>1, <1>5, <2>1 DEF SlotOK
  <2>2. CASE e # d
    <3>1. documents'[e] = documents[e] BY <1>3, <1>6, <2>2
    <3> QED BY <3>1, <1>5, DocumentsStay DEF DraftInv
  <2> QED BY <2>1, <2>2
<1>9. ItemsOK' BY <1>2, <1>5, SameItems DEF DraftInv
<1>10. items' \in Seq(Item) /\ KeysOnce' BY <1>2 DEF DraftInv, DraftTypeOK, KeysOnce
<1>11. DraftInv'
  BY <1>2, <1>5, <1>7, <1>8, <1>9, <1>10, EditingKeeps DEF DraftInv, DraftTypeOK
<1> QED BY <1>2, <1>11, SameFollows

LEMMA RemoveDocumentKeeps ==
  ASSUME DraftInv, NEW d \in DOCUMENT_PURPOSE, RemoveDocument(d)
  PROVE  DraftInv' /\ Follow
<1>1. Editing /\ UNCHANGED << items, used, queueVars, check, sendVars >>
  BY DEF RemoveDocument, sendVars, queueVars
<1>2. QueueOK' /\ UploadsGoOn /\ check' \in [Picked({"nota_xml"}) -> Checks] BY <1>1, QuietEdit
<1>3. documents' = [documents EXCEPT ![d] = Nothing] BY DEF RemoveDocument
<1>4. documents \in [DOCUMENT_PURPOSE -> Slot \union {Nothing}] BY DEF DraftInv, DraftTypeOK
<1>5. documents' \in [DOCUMENT_PURPOSE -> Slot \union {Nothing}] BY <1>3, <1>4
<1>6. \A e \in DOCUMENT_PURPOSE : documents'[e] # Nothing => documents'[e] = documents[e]
  BY <1>3, <1>4
<1>7. DocumentsOK'
  <2> SUFFICES ASSUME NEW e \in DOCUMENT_PURPOSE, documents'[e] # Nothing
               PROVE  PurposeOf[documents'[e].file] = e /\ SlotOK(documents[e])'
    BY DEF DocumentsOK
  <2> QED BY <1>2, <1>6, DocumentsStay DEF DraftInv
<1>8. ItemsOK' BY <1>1, <1>2, SameItems DEF DraftInv
<1>9. items' \in Seq(Item) /\ KeysOnce' BY <1>1 DEF DraftInv, DraftTypeOK, KeysOnce
<1>10. DraftInv' BY <1>1, <1>2, <1>5, <1>7, <1>8, <1>9, EditingKeeps
<1> QED BY <1>1, <1>10, SameFollows

LEMMA ListEdit ==
  ASSUME DraftInv, Editing, UNCHANGED << documents, queueVars, check, sendVars >>,
         items' \in Seq(Item), KeysOnce',
         \A n \in DOMAIN items' :
           items'[n].slots = {} \/ \E m \in DOMAIN items : items'[n] = items[m]
  PROVE  DraftInv' /\ Follow
<1>1. QueueOK' /\ UploadsGoOn /\ check' \in [Picked({"nota_xml"}) -> Checks] BY QuietEdit
<1>2. ItemsOK' BY <1>1, ItemsStay DEF DraftInv
<1>3. DocumentsOK' BY <1>1, SameDocuments DEF DraftInv
<1>4. documents' \in [DOCUMENT_PURPOSE -> Slot \union {Nothing}] BY DEF DraftInv, DraftTypeOK
<1>5. UNCHANGED sendVars OBVIOUS
<1>6. DraftInv' BY <1>1, <1>2, <1>3, <1>4, <1>5, EditingKeeps
<1>7. Follow BY DEF Follow
<1> QED BY <1>6, <1>7

LEMMA AddItemKeeps ==
  ASSUME DraftInv, NEW key \in Items, AddItem(key)
  PROVE  DraftInv' /\ Follow
<1> DEFINE new == emptyItem(key)
<1>1. /\ Editing /\ key \notin used /\ used' = used \union {key} /\ items' = Append(items, new)
      /\ UNCHANGED << documents, queueVars, check, sendVars >>
  BY DEF AddItem, sendVars, queueVars
<1>2. new \in Item /\ new.key = key /\ new.slots = {} BY DEF emptyItem, Item
<1> HIDE DEF new
<1>3. Len(items) \in Nat /\ DOMAIN items = 1 .. Len(items) /\ items \in Seq(Item)
  BY ItemsIn DEF DraftInv, DraftTypeOK
<1>4. /\ items' \in Seq(Item) /\ Len(items') = Len(items) + 1
      /\ \A n \in 1 .. Len(items) : items'[n] = items[n]
      /\ items'[Len(items) + 1] = new
  BY <1>1, <1>2, <1>3, AppendProperties
<1>5. DOMAIN items' = 1 .. Len(items) + 1 BY <1>4, LenProperties
<1>6. \A n \in DOMAIN items' : n \in DOMAIN items \/ n = Len(items) + 1 BY <1>3, <1>5
<1>7. \A n \in DOMAIN items : items'[n] = items[n] /\ items[n].key # key
  BY <1>1, <1>3, <1>4 DEF DraftInv, KeysOnce
<1>8. KeysOnce' BY <1>1, <1>2, <1>4, <1>6, <1>7 DEF DraftInv, KeysOnce
<1>9. \A n \in DOMAIN items' :
        items'[n].slots = {} \/ \E m \in DOMAIN items : items'[n] = items[m]
  BY <1>2, <1>4, <1>6, <1>7
<1> QED BY <1>1, <1>4, <1>8, <1>9, ListEdit

LEMMA RemoveItemKeeps ==
  ASSUME DraftInv, NEW i \in DOMAIN items, RemoveItem(i)
  PROVE  DraftInv' /\ Follow
<1> DEFINE before == SubSeq(items, 1, i - 1)
           after  == SubSeq(items, i + 1, Len(items))
           from(n) == IF n < i THEN n ELSE n + 1
<1>1. /\ Editing /\ used' = used /\ items' = before \o after
      /\ UNCHANGED << documents, queueVars, check, sendVars >>
  BY DEF RemoveItem, RemoveAt, sendVars, queueVars
<1>2. /\ Len(items) \in Nat /\ DOMAIN items = 1 .. Len(items) /\ i \in 1 .. Len(items)
      /\ \A n \in 1 .. Len(items) : items[n] \in Item
  BY ItemsIn DEF DraftInv
<1>3. /\ before \in Seq(Item) /\ Len(before) = i - 1
      /\ \A n \in 1 .. i - 1 : before[n] = items[n]
  <2>1. 1 \in Int /\ i - 1 \in Int /\ \A n \in 1 .. i - 1 : items[n] \in Item BY <1>2
  <2>2. /\ before \in Seq(Item)
        /\ Len(before) = IF 1 <= i - 1 THEN (i - 1) - 1 + 1 ELSE 0
        /\ \A n \in 1 .. (i - 1) - 1 + 1 : before[n] = items[1 + n - 1]
    BY <2>1, SubSeqProperties
  <2>3. \A n \in 1 .. i - 1 : 1 + n - 1 = n /\ n \in 1 .. (i - 1) - 1 + 1 BY <1>2
  <2>4. Len(before) = i - 1 BY <1>2, <2>2
  <2> QED BY <2>2, <2>3, <2>4
<1>4. /\ after \in Seq(Item) /\ Len(after) = Len(items) - i
      /\ \A n \in 1 .. Len(items) - i : after[n] = items[n + i]
  <2>1. /\ i + 1 \in Int /\ Len(items) \in Int
        /\ \A n \in i + 1 .. Len(items) : items[n] \in Item
    BY <1>2
  <2>2. /\ after \in Seq(Item)
        /\ Len(after) = IF i + 1 <= Len(items) THEN Len(items) - (i + 1) + 1 ELSE 0
        /\ \A n \in 1 .. Len(items) - (i + 1) + 1 : after[n] = items[(i + 1) + n - 1]
    BY <2>1, SubSeqProperties
  <2>3. \A n \in 1 .. Len(items) - i :
          (i + 1) + n - 1 = n + i /\ n \in 1 .. Len(items) - (i + 1) + 1
    BY <1>2
  <2>4. Len(after) = Len(items) - i BY <1>2, <2>2
  <2> QED BY <2>2, <2>3, <2>4
<1> HIDE DEF before, after
<1>5. /\ items' \in Seq(Item) /\ Len(items') = Len(before) + Len(after)
      /\ \A n \in 1 .. Len(before) + Len(after) :
           items'[n] = IF n <= Len(before) THEN before[n] ELSE after[n - Len(before)]
  BY <1>1, <1>3, <1>4, ConcatProperties
<1>6. DOMAIN items' = 1 .. Len(items) - 1 BY <1>2, <1>3, <1>4, <1>5, LenProperties
<1>7. \A n \in DOMAIN items' : from(n) \in DOMAIN items /\ items'[n] = items[from(n)]
  <2> SUFFICES ASSUME NEW n \in DOMAIN items'
               PROVE  from(n) \in DOMAIN items /\ items'[n] = items[from(n)]
    OBVIOUS
  <2>1. n \in Int /\ n >= 1 /\ n <= Len(items) - 1 /\ n \in 1 .. Len(before) + Len(after)
    BY <1>2, <1>3, <1>4, <1>6
  <2>2. CASE n < i
    <3>1. n <= Len(before) /\ n \in 1 .. i - 1 /\ n \in DOMAIN items BY <1>2, <1>3, <2>1, <2>2
    <3> QED BY <3>1, <1>3, <1>5, <2>1, <2>2
  <2>3. CASE ~(n < i)
    <3>1. /\ ~(n <= Len(before)) /\ n - Len(before) \in 1 .. Len(items) - i
          /\ (n - Len(before)) + i = n + 1 /\ n + 1 \in DOMAIN items
      BY <1>2, <1>3, <2>1, <2>3
    <3>2. items'[n] = after[n - Len(before)] BY <3>1, <1>5, <2>1
    <3>3. after[n - Len(before)] = items[n + 1] BY <3>1, <1>4
    <3> QED BY <3>1, <3>2, <3>3, <2>3
  <2> QED BY <2>2, <2>3
<1>8. \A m, n \in DOMAIN items' : from(m) = from(n) => m = n BY <1>2, <1>6
<1> HIDE DEF from
<1>9. KeysOnce' BY <1>1, <1>7, <1>8 DEF DraftInv, KeysOnce
<1> QED BY <1>1, <1>5, <1>7, <1>9, ListEdit

LEMMA MoveItemKeeps ==
  ASSUME DraftInv, NEW i \in DOMAIN items, MoveItem(i)
  PROVE  DraftInv' /\ Follow
<1> DEFINE from(n) == IF n = i THEN i - 1 ELSE IF n = i - 1 THEN i ELSE n
<1>1. /\ Editing /\ used' = used /\ i > 1
      /\ items' = [items EXCEPT ![i - 1] = items[i], ![i] = items[i - 1]]
      /\ UNCHANGED << documents, queueVars, check, sendVars >>
  BY DEF MoveItem, sendVars, queueVars
<1>2. /\ Len(items) \in Nat /\ DOMAIN items = 1 .. Len(items) /\ i \in 1 .. Len(items)
      /\ items = [n \in 1 .. Len(items) |-> items[n]]
      /\ \A n \in 1 .. Len(items) : items[n] \in Item
  BY ItemsIn DEF DraftInv
<1>3. i \in Int /\ i - 1 \in 1 .. Len(items) /\ i - 1 # i BY <1>1, <1>2
<1>4. \A n \in DOMAIN items : from(n) \in DOMAIN items BY <1>2, <1>3
<1>5. items' = [n \in 1 .. Len(items) |-> items[from(n)]] BY <1>1, <1>2, <1>3
<1>6. \A m, n \in DOMAIN items : from(m) = from(n) => m = n BY <1>2, <1>3
<1> HIDE DEF from
<1>7. DOMAIN items' = DOMAIN items /\ \A n \in DOMAIN items : items'[n] = items[from(n)]
  BY <1>2, <1>5
<1>8. items' \in [1 .. Len(items) -> Item] BY <1>2, <1>4, <1>5
<1>9. items' \in Seq(Item) BY <1>2, <1>8
<1>10. KeysOnce' BY <1>1, <1>4, <1>6, <1>7 DEF DraftInv, KeysOnce
<1>11. \A n \in DOMAIN items' : \E m \in DOMAIN items : items'[n] = items[m] BY <1>4, <1>7
<1> QED BY <1>1, <1>9, <1>10, <1>11, ListEdit

-----------------------------------------------------------------------------
(* The answers.                                                            *)

\* A review lasts while the form stays as it is.
LEMMA ReviewStays ==
  ASSUME ReviewHolds, UNCHANGED << items, documents, accepted >>,
         page' = "aberto" /\ ready' # Nothing => page = "aberto" /\ ready' = ready
  PROVE  ReviewHolds'
<1> SUFFICES ASSUME page' = "aberto", ready' # Nothing
             PROVE  /\ FrozenIs(toOpeningInput)'
                    /\ MarkedTerms'
                    /\ \A s \in allSlots' : s.status = "enviado"
  BY DEF ReviewHolds
<1>1. page = "aberto" /\ ready' = ready /\ ready # Nothing OBVIOUS
<1>2. documentSlots' = documentSlots BY DEF documentSlots
<1>3. /\ toOpeningInput.items' = toOpeningInput.items
      /\ toOpeningInput.documents' = toOpeningInput.documents
  BY <1>2 DEF toOpeningInput
<1>4. allSlots' = allSlots BY <1>2 DEF allSlots
<1>5. FrozenIs(toOpeningInput)' BY <1>1, <1>3 DEF ReviewHolds, FrozenIs
<1>6. MarkedTerms' BY <1>1 DEF ReviewHolds, MarkedTerms
<1> QED BY <1>1, <1>4, <1>5, <1>6 DEF ReviewHolds

\* What a step of a draft that nobody edits has to keep.
LEMMA StillDraft ==
  ASSUME DraftInv, UNCHANGED draftVars, QueueOK', UploadsGoOn,
         check' \in [Picked({"nota_xml"}) -> Checks], ReviewHolds'
  PROVE  DraftInv' /\ Follow
<1>1. items' = items /\ documents' = documents /\ used' = used BY DEF draftVars
<1>2. ItemsOK' /\ DocumentsOK' BY <1>1, SameItems, SameDocuments DEF DraftInv
<1>3. KeysOnce' BY <1>1 DEF DraftInv, KeysOnce
<1>4. DraftTypeOK' BY <1>1 DEF DraftInv, DraftTypeOK, QueueOK
<1>5. WaitingOnce' BY DEF QueueOK
<1> QED BY <1>1, <1>2, <1>3, <1>4, <1>5, SameFollows DEF DraftInv

LEMMA SlotsIn ==
  ASSUME DraftTypeOK
  PROVE  /\ \A n \in DOMAIN items : \A t \in items[n].slots : t \in Slot /\ t.file \in Files
         /\ \A d \in DOCUMENT_PURPOSE :
              documents[d] # Nothing => documents[d] \in Slot /\ documents[d].file \in Files
<1>1. \A n \in DOMAIN items : \A t \in items[n].slots : t \in Slot /\ t.file \in Files
  BY ItemsIn, ItemParts
<1>2. \A d \in DOCUMENT_PURPOSE : documents[d] # Nothing => documents[d] \in Slot
  BY DEF DraftTypeOK
<1> QED BY <1>1, <1>2 DEF Slot

\* An answer enters the slot of its file, wherever that now is.
LEMMA AnswerEntersSlots ==
  ASSUME DraftInv, NEW f \in Files, NEW status \in {"enviado", "erro"},
         UploadsGoOn, upload'[f] = "terminou", used' = used,
         withSlot([file |-> f, status |-> status])
  PROVE  /\ items' \in Seq(Item) /\ KeysOnce' /\ ItemsOK' /\ Follow
         /\ documents' \in [DOCUMENT_PURPOSE -> Slot \union {Nothing}] /\ DocumentsOK'
<1> DEFINE s == [file |-> f, status |-> status]
           put(slots) == { IF t.file = f THEN s ELSE t : t \in slots }
<1>1. s \in Slot /\ s.file = f /\ SlotOK(s)' BY DEF Slot, SlotOK
<1>2. /\ items' = [n \in DOMAIN items |-> replaceIn(items[n], s)]
      /\ documents' = [d \in DOCUMENT_PURPOSE |->
           IF documents[d] # Nothing /\ documents[d].file = f THEN s ELSE documents[d]]
  BY <1>1 DEF withSlot
<1>3. \A n \in DOMAIN items :
        replaceIn(items[n], s) = [items[n] EXCEPT !.slots = put(items[n].slots)]
  BY <1>1 DEF replaceIn
<1> HIDE DEF s
<1>4. \A n \in DOMAIN items : items[n] \in Item /\ put(items[n].slots) \in SUBSET Slot
  BY <1>1, ItemsIn, ItemParts DEF DraftInv
<1>5. \A n \in DOMAIN items : \A t \in put(items[n].slots) :
        \/ t \in items[n].slots
        \/ t = s /\ \E u \in items[n].slots : u.file = f
  OBVIOUS
<1> HIDE DEF put
<1>6. \A n \in DOMAIN items :
        /\ items'[n] \in Item /\ items'[n].key = items[n].key
        /\ items'[n].slots = put(items[n].slots)
  <2> SUFFICES ASSUME NEW n \in DOMAIN items
               PROVE  /\ items'[n] \in Item /\ items'[n].key = items[n].key
                      /\ items'[n].slots = put(items[n].slots)
    OBVIOUS
  <2>1. items'[n] = [items[n] EXCEPT !.slots = put(items[n].slots)] BY <1>2, <1>3
  <2>2. items[n] \in Item /\ put(items[n].slots) \in SUBSET Slot BY <1>4
  <2> QED BY <2>1, <2>2, NewSlots
<1>7. DOMAIN items' = DOMAIN items BY <1>2
<1>8. items' \in Seq(Item) /\ KeysOnce' BY <1>2, <1>6, InPlace DEF DraftInv
<1>9. \A n \in DOMAIN items : (\E u \in items[n].slots : u.file = f) => PurposeOf[f] \in MEDIA
  BY DEF DraftInv, ItemsOK
<1>10. ItemsOK' BY <1>1, <1>5, <1>6, <1>7, <1>9, ItemsStay DEF DraftInv
<1>11. Follow
  <2> SUFFICES ASSUME NEW n \in DOMAIN items', NEW t \in items'[n].slots
               PROVE  \E m \in DOMAIN items : /\ items[m].key = items'[n].key
                                              /\ \E u \in items[m].slots : u.file = t.file
    BY DEF Follow
  <2>1. \E u \in items[n].slots : u.file = t.file BY <1>1, <1>5, <1>6, <1>7
  <2> QED BY <2>1, <1>6, <1>7
<1>12. documents' \in [DOCUMENT_PURPOSE -> Slot \union {Nothing}]
  BY <1>1, <1>2 DEF DraftInv, DraftTypeOK
<1>13. DocumentsOK'
  <2> SUFFICES ASSUME NEW d \in DOCUMENT_PURPOSE, documents'[d] # Nothing
               PROVE  PurposeOf[documents'[d].file] = d /\ SlotOK(documents[d])'
    BY DEF DocumentsOK
  <2>1. CASE documents[d] # Nothing /\ documents[d].file = f
    <3>1. documents'[d] = s BY <1>2, <2>1
    <3>2. PurposeOf[f] = d BY <2>1 DEF DraftInv, DocumentsOK
    <3> QED BY <1>1, <3>1, <3>2 DEF SlotOK
  <2>2. CASE ~(documents[d] # Nothing /\ documents[d].file = f)
    <3>1. documents'[d] = documents[d] BY <1>2, <2>2
    <3> QED BY <3>1, DocumentsStay DEF DraftInv
  <2> QED BY <2>1, <2>2
<1> QED BY <1>8, <1>10, <1>11, <1>12, <1>13

\* Every file of a review had its last answer.
LEMMA ReviewIsSettled ==
  ASSUME DraftInv, page = "aberto", ready # Nothing
  PROVE  /\ \A n \in DOMAIN items : \A t \in items[n].slots : upload[t.file] = "terminou"
         /\ \A d \in DOCUMENT_PURPOSE :
              documents[d] # Nothing => upload[documents[d].file] = "terminou"
<1>1. \A s \in allSlots : s.status = "enviado" BY DEF DraftInv, ReviewHolds
<1>2. \A n \in DOMAIN items : \A t \in items[n].slots : t \in allSlots BY DEF allSlots
<1>3. \A d \in DOCUMENT_PURPOSE : documents[d] # Nothing => documents[d] \in allSlots
  BY DEF allSlots, documentSlots
<1> QED BY <1>1, <1>2, <1>3 DEF DraftInv, ItemsOK, DocumentsOK, SlotOK

LEMMA AnswerLeavesReview ==
  ASSUME DraftInv, page = "aberto", ready # Nothing,
         NEW f \in Files, upload[f] = "enviando", NEW status,
         withSlot([file |-> f, status |-> status])
  PROVE  items' = items /\ documents' = documents
<1> DEFINE s == [file |-> f, status |-> status]
<1>1. s.file = f OBVIOUS
<1>2. /\ items' = [n \in DOMAIN items |-> replaceIn(items[n], s)]
      /\ documents' = [d \in DOCUMENT_PURPOSE |->
           IF documents[d] # Nothing /\ documents[d].file = f THEN s ELSE documents[d]]
  BY DEF withSlot
<1> HIDE DEF s
<1>3. \A n \in DOMAIN items : \A t \in items[n].slots : t.file # f BY ReviewIsSettled
<1>4. \A n \in DOMAIN items : replaceIn(items[n], s) = items[n]
  <2> SUFFICES ASSUME NEW n \in DOMAIN items PROVE replaceIn(items[n], s) = items[n] OBVIOUS
  <2>1. { IF t.file = s.file THEN s ELSE t : t \in items[n].slots } = items[n].slots
    BY <1>1, <1>3
  <2>2. replaceIn(items[n], s) = [items[n] EXCEPT !.slots = items[n].slots]
    BY <2>1 DEF replaceIn
  <2>3. items[n] \in Item BY ItemsIn DEF DraftInv
  <2> QED BY <2>2, <2>3 DEF Item
<1>5. items' = [n \in DOMAIN items |-> items[n]] BY <1>2, <1>4
<1>6. items' = items BY <1>5, ItemsIn DEF DraftInv
<1>7. \A d \in DOCUMENT_PURPOSE : ~(documents[d] # Nothing /\ documents[d].file = f)
  BY ReviewIsSettled
<1>8. documents' = [d \in DOCUMENT_PURPOSE |-> documents[d]] BY <1>2, <1>7
<1>9. documents' = documents BY <1>8 DEF DraftInv, DraftTypeOK
<1> QED BY <1>6, <1>9

LEMMA SettlesKeeps ==
  ASSUME DraftInv, NEW f \in Files, upload[f] = "enviando", NEW status \in {"enviado", "erro"},
         Settles(f, status), check' \in [Picked({"nota_xml"}) -> Checks]
  PROVE  DraftInv' /\ Follow
<1>1. /\ release(f) /\ withSlot([file |-> f, status |-> status]) /\ used' = used
      /\ page' = page /\ ready' = ready /\ accepted' = accepted
  BY DEF Settles, sendVars, termsVars
<1>2. QueueOK BY DEF DraftInv, DraftTypeOK, QueueOK
<1>3. QueueOK' /\ UploadsGoOn /\ upload'[f] = "terminou" BY <1>1, <1>2, ReleaseKeepsQueue
<1>4. /\ items' \in Seq(Item) /\ KeysOnce' /\ ItemsOK' /\ Follow
      /\ documents' \in [DOCUMENT_PURPOSE -> Slot \union {Nothing}] /\ DocumentsOK'
  BY <1>1, <1>3, AnswerEntersSlots
<1>5. ReviewHolds'
  <2>1. CASE page = "aberto" /\ ready # Nothing
    <3>1. items' = items /\ documents' = documents BY <1>1, <2>1, AnswerLeavesReview
    <3> QED BY <1>1, <3>1, ReviewStays DEF DraftInv
  <2>2. CASE ~(page = "aberto" /\ ready # Nothing) BY <1>1, <2>2 DEF ReviewHolds
  <2> QED BY <2>1, <2>2
<1> QED BY <1>3, <1>4, <1>5 DEF DraftInv, DraftTypeOK, QueueOK

LEMMA UploadStoredKeeps ==
  ASSUME DraftInv, NEW f \in Files, UploadStored(f)
  PROVE  DraftInv' /\ Follow
<1>1. upload[f] = "enviando" /\ Settles(f, "enviado") BY DEF UploadStored
<1>2. check \in [Picked({"nota_xml"}) -> Checks] BY DEF DraftInv, DraftTypeOK
<1>3. check' \in [Picked({"nota_xml"}) -> Checks] BY <1>2 DEF UploadStored, Requested, Checks
<1> QED BY <1>1, <1>3, SettlesKeeps

LEMMA UploadFailsKeeps ==
  ASSUME DraftInv, NEW f \in Files, UploadFails(f)
  PROVE  DraftInv' /\ Follow
<1>1. upload[f] = "enviando" /\ Settles(f, "erro") /\ check' = check BY DEF UploadFails
<1>2. check' \in [Picked({"nota_xml"}) -> Checks] BY <1>1 DEF DraftInv, DraftTypeOK
<1> QED BY <1>1, <1>2, SettlesKeeps

LEMMA WaitKeeps ==
  ASSUME DraftInv, NEW f \in Files, NEW p \in {"espera", "enviando"},
         upload[f] \in {"enviando", "espera"}, upload' = [upload EXCEPT ![f] = p],
         UNCHANGED << draftVars, waiting, check, termsVars, sendVars >>
  PROVE  DraftInv' /\ Follow
<1>1. QueueOK BY DEF DraftInv, DraftTypeOK, QueueOK
<1>2. p \in Progress \ {"nova", "fila"} /\ upload[f] \notin {"fila", "terminou"} BY DEF Progress
<1>3. QueueOK' /\ UploadsGoOn BY <1>1, <1>2, AloneKeepsQueue
<1>4. ReviewHolds' BY ReviewStays DEF DraftInv, draftVars, termsVars, sendVars
<1>5. check' \in [Picked({"nota_xml"}) -> Checks] BY DEF DraftInv, DraftTypeOK
<1> QED BY <1>3, <1>4, <1>5, StillDraft

LEMMA UploadsKeep ==
  ASSUME DraftInv, NEW f \in Files, Uploads(f)
  PROVE  DraftInv' /\ Follow
<1>1. CASE UploadStored(f) BY <1>1, UploadStoredKeeps
<1>2. CASE UploadFails(f) BY <1>2, UploadFailsKeeps
<1>3. CASE Throttled(f) BY <1>3, WaitKeeps DEF Throttled
<1>4. CASE Retry(f) BY <1>4, WaitKeeps DEF Retry
<1> QED BY <1>1, <1>2, <1>3, <1>4 DEF Uploads

\* Steps of the form that neither edit the draft nor upload.
LEMMA FormKeeps ==
  ASSUME DraftInv, UNCHANGED << draftVars, queueVars >>,
         check' \in [Picked({"nota_xml"}) -> Checks], ReviewHolds'
  PROVE  DraftInv' /\ Follow
<1>1. upload' = upload /\ waiting' = waiting BY DEF queueVars
<1>2. QueueOK BY DEF DraftInv, DraftTypeOK, QueueOK
<1> QED BY <1>1, <1>2, SameQueue, SameUploads, StillDraft

\* Nothing a review holds depends on a check, whenever it is answered.
LEMMA ChecksKeep ==
  ASSUME DraftInv, NEW f \in Picked({"nota_xml"}),
         InvoiceChecked(f) \/ CheckAgain(f) \/ Reconnected(f)
  PROVE  DraftInv' /\ Follow
<1>1. PICK how \in Checks : check' = [check EXCEPT ![f] = how]
  BY DEF InvoiceChecked, CheckAgain, Reconnected, Requested, Checks
<1>2. UNCHANGED << draftVars, queueVars, termsVars, sendVars >>
  BY DEF InvoiceChecked, CheckAgain, Reconnected
<1>3. check' \in [Picked({"nota_xml"}) -> Checks] BY <1>1 DEF DraftInv, DraftTypeOK
<1>4. ReviewHolds' BY <1>2, ReviewStays DEF DraftInv, draftVars, termsVars, sendVars
<1> QED BY <1>2, <1>3, <1>4, FormKeeps

LEMMA TermsKeep ==
  ASSUME DraftInv, NewTerms \/ AcceptedElsewhere \/ AcceptTerms \/ UnmarkTerms \/ SessionRead
  PROVE  DraftInv' /\ Follow
<1>1. UNCHANGED << draftVars, queueVars, check, sendVars >>
  BY DEF NewTerms, AcceptedElsewhere, AcceptTerms, UnmarkTerms, SessionRead
<1>2. accepted' = accepted \/ Editing
  BY DEF NewTerms, AcceptedElsewhere, AcceptTerms, UnmarkTerms, SessionRead
<1>3. ReviewHolds'
  <2>1. CASE accepted' = accepted
    BY <1>1, <2>1, ReviewStays DEF DraftInv, draftVars, sendVars
  <2>2. CASE Editing BY <1>1, <2>2 DEF ReviewHolds, Editing, sendVars
  <2> QED BY <1>2, <2>1, <2>2
<1>4. check' \in [Picked({"nota_xml"}) -> Checks] BY <1>1 DEF DraftInv, DraftTypeOK
<1> QED BY <1>1, <1>3, <1>4, FormKeeps

LEMMA ReviewKeeps ==
  ASSUME DraftInv, Review
  PROVE  DraftInv' /\ Follow
<1>1. /\ ~reviewBlocked /\ ready' = toOpeningInput
      /\ UNCHANGED << draftVars, queueVars, check, termsVars, page >>
  BY DEF Review
<1>2. documentSlots' = documentSlots BY <1>1 DEF documentSlots, draftVars
<1>3. toOpeningInput' = toOpeningInput /\ allSlots' = allSlots /\ accepted' = accepted
  BY <1>1, <1>2 DEF toOpeningInput, requireTerms, allSlots, draftVars, termsVars
<1>4. FrozenIs(toOpeningInput)' BY <1>1, <1>3 DEF FrozenIs
<1>5. MarkedTerms'
  <2>1. toOpeningInput.terms \in {accepted, Nothing} BY DEF toOpeningInput
  <2> QED BY <1>1, <1>3, <2>1 DEF MarkedTerms
<1>6. \A s \in allSlots' : s.status = "enviado" BY <1>1, <1>3 DEF reviewBlocked
<1>7. ReviewHolds' BY <1>4, <1>5, <1>6 DEF ReviewHolds
<1>8. check' \in [Picked({"nota_xml"}) -> Checks] BY <1>1 DEF DraftInv, DraftTypeOK
<1> QED BY <1>1, <1>7, <1>8, FormKeeps

\* A confirmation, its answer or its loss: the review stays, or closes.
LEMMA AttemptsKeep ==
  ASSUME DraftInv, UNCHANGED << draftVars, queueVars, check >>,
         \/ ready' = ready /\ page' = page /\ accepted' = accepted
         \/ ready' = Nothing
         \/ page' # "aberto"
  PROVE  DraftInv' /\ Follow
<1>1. ReviewHolds'
  <2>1. CASE ready' = ready /\ page' = page /\ accepted' = accepted
    BY <2>1, ReviewStays DEF DraftInv, draftVars
  <2>2. CASE ready' = Nothing \/ page' # "aberto" BY <2>2 DEF ReviewHolds
  <2> QED BY <2>1, <2>2
<1>2. check' \in [Picked({"nota_xml"}) -> Checks] BY DEF DraftInv, DraftTypeOK
<1> QED BY <1>1, <1>2, FormKeeps

LEMMA ServeKeeps ==
  ASSUME DraftInv, NEW q \in Confirmations, Serve(q)
  PROVE  DraftInv' /\ Follow
<1>1. PICK said \in outcomes(request[q]) : PageHears(q, said) BY DEF Serve
<1>2. UNCHANGED << draftVars, queueVars, check >> BY DEF Serve
<1>3. \/ ready' = ready /\ page' = page /\ accepted' = accepted
      \/ ready' = Nothing
      \/ page' # "aberto"
  BY <1>1 DEF PageHears
<1> QED BY <1>2, <1>3, AttemptsKeep

LEMMA EditsKeep ==
  ASSUME DraftInv, Draft
  PROVE  DraftInv' /\ Follow
<1>1. CASE \E k \in Items, f \in Picked(MEDIA) :
             AddMedia(k, f) \/ ReceiveFile(k, f) \/ RemoveMedia(k, f)
  BY <1>1, AddMediaKeeps, ReceiveFileKeeps, RemoveMediaKeeps
<1>2. CASE \E k \in Items : AddItem(k) BY <1>2, AddItemKeeps
<1>3. CASE \E f \in Picked(DOCUMENT_PURPOSE) : SelectDocument(f) BY <1>3, SelectDocumentKeeps
<1>4. CASE \E d \in DOCUMENT_PURPOSE : RemoveDocument(d) BY <1>4, RemoveDocumentKeeps
<1>5. CASE \E n \in DOMAIN items : MoveItem(n) \/ RemoveItem(n)
  BY <1>5, MoveItemKeeps, RemoveItemKeeps
<1> QED BY <1>1, <1>2, <1>3, <1>4, <1>5 DEF Draft

LEMMA DraftStep ==
  ASSUME DraftInv, [DraftNext]_openingVars
  PROVE  DraftInv' /\ Follow
<1>1. CASE Draft BY <1>1, EditsKeep
<1>2. CASE \E f \in Files : Uploads(f) BY <1>2, UploadsKeep
<1>3. CASE \E f \in Picked({"nota_xml"}) : InvoiceChecked(f) \/ CheckAgain(f) \/ Reconnected(f)
  BY <1>3, ChecksKeep
<1>4. CASE NewTerms \/ AcceptedElsewhere \/ AcceptTerms \/ UnmarkTerms \/ SessionRead
  BY <1>4, TermsKeep
<1>5. CASE Review BY <1>5, ReviewKeeps
<1>6. CASE GoBack BY <1>6, AttemptsKeep DEF GoBack, termsVars
<1>7. CASE NoAnswer BY <1>7, AttemptsKeep DEF NoAnswer, termsVars
<1>8. CASE \E q \in Confirmations : Confirm(q) BY <1>8, AttemptsKeep DEF Confirm, termsVars
<1>9. CASE \E q \in Confirmations : Serve(q) BY <1>9, ServeKeeps
<1>10. CASE \E q \in Confirmations : Dropped(q) BY <1>10, AttemptsKeep DEF Dropped, termsVars
<1>11. CASE UNCHANGED openingVars
  <2>1. UNCHANGED << draftVars, queueVars, check, ready, page, accepted >>
    BY <1>11 DEF openingVars, termsVars, sendVars
  <2> QED BY <2>1, AttemptsKeep
<1>12. CASE SessionLost BY <1>12, AttemptsKeep DEF SessionLost
<1> QED
  BY <1>1, <1>2, <1>3, <1>4, <1>5, <1>6, <1>7, <1>8, <1>9, <1>10, <1>11, <1>12 DEF DraftNext

LEMMA DraftStart == ASSUME DraftInit PROVE DraftInv
<1>1. PICK k \in Items : items = << emptyItem(k) >> /\ used = {k} BY DEF DraftInit
<1>2. emptyItem(k) \in Item /\ emptyItem(k).key = k /\ emptyItem(k).slots = {}
  BY DEF emptyItem, Item
<1>3. items \in Seq(Item) /\ DOMAIN items = {1} /\ items[1] = emptyItem(k) BY <1>1, <1>2
<1>4. /\ waiting = << >> /\ upload = [f \in Files |-> "nova"]
      /\ documents = [d \in DOCUMENT_PURPOSE |-> Nothing]
      /\ check = [f \in Picked({"nota_xml"}) |-> "nenhuma"] /\ ready = Nothing
  BY DEF DraftInit
<1>5. waiting \in Seq(Files) /\ DOMAIN waiting = {} BY <1>4
<1>6. DraftTypeOK BY <1>3, <1>4, <1>5 DEF DraftTypeOK, Progress, Checks
<1>7. KeysOnce BY <1>1, <1>2, <1>3 DEF KeysOnce
<1>8. WaitingOnce BY <1>5 DEF WaitingOnce
<1>9. ItemsOK BY <1>2, <1>3 DEF ItemsOK
<1>10. DocumentsOK BY <1>4 DEF DocumentsOK
<1>11. ReviewHolds BY <1>4 DEF ReviewHolds
<1> QED BY <1>6, <1>7, <1>8, <1>9, <1>10, <1>11 DEF DraftInv

\* DraftInv is an invariant of the form: in every review all files are sent and
\* settled, and the draft is what the review froze, through reconnections too.
THEOREM FormKeepsReview == DraftSpec => []DraftInv
<1>1. DraftInit => DraftInv BY DraftStart
<1>2. DraftInv /\ [DraftNext]_openingVars => DraftInv' BY DraftStep
<1> QED BY <1>1, <1>2, PTL DEF DraftSpec

LEMMA ReviewShowsAll == ASSUME DraftInv PROVE ReviewedIsSent
<1> SUFFICES ASSUME page = "aberto", ready # Nothing
             PROVE  /\ FrozenIs(toOpeningInput)
                    /\ filesOf(ready) = { s.file : s \in allSlots }
                    /\ MarkedTerms
  BY DEF ReviewedIsSent, FrozenIs, MarkedTerms
<1>1. FrozenIs(toOpeningInput) /\ MarkedTerms BY DEF DraftInv, ReviewHolds
<1>2. \A s \in allSlots : s.status = "enviado" BY DEF DraftInv, ReviewHolds
<1>3. ready.documents = { s.file : s \in documentSlots }
  <2>1. ready.documents = sentSlots(documentSlots) BY <1>1 DEF FrozenIs, toOpeningInput
  <2>2. \A s \in documentSlots : s.status = "enviado" BY <1>2 DEF allSlots
  <2> QED BY <2>1, <2>2 DEF sentSlots
<1>4. /\ DOMAIN ready.items = DOMAIN items
      /\ \A n \in DOMAIN items : ready.items[n].files = { s.file : s \in items[n].slots }
  <2>1. ready.items = [n \in DOMAIN items |->
                         [key |-> items[n].key, files |-> sentSlots(items[n].slots)]]
    BY <1>1 DEF FrozenIs, toOpeningInput
  <2>2. \A n \in DOMAIN items : \A s \in items[n].slots : s.status = "enviado"
    BY <1>2 DEF allSlots
  <2>3. \A n \in DOMAIN items : sentSlots(items[n].slots) = { s.file : s \in items[n].slots }
    BY <2>2 DEF sentSlots
  <2> QED BY <2>1, <2>3
<1>5. filesOf(ready) = { s.file : s \in allSlots } BY <1>3, <1>4 DEF filesOf, allSlots
<1> QED BY <1>1, <1>5

\* While a review is shown, what will be sent is all that the draft shows and the
\* acceptance that is marked, whatever arrives meanwhile (RmaOpeningForm, ready).
THEOREM ReviewIsTheDraft == DraftSpec => []ReviewedIsSent
<1>1. DraftInv => ReviewedIsSent BY ReviewShowsAll
<1> QED BY <1>1, FormKeepsReview, PTL

LEMMA FollowIsEnough ==
  ASSUME Follow
  PROVE  \A k \in Items : \A f \in slotsOf(items', k) \ slotsOf(items, k) : upload[f] = "nova"
<1> SUFFICES ASSUME NEW k \in Items, NEW f \in slotsOf(items', k), f \notin slotsOf(items, k)
             PROVE  upload[f] = "nova"
  OBVIOUS
<1>1. PICK n \in DOMAIN items' : items'[n].key = k /\ \E s \in items'[n].slots : s.file = f
  BY DEF slotsOf
<1>2. \A m \in DOMAIN items : items[m].key = k => \A t \in items[m].slots : t.file # f
  BY DEF slotsOf
<1> QED BY <1>1, <1>2 DEF Follow

\* No answer of an upload, move or removal brings a file to an equipment it was
\* not picked for.
THEOREM FilesStay == DraftSpec => FilesFollowTheirItem
<1>1. DraftInv /\ [DraftNext]_openingVars =>
        [\A k \in Items : \A f \in slotsOf(items', k) \ slotsOf(items, k) :
           upload[f] = "nova"]_openingVars
  BY DraftStep, FollowIsEnough
<1> QED BY <1>1, FormKeepsReview, PTL DEF DraftSpec, FilesFollowTheirItem

=============================================================================
