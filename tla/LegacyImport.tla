---------------------------- MODULE LegacyImport ----------------------------
(***************************************************************************)
(* The command that imports the previous system: agents, then users, then  *)
(* tickets, each looked up in legacy_records before it is created.  It may *)
(* be stopped, run again and, since nothing prevents it, run twice at      *)
(* once, while the portal keeps registering accounts and customers.  An    *)
(* account is named by its e-mail and a customer by its document, which    *)
(* are unique; ids of the legacy are taken in order of creation.           *)
(***************************************************************************)
EXTENDS Naturals, FiniteSets, Sequences, FiniteSetsExt

CONSTANTS
  Runs,          \* executions of the command
  NAgents, NUsers, NTickets,
  Emails, Documents, None,
  maintenanceInbox,
  PhotosMax,     \* PHOTOS_PER_ITEM.max
  Dumps          \* contents of the previous system, with the list of e-mails

VARIABLES
  dump,
  account,    \* role of the account of each e-mail, or "nenhuma"
  customers,  \* documents of the customers
  contacts,   \* customer_contacts the import created
  records,    \* legacy_records
  rmas,       \* imported RMAs, with everything their transaction wrote
  disk,       \* contents of the storage: <<run, ticket, copy>>
  run         \* progress, maps and report of each execution

vars == << dump, account, customers, contacts, records, rmas, disk, run >>
db == << dump, account, customers, contacts, records, rmas >>

Agents == 1 .. NAgents
Users == 1 .. NUsers
Tickets == 1 .. NTickets

ASSUME ImportAssumption ==
  /\ {NAgents, NUsers, NTickets, PhotosMax} \subseteq Nat
  /\ None \notin Emails \union Documents \union (Runs \X Tickets)
  /\ None \notin [id : Runs \X Users, customer : Documents, account : Emails]
  /\ maintenanceInbox \in Emails

\* E-mails and documents that are not valid are None, and the entries of a
\* ticket, with text or without, have numbers of their own.
ASSUME DumpsAssumption ==
  \A d \in Dumps :
    /\ {d.listed, d.agentEmail} \subseteq [Agents -> Emails \union {None}]
    /\ d.userEmail \in [Users -> Emails \union {None}]
    /\ {d.document, d.issuer} \subseteq [Users -> Documents \union {None}]
    /\ \A t \in Tickets :
         /\ \A e \in d.ticket[t].entries : e.id \in Nat \ {0}
         /\ \A e, f \in d.ticket[t].entries : e.id = f.id => e = f

newRun == [pc |-> "nova", at |-> 1, written |-> 0,
           staff |-> [a \in Agents |-> None], users |-> [u \in Users |-> None],
           skipped |-> {}, failed |-> {}]

\* The first administrator may be there already, as may customers of the portal.
Init ==
  /\ dump \in Dumps
  /\ account \in [Emails -> {"nenhuma", "equipe"}]
  /\ Cardinality({ e \in Emails : account[e] # "nenhuma" }) <= 1
  /\ customers = {} /\ contacts = {} /\ records = {} /\ rmas = {} /\ disk = {}
  /\ run = [p \in Runs |-> newRun]

importedEntityOf(source, id) ==
  IF \E r \in records : r.source = source /\ r.id = id
    THEN (CHOOSE r \in records : r.source = source /\ r.id = id).entity
    ELSE None

Record(source, id, entity) == [source |-> source, id |-> id, entity |-> entity]

\* The primary key and legacy_records_entity_key.
recordable(new) ==
  \A r \in records, n \in new :
    r.source = n.source => r.id # n.id /\ r.entity # n.entity

Stop(p, why) == run' = [run EXCEPT ![p].pc = why]

Next1(p) == run[p].at + 1

\* Left out of the import, and named in its report.
Skip(p, kind) ==
  run' = [run EXCEPT ![p].at = Next1(p), ![p].skipped = @ \union {<<kind, run[p].at>>}]

-----------------------------------------------------------------------------
(* importStaff                                                             *)

listedEmail(a) == dump.listed[a]

\* The e-mail of the list, or the one of the legacy; None when it is not valid.
emailOf(a) == IF listedEmail(a) # None THEN listedEmail(a) ELSE dump.agentEmail[a]

historyOnly(a) == listedEmail(a) = None /\ emailOf(a) = maintenanceInbox

repeatedEmails ==
  { e \in Emails : \E a, b \in Agents :
      /\ a # b
      /\ \A c \in {a, b} : listedEmail(c) = None /\ dump.agentEmail[c] = e }

hasProblem(a) ==
  \/ emailOf(a) = None
  \/ listedEmail(a) = None /\ ~historyOnly(a) /\ emailOf(a) \in repeatedEmails

AtAgent(p) == run[p].pc = "equipe" /\ run[p].at \in Agents

agentOf(p) == run[p].at

HasAgent(p, entity) ==
  run' = [run EXCEPT ![p].pc = "equipe", ![p].at = Next1(p),
                     ![p].staff[agentOf(p)] = entity]

KnowAgent(p) ==
  /\ AtAgent(p)
  /\ importedEntityOf("ost_staff", agentOf(p)) # None
  /\ HasAgent(p, importedEntityOf("ost_staff", agentOf(p)))
  /\ UNCHANGED << db, disk >>

\* Left out without an e-mail of its own, or with one a customer uses.
leavesOut(a) == hasProblem(a) \/ emailOf(a) \in { e \in Emails : account[e] = "cliente" }

SkipAgent(p) ==
  /\ AtAgent(p) /\ importedEntityOf("ost_staff", agentOf(p)) = None
  /\ leavesOut(agentOf(p))
  /\ Skip(p, "equipe")
  /\ UNCHANGED << db, disk >>

TakeAgent(p) ==
  /\ AtAgent(p) /\ importedEntityOf("ost_staff", agentOf(p)) = None
  /\ ~leavesOut(agentOf(p))
  /\ Stop(p, "agente")
  /\ UNCHANGED << db, disk >>

RecordAgent(p, e) ==
  LET new == {Record("ost_staff", agentOf(p), e)}
  IN  IF recordable(new)
        THEN records' = records \union new /\ HasAgent(p, e)
        ELSE records' = records /\ Stop(p, "interrompida")

\* The account exists already: it is linked as it is.
LinkAgent(p) ==
  /\ run[p].pc = "agente" /\ account[emailOf(agentOf(p))] # "nenhuma"
  /\ RecordAgent(p, emailOf(agentOf(p)))
  /\ UNCHANGED << dump, account, customers, contacts, rmas, disk >>

HashAgent(p) ==
  /\ run[p].pc = "agente" /\ account[emailOf(agentOf(p))] = "nenhuma"
  /\ Stop(p, "senha do agente")
  /\ UNCHANGED << db, disk >>

\* The account of the inbox only signs the history: disabled, without a login.
\* An e-mail or an agent that somebody else took meanwhile stops the execution.
InsertAgent(p) ==
  LET e == emailOf(agentOf(p))
  IN  /\ run[p].pc = "senha do agente"
      /\ IF account[e] = "nenhuma" /\ recordable({Record("ost_staff", agentOf(p), e)})
           THEN /\ account' = [account EXCEPT ![e] = IF historyOnly(agentOf(p)) THEN "historico"
                                                                                 ELSE "equipe"]
                /\ RecordAgent(p, e)
           ELSE Stop(p, "parada") /\ UNCHANGED << account, records >>
      /\ UNCHANGED << dump, customers, contacts, rmas, disk >>

-----------------------------------------------------------------------------
(* importUsers, the oldest first                                           *)

AtUser(p) == run[p].pc = "usuarios" /\ run[p].at \in Users

userOf(p) == run[p].at

\* The document of the form or, without one, that of the issuer of an invoice.
identityOf(u) == IF dump.document[u] # None THEN dump.document[u] ELSE dump.issuer[u]

importedUserOf(u) ==
  LET id == importedEntityOf("ost_user", u)
  IN  IF id = None THEN None ELSE CHOOSE c \in contacts : c.id = id

HasUser(p, contact) ==
  run' = [run EXCEPT ![p].pc = "usuarios", ![p].at = Next1(p), ![p].users[userOf(p)] = contact]

KnowUser(p) ==
  /\ AtUser(p)
  /\ importedUserOf(userOf(p)) # None
  /\ HasUser(p, importedUserOf(userOf(p)))
  /\ UNCHANGED << db, disk >>

\* Left out without a document, or without a valid e-mail that is free.
leavesOutUser(u) ==
  identityOf(u) = None \/ dump.userEmail[u] \notin { e \in Emails : account[e] = "nenhuma" }

SkipUser(p) ==
  /\ AtUser(p) /\ importedUserOf(userOf(p)) = None
  /\ leavesOutUser(userOf(p))
  /\ Skip(p, "usuario")
  /\ UNCHANGED << db, disk >>

HashUser(p) ==
  /\ AtUser(p) /\ importedUserOf(userOf(p)) = None
  /\ ~leavesOutUser(userOf(p))
  /\ Stop(p, "senha do usuario")
  /\ UNCHANGED << db, disk >>

\* The customer already imported for the document, the one registered here, or
\* a new one, which is recorded.
customerRecords(d) ==
  IF importedEntityOf("cpf_cnpj", d) # None \/ d \in customers THEN {}
  ELSE {Record("cpf_cnpj", d, d)}

ImportUser(p) ==
  LET u == userOf(p)
      e == dump.userEmail[u]
      contact == [id |-> <<p, u>>, customer |-> identityOf(u), account |-> e]
      new == customerRecords(identityOf(u))
               \union {Record("ost_user", u, contact.id), Record("ost_user_account", u, e)}
  IN  /\ run[p].pc = "senha do usuario"
      /\ IF account[e] = "nenhuma" /\ recordable(new)
           THEN /\ customers' = customers \union {identityOf(u)}
                /\ account' = [account EXCEPT ![e] = "cliente"]
                /\ contacts' = contacts \union {contact}
                /\ records' = records \union new
                /\ HasUser(p, contact)
           ELSE Stop(p, "parada") /\ UNCHANGED << account, customers, contacts, records >>
      /\ UNCHANGED << dump, rmas, disk >>

-----------------------------------------------------------------------------
(* What a ticket becomes: planTicket                                       *)

equipmentOf(t) == dump.ticket[t].equipment

STAGE_BY_LEGACY_STATUS ==
  [aguardando_envio |-> "aguardando_envio", recebido |-> "recebido",
   aguardando_cliente |-> "aguardando_aprovacao", em_testes |-> "testes",
   concluido |-> "finalizado"]

isKnown(status) == status \in DOMAIN STAGE_BY_LEGACY_STATUS
stageOf(status) == STAGE_BY_LEGACY_STATUS[status]

\* Photos that can be read and are of an accepted type, up to the limit.
photosOf(item) == IF item.photos < PhotosMax THEN item.photos ELSE PhotosMax

\* One document of each kind the system has; other kinds are left out.
documentsOf(t) == dump.ticket[t].documents \intersect {"nota_xml", "declaracao"}

\* Equipment before the first whose status is unknown: there the plan fails, as
\* it does at once when a row of the ticket has no date.
planned(t) ==
  { i \in DOMAIN equipmentOf(t) :
      t \notin dump.undatedTickets /\ \A j \in 1 .. i : isKnown(equipmentOf(t)[j].status) }

planFails(t) == t \in dump.undatedTickets \/ planned(t) # DOMAIN equipmentOf(t)

copiesOf(t) ==
  MapThenSumSet(LAMBDA i : photosOf(equipmentOf(t)[i]), planned(t))
    + (IF planFails(t) THEN 0 ELSE Cardinality(documentsOf(t)))

\* What was received has a date and, past the receipt, a deadline, that ends
\* with the last event.
itemRow(item) ==
  LET stage == stageOf(item.status)
  IN  [stage |-> stage,
       receivedAt |-> IF stage = "aguardando_envio" THEN None ELSE item.receivedAt,
       slaStarted |-> stage \notin {"aguardando_envio", "recebido"},
       slaFinished |-> stage = "finalizado"]

\* One receipt for each date.
receiptsOf(t) ==
  LET received == { i \in DOMAIN equipmentOf(t) : itemRow(equipmentOf(t)[i]).receivedAt # None }
      on(d) == { i \in received : equipmentOf(t)[i].receivedAt = d }
  IN  { on(equipmentOf(t)[i].receivedAt) : i \in received }

\* The declared shipment is of the items that left the customer.
shippedOf(t) ==
  { i \in DOMAIN equipmentOf(t) :
      dump.ticket[t].shipment /\ equipmentOf(t)[i].status # "aguardando_envio" }

\* The contact of a user, who may not be among the imported ones.
contactOf(p, u) == IF u \in Users THEN run[p].users[u] ELSE None

\* Mutant: whoever wrote, even a contact of another customer.
customerAuthorOf_Anyone(p, requester, entry) ==
  IF contactOf(p, entry.user) # None THEN contactOf(p, entry.user).account ELSE requester.account

\* Whoever wrote, when imported for the same customer; or else the requester.
customerAuthorOf(p, requester, entry) ==
  IF contactOf(p, entry.user) # None /\ contactOf(p, entry.user).customer = requester.customer
    THEN contactOf(p, entry.user).account
    ELSE requester.account

staffAccount(p, a) == IF a = 0 THEN None ELSE run[p].staff[a]

\* A response needs the account of its agent to be a message of the team.
isMessage(p, entry) ==
  entry.type = "M" \/ (entry.type = "R" /\ staffAccount(p, entry.staff) # None)

\* Entries that have text: markup alone, as an image pasted into a reply, leaves none.
entriesOf(t) == { e \in dump.ticket[t].entries : e.text }

\* The first message, of the requester, has the subject and the remarks of the
\* ticket, when it has any; a long text becomes several messages, of which the
\* first one stands for all.
openingMessageOf(t, requester) ==
  { m \in {[entry |-> 0, side |-> "cliente", author |-> requester.account]} :
      dump.ticket[t].opening }

messagesOf(p, t, requester) ==
  openingMessageOf(t, requester)
  \union
  { [entry |-> e.id,
     side |-> IF e.type = "M" THEN "cliente" ELSE "equipe",
     author |-> IF e.type = "M" THEN customerAuthorOf(p, requester, e)
                                ELSE staffAccount(p, e.staff)] :
    e \in { x \in entriesOf(t) : isMessage(p, x) } }

\* Entries of another type are left out.
notesOf(p, t) ==
  { [entry |-> e.id, author |-> staffAccount(p, e.staff)] :
    e \in { x \in entriesOf(t) : x.type \in {"R", "N"} /\ ~isMessage(p, x) } }

rmaRow(p, t) ==
  LET requester == contactOf(p, dump.ticket[t].requester)
  IN  [id |-> <<p, t>>, ticket |-> t,
       customer |-> requester.customer, requester |-> requester,
       assignee |-> staffAccount(p, dump.ticket[t].assignee),
       closed |-> dump.ticket[t].closed,
       items |-> [i \in DOMAIN equipmentOf(t) |-> itemRow(equipmentOf(t)[i])],
       receipts |-> receiptsOf(t), shipped |-> shippedOf(t),
       files |-> { <<p, t, n>> : n \in 1 .. copiesOf(t) },
       messages |-> messagesOf(p, t, requester), notes |-> notesOf(p, t)]

-----------------------------------------------------------------------------
(* importTickets                                                           *)

AtTicket(p) == run[p].pc = "chamados" /\ run[p].at \in Tickets

ticketOf(p) == run[p].at

requesterOf(p) == contactOf(p, dump.ticket[ticketOf(p)].requester)

imported(t) == importedEntityOf("ost_ticket", t) # None

KnowTicket(p) ==
  /\ AtTicket(p) /\ imported(ticketOf(p))
  /\ run' = [run EXCEPT ![p].at = Next1(p)]
  /\ UNCHANGED << db, disk >>

SkipTicket(p) ==
  /\ AtTicket(p) /\ ~imported(ticketOf(p)) /\ requesterOf(p) = None
  /\ Skip(p, "chamado")
  /\ UNCHANGED << db, disk >>

PlanTicket(p) ==
  /\ AtTicket(p) /\ ~imported(ticketOf(p)) /\ requesterOf(p) # None
  /\ run' = [run EXCEPT ![p].pc = "copiando", ![p].written = 0]
  /\ UNCHANGED << db, disk >>

Copy(p) ==
  /\ run[p].pc = "copiando" /\ run[p].written < copiesOf(ticketOf(p))
  /\ disk' = disk \union {<<p, ticketOf(p), run[p].written + 1>>}
  /\ run' = [run EXCEPT ![p].written = @ + 1]
  /\ UNCHANGED db

\* A status nobody knows, a row without a date, or the storage or the legacy
\* that does not answer.
PlanFails(p) ==
  /\ run[p].pc = "copiando"
  /\ Stop(p, "descartando")
  /\ UNCHANGED << db, disk >>

\* Mutant: a ticket is not recorded.
ticketRecords_None(p) == {}

ticketRecords(p) == {Record("ost_ticket", ticketOf(p), <<p, ticketOf(p)>>)}

\* writeTicket, in one transaction.
WriteTicket(p) ==
  /\ run[p].pc = "copiando" /\ ~planFails(ticketOf(p))
  /\ run[p].written = copiesOf(ticketOf(p))
  /\ recordable(ticketRecords(p))
  /\ rmas' = rmas \union {rmaRow(p, ticketOf(p))}
  /\ records' = records \union ticketRecords(p)
  /\ run' = [run EXCEPT ![p].pc = "chamados", ![p].at = Next1(p)]
  /\ UNCHANGED << dump, account, customers, contacts, disk >>

copies(p) == { <<p, ticketOf(p), n>> : n \in 1 .. run[p].written }

\* A ticket that could not be imported, named in the report.
Fail(p) ==
  run' = [run EXCEPT ![p].pc = "chamados", ![p].at = Next1(p),
                     ![p].failed = @ \union {ticketOf(p)}]

\* Mutant: the copies of a ticket that failed are left where they are.
Discard_Nothing(p) ==
  /\ run[p].pc = "descartando" /\ Fail(p)
  /\ UNCHANGED << db, disk >>

\* The copies are removed together; one that cannot be ends the execution.
Discard(p) ==
  /\ run[p].pc = "descartando"
  /\ \/ /\ disk' = disk \ copies(p)
        /\ Fail(p)
     \/ /\ \E left \in SUBSET copies(p) \ {{}} : disk' = disk \ (copies(p) \ left)
        /\ Stop(p, "parada")
  /\ UNCHANGED db

-----------------------------------------------------------------------------
(* runImport                                                               *)

\* All the rows of a phase are read before its first one is imported: one row
\* without a date that must be there ends the execution.
Enter(p, phase) ==
  run' = [run EXCEPT ![p].pc = IF phase \in dump.undatedPhases THEN "interrompida" ELSE phase,
                     ![p].at = 1]

Advance(p) ==
  /\ UNCHANGED << db, disk >>
  /\ \/ run[p].pc = "nova" /\ Enter(p, "equipe")
     \/ run[p].pc = "equipe" /\ run[p].at > NAgents /\ Enter(p, "usuarios")
     \/ run[p].pc = "usuarios" /\ run[p].at > NUsers /\ Enter(p, "chamados")
     \/ run[p].pc = "chamados" /\ run[p].at > NTickets /\ Stop(p, "concluida")

Ended == {"concluida", "interrompida", "parada"}

\* The process stops, or a statement fails where nothing catches it.
Crash(p) ==
  /\ run[p].pc \notin Ended \union {"nova"}
  /\ Stop(p, "parada")
  /\ UNCHANGED << db, disk >>

\* The portal goes on: somebody registers, with a customer of their own.
Register(e, d) ==
  /\ account[e] = "nenhuma" /\ d \notin customers
  /\ account' = [account EXCEPT ![e] = "cliente"]
  /\ customers' = customers \union {d}
  /\ UNCHANGED << dump, contacts, records, rmas, disk, run >>

Next ==
  \/ \E p \in Runs :
       \/ Advance(p) \/ Crash(p)
       \/ KnowAgent(p) \/ SkipAgent(p) \/ TakeAgent(p)
       \/ LinkAgent(p) \/ HashAgent(p) \/ InsertAgent(p)
       \/ KnowUser(p) \/ SkipUser(p) \/ HashUser(p) \/ ImportUser(p)
       \/ KnowTicket(p) \/ SkipTicket(p) \/ PlanTicket(p)
       \/ Copy(p) \/ PlanFails(p) \/ WriteTicket(p) \/ Discard(p)
  \/ \E e \in Emails, d \in Documents : Register(e, d)

Spec == Init /\ [][Next]_vars

-----------------------------------------------------------------------------
(* Properties.                                                             *)

\* However often the import is run, stopped, or run twice at once: a ticket is
\* one RMA, a user one contact, and no two agents share an account, which would
\* lose who did each thing (staff-import.ts:24).
NeverTwice ==
  /\ \A x, y \in rmas : x.ticket = y.ticket => x = y
  /\ \A c, d \in contacts : c.id[2] = d.id[2] => c = d
  /\ \A a, b \in Agents :
       importedEntityOf("ost_staff", a) = importedEntityOf("ost_staff", b) =>
         a = b \/ importedEntityOf("ost_staff", a) = None

\* A ticket is written whole or not at all: every file of an RMA has its
\* content, and a content without an RMA is of the ticket some execution is at,
\* or stopped at. An execution that ends leaves every ticket as an RMA or names
\* it in its report, with its requester if that one was skipped.
TicketsAreWhole ==
  /\ \A x \in rmas : x.files \subseteq disk
  /\ \A k \in disk :
       \/ \E x \in rmas : k \in x.files
       \/ run[k[1]].at = k[2] /\ run[k[1]].pc \in {"copiando", "descartando", "parada"}
  /\ \A p \in Runs, t \in Tickets : run[p].pc = "concluida" =>
       \/ \E x \in rmas : x.ticket = t /\ imported(t)
       \/ t \in run[p].failed
       \/ /\ <<"chamado", t>> \in run[p].skipped
          /\ dump.ticket[t].requester \in Users =>
               <<"usuario", dump.ticket[t].requester>> \in run[p].skipped

\* No text of the conversation is lost or shown to the wrong side: each entry
\* with text is in the RMA once and one without any is not in it at all, a note
\* or a response without a known author is only seen by the team, and what is on
\* the side of the customer was written by an account of that customer.
ConversationKeepsItsSide ==
  \A x \in rmas :
    LET entries == dump.ticket[x.ticket].entries
        internal == { e.id : e \in { y \in entries : y.type = "N" } }
        shown == { m.entry : m \in x.messages }
        kept(e) == { m \in x.messages : m.entry = e.id } \union { n \in x.notes : n.entry = e.id }
    IN  /\ \A e \in entries : e.type \in {"M", "R", "N"} =>
             /\ e.text => Cardinality(kept(e)) = 1
             /\ ~e.text => kept(e) = {}
        /\ shown \intersect internal = {}
        /\ \A m \in x.messages : m.author # None
        /\ \A m \in x.messages : m.side = "cliente" =>
             \E c \in contacts : c.account = m.author /\ c.customer = x.customer

=============================================================================
