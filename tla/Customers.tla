------------------------------ MODULE Customers ------------------------------
(***************************************************************************)
(* Customers, their contacts and the accounts of contacts on the portal.   *)
(* A customer registers with its first account; the team registers         *)
(* customers, adds contacts and gives them access.  Each request is one    *)
(* transaction at READ COMMITTED that looks before it inserts and waits    *)
(* where another one inserted the same key; its rows are seen when it      *)
(* commits.  An account is named by its e-mail.                            *)
(***************************************************************************)
EXTENDS Naturals, Sequences, FiniteSets

CONSTANTS
  Documents,  \* CPF or CNPJ
  Emails,
  Requests,   \* slots for requests in progress
  None,
  Asked,      \* what requests ask for, among Ops
  Imported,   \* customers the import brought, with a contact without account
  Team        \* e-mails of accounts of the team

Customer == [document : Documents, by : Emails]
Contact  == [customer : Customer, email : Emails]

\* createCustomerSchema, registerRequestSchema, contactInputSchema, and the
\* button of a contact without access.
Ops ==
  [kind : {"cadastro", "criacao"}, document : Documents, email : Emails]
    \union [kind : {"contato", "acesso"}, customer : Customer, email : Emails]

Keys == Documents \union Emails \union Contact

ASSUME CustomersAssumption ==
  /\ Imported \subseteq Customer /\ Team \subseteq Emails
  /\ \A c, d \in Imported : c.document = d.document => c = d
  /\ Asked \subseteq Ops
  /\ None \notin Requests \union Ops

VARIABLES
  customers,
  contacts,   \* table customer_contacts: contacts there are
  accounts,   \* e-mails that have an account
  access,     \* contacts with accountId, whose account has their e-mail
  pc,         \* steps each request has taken of its plan
  op,
  held        \* the request holding each key: inserted and not committed

records == << customers, contacts, accounts, access >>
vars    == << customers, contacts, accounts, access, pc, op, held >>

Init ==
  /\ customers = Imported
  /\ contacts = { [customer |-> c, email |-> c.by] : c \in Imported }
  /\ accounts = Team
  /\ access = {}
  /\ pc = [p \in Requests |-> 0]
  /\ op = [p \in Requests |-> None]
  /\ held = [k \in Keys |-> None]

-----------------------------------------------------------------------------

\* register, create, addContact, grantForContact: the order of what they look at
\* and of the keys they insert.  The contact of a customer just inserted is its
\* first, and nobody waits for it.
plan(kind) ==
  CASE kind = "cadastro" -> << "olha documento", "olha email", "conta", "cliente" >>
    [] kind = "criacao"  -> << "olha documento", "cliente", "olha email", "conta" >>
    [] kind = "contato"  -> << "olha contato", "contato" >>
    [] kind = "acesso"   -> << "bloqueia contato", "olha email", "conta" >>

Busy(p) == op[p] # None

Done(p) == Busy(p) /\ pc[p] = Len(plan(op[p].kind))

\* The step a request is at.
At(p, steps) == Busy(p) /\ ~Done(p) /\ plan(op[p].kind)[pc[p] + 1] \in steps

\* The customer a request is about, and its contact.
customerOf(o) ==
  IF o.kind \in { "cadastro", "criacao" } THEN [document |-> o.document, by |-> o.email]
                                          ELSE o.customer

contactOf(o) == [customer |-> customerOf(o), email |-> o.email]

\* The key each step looks at or inserts.
keyAt(p, step) ==
  IF step \in { "olha documento", "cliente" } THEN op[p].document
  ELSE IF step \in { "olha email", "conta" } THEN op[p].email
  ELSE contactOf(op[p])

\* Mutant: two customers may have one document.
documentTaken_Never(d) == FALSE

\* Mutant: a customer nobody reaches yet may register.
documentTaken_WithAccess(d) == \E c \in customers :
  c.document = d /\ \E k \in access : k.customer = c

\* customers_document_key
documentTaken(d) == \E c \in customers : c.document = d

\* accounts_email_key, customer_contacts_customer_email_key
taken(step, key) ==
  CASE step \in { "olha documento", "cliente" } -> documentTaken(key)
    [] step \in { "olha email", "conta" }       -> key \in accounts
    [] step \in { "olha contato", "contato" }   -> key \in contacts
    [] step = "bloqueia contato"                -> key \in access

\* Mutant: what a refused request inserted stays in its way.
released_Never(p) == held

\* The transaction ends.
released(p) == [k \in Keys |-> IF held[k] = p THEN None ELSE held[k]]

End(p) ==
  /\ pc' = [pc EXCEPT ![p] = 0]
  /\ op' = [op EXCEPT ![p] = None]
  /\ held' = released(p)

Refuse(p) == End(p) /\ UNCHANGED records

Advance(p) == pc' = [pc EXCEPT ![p] = @ + 1] /\ UNCHANGED << records, op >>

Start(p, o) ==
  /\ ~Busy(p)
  /\ o.kind \in { "contato", "acesso" } => o.customer \in customers
  /\ o.kind = "acesso" => contactOf(o) \in contacts
  /\ op' = [op EXCEPT ![p] = o]
  /\ UNCHANGED << records, pc, held >>

\* isDocumentRegistered, ensureEmailAvailable, and the search for a duplicate:
\* what others committed by now.
Look(p) ==
  \E step \in { "olha documento", "olha email", "olha contato" } :
    /\ At(p, {step})
    /\ IF taken(step, keyAt(p, step)) THEN Refuse(p) ELSE Advance(p) /\ UNCHANGED held

Inserting == { "cliente", "conta", "contato", "bloqueia contato" }

\* insertCustomer, the insert of the account and insertContact, each of which the
\* unique index may refuse, and the FOR UPDATE of the contact.
Insert(p) ==
  \E step \in Inserting :
    LET key == keyAt(p, step)
    IN
    /\ At(p, {step})
    /\ held[key] = None
    /\ IF taken(step, key)
         THEN Refuse(p)
         ELSE held' = [held EXCEPT ![key] = p] /\ Advance(p)

Commit(p) ==
  LET contact == contactOf(op[p])
  IN
  /\ Done(p)
  /\ customers' = customers \union {contact.customer}
  /\ contacts' = contacts \union {contact}
  /\ IF op[p].kind = "contato"
       THEN UNCHANGED << accounts, access >>
       ELSE /\ accounts' = accounts \union {contact.email}
            /\ access' = access \union {contact}
  /\ End(p)

\* Who a request waits for.
waitsFor(p) ==
  IF \E step \in Inserting : At(p, {step})
    THEN held[keyAt(p, plan(op[p].kind)[pc[p] + 1])] ELSE None

\* Requests that wait for each other.
Cycle(S) ==
  /\ S # {}
  /\ \A p \in S : waitsFor(p) \in S
  /\ \A p \in S : \E q \in S : waitsFor(q) = p

\* PostgreSQL undoes one of the transactions that wait for each other; its
\* request is answered with an internal error.
Deadlock(p) ==
  /\ \E S \in SUBSET Requests : p \in S /\ Cycle(S)
  /\ Refuse(p)

\* Any request may fail.
Fail(p) == Busy(p) /\ Refuse(p)

Step(p) == Look(p) \/ Insert(p) \/ Commit(p) \/ Deadlock(p)

Next == \E p \in Requests : (\E o \in Asked : Start(p, o)) \/ Step(p) \/ Fail(p)

\* The API goes on with every request it took, and PostgreSQL lets those that
\* wait for a key take it in turn.
Fairness ==
  \A p \in Requests : WF_vars(Look(p) \/ Commit(p) \/ Deadlock(p)) /\ SF_vars(Insert(p))

Spec == Init /\ [][Next]_vars /\ Fairness

-----------------------------------------------------------------------------

\* Customer, contact and account are born together or not at all: a document has
\* one customer, a customer has its contacts, and an account of the portal has
\* one contact, whatever requests cross (customers.service.ts create,
\* auth.service.ts register).
BornTogether ==
  /\ \A c, d \in customers : c.document = d.document => c = d
  /\ \A c \in customers : \E k \in contacts : k.customer = c
  /\ \A k \in contacts : k.customer \in customers
  /\ \A e \in accounts \ Team : Cardinality({ k \in access : k.email = e }) = 1
  /\ access \subseteq contacts /\ \A k \in access : k.email \in accounts

\* An account reaches a document that has a customer only by the access the team
\* gives to a contact: whoever registers never gets the tickets of another
\* (auth.service.ts:107).
AccessIsGiven ==
  [][\A k \in access' \ access :
       (\E c \in customers : c.document = k.customer.document) =>
         /\ k \in contacts
         /\ \E p \in Requests : Busy(p) /\ op[p].kind = "acesso" /\ contactOf(op[p]) = k]_vars

\* Every request is answered, though a registration inserts the e-mail and then
\* the document while the team's inserts the document and then the e-mail.
Answered == \A p \in Requests : Busy(p) ~> ~Busy(p)

=============================================================================
