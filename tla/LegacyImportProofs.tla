------------------------- MODULE LegacyImportProofs -------------------------
(***************************************************************************)
(* Proofs about the import, for any number of executions, agents, users    *)
(* and tickets, whatever the previous system holds: nothing is imported    *)
(* twice, a ticket is written whole, and nobody reads what is not theirs.  *)
(* What carries them is legacy_records: who finds no record may be wrong   *)
(* by the time it writes, but two records of one row, or of one result,    *)
(* never stay, and what comes with a record is there.                      *)
(***************************************************************************)
EXTENDS LegacyImport, FiniteSetTheorems, TLAPS

Contact == [id : Runs \X Users, customer : Documents, account : Emails]

Copying == {"copiando", "descartando"}
TicketPhase == {"chamados"} \union Copying
States == {"nova", "equipe", "agente", "senha do agente", "usuarios", "senha do usuario"}
            \union TicketPhase \union Ended

RunRow ==
  [ pc : States, at : Nat, written : Nat,
    staff : [Agents -> Emails \union {None}], users : [Users -> Contact \union {None}],
    skipped : SUBSET ({"equipe", "usuario", "chamado"} \X Nat), failed : SUBSET Nat ]

TypeOK ==
  /\ dump \in Dumps
  /\ contacts \subseteq Contact
  /\ disk \subseteq Runs \X Tickets \X Nat
  /\ run \in [Runs -> RunRow]

\* The unique keys of legacy_records.
RecordsDiffer ==
  \A r, s \in records : r.source = s.source => (r.id = s.id <=> r.entity = s.entity)

\* What came with each record is there.
RecordsMean ==
  \A r \in records :
    /\ r.source = "ost_staff" => r.entity \in Emails
    /\ r.source = "ost_user" => \E c \in contacts : c.id = r.entity
    /\ r.source = "ost_ticket" => \E x \in rmas : x.ticket = r.id

\* A contact, or an RMA, came with its record, and no other with that one.
ContactsRecorded ==
  /\ \A c \in contacts : Record("ost_user", c.id[2], c.id) \in records
  /\ \A c, d \in contacts : c.id[2] = d.id[2] => c = d

RmasRecorded ==
  /\ \A x \in rmas : /\ x.id \in Runs \X Tickets /\ x.ticket = x.id[2]
                     /\ Record("ost_ticket", x.ticket, x.id) \in records
  /\ \A x, y \in rmas : x.ticket = y.ticket => x = y

\* The files of an RMA are the copies its execution made for its ticket.
FilesThere ==
  \A x \in rmas : \A k \in x.files : k \in disk /\ k[1] = x.id[1] /\ k[2] = x.ticket

SidesKept(x) ==
  LET entries == dump.ticket[x.ticket].entries
      internal == { e.id : e \in { y \in entries : y.type = "N" } }
      shown == { m.entry : m \in x.messages }
      kept(e) == { m \in x.messages : m.entry = e.id } \union { n \in x.notes : n.entry = e.id }
  IN  /\ \A e \in entries : e.type \in {"M", "R", "N"} =>
           /\ e.text => Cardinality(kept(e)) = 1
           /\ ~e.text => kept(e) = {}
      /\ shown \intersect internal = {}
      /\ \A m \in x.messages : m.author # None
      /\ \A m \in x.messages : m.side = "cliente" =>
           \E c \in contacts : c.account = m.author /\ c.customer = x.customer

\* What an execution works on is there to work on.
Placed(p) ==
  /\ run[p].pc \in {"agente", "senha do agente"} =>
       run[p].at \in Agents /\ emailOf(run[p].at) \in Emails
  /\ run[p].pc = "senha do usuario" =>
       run[p].at \in Users /\ identityOf(run[p].at) \in Documents
                           /\ dump.userEmail[run[p].at] \in Emails
  /\ run[p].pc \in Copying => run[p].at \in Tickets /\ requesterOf(p) # None

\* What an execution remembers of the users, and what it has done with each.
PastUser(p, u) ==
  \/ run[p].pc \in {"usuarios", "senha do usuario"} /\ u < run[p].at
  \/ run[p].pc \in TicketPhase \union {"concluida"}

UsersKnown(p) ==
  \A u \in Users :
    /\ run[p].users[u] # None => run[p].users[u] \in contacts
    /\ PastUser(p, u) => run[p].users[u] # None \/ <<"usuario", u>> \in run[p].skipped

\* Left out because its requester was.
SkippedWith(p, t) ==
  /\ <<"chamado", t>> \in run[p].skipped
  /\ dump.ticket[t].requester \in Users =>
       <<"usuario", dump.ticket[t].requester>> \in run[p].skipped

Settled(p, t) ==
  \/ \E x \in rmas : x.ticket = t
  \/ t \in run[p].failed
  \/ SkippedWith(p, t)

PastTicket(p, t) ==
  \/ run[p].pc \in TicketPhase /\ t < run[p].at
  \/ run[p].pc = "concluida"

TicketsSettled(p) == \A t \in Tickets : PastTicket(p, t) => Settled(p, t)

\* An execution has left behind the RMAs it wrote.
RmasBehind(p) ==
  \A x \in rmas : x.id[1] = p =>
    \/ run[p].pc \in Ended
    \/ run[p].pc \in TicketPhase /\ x.ticket < run[p].at

\* The copies of an execution are those of its RMAs and of the ticket it is at.
CopiesKnown(p) ==
  /\ run[p].pc = "copiando" => \A n \in 1 .. run[p].written : <<p, run[p].at, n>> \in disk
  /\ \A k \in disk : k[1] = p =>
       \/ \E x \in rmas : k \in x.files
       \/ /\ k[2] = run[p].at
          /\ \/ run[p].pc \in Copying /\ k[3] \in 1 .. run[p].written
             \/ run[p].pc = "parada"

RunOK(p) ==
  Placed(p) /\ UsersKnown(p) /\ TicketsSettled(p) /\ RmasBehind(p) /\ CopiesKnown(p)

IInv ==
  /\ TypeOK
  /\ RecordsDiffer /\ RecordsMean
  /\ ContactsRecorded /\ RmasRecorded /\ FilesThere
  /\ \A x \in rmas : SidesKept(x)
  /\ \A p \in Runs : RunOK(p)

-----------------------------------------------------------------------------
(* What the operators of the model return.                                 *)

\* What the previous system holds names accounts, customers and users.
LEMMA DumpNames ==
  ASSUME dump \in Dumps
  PROVE  /\ \A a \in Agents : emailOf(a) \in Emails \union {None}
         /\ \A u \in Users : /\ identityOf(u) \in Documents \union {None}
                             /\ dump.userEmail[u] \in Emails \union {None}
<1>1. /\ dump.listed \in [Agents -> Emails \union {None}]
      /\ dump.agentEmail \in [Agents -> Emails \union {None}]
      /\ dump.userEmail \in [Users -> Emails \union {None}]
      /\ dump.document \in [Users -> Documents \union {None}]
      /\ dump.issuer \in [Users -> Documents \union {None}]
  BY DumpsAssumption
<1> QED  BY <1>1 DEF emailOf, listedEmail, identityOf

\* Looking up a row that was recorded finds what was recorded of it, and what
\* is found was recorded.
LEMMA LookupFinds ==
  ASSUME RecordsDiffer, NEW r \in records
  PROVE  importedEntityOf(r.source, r.id) = r.entity
<1> DEFINE Found(s) == s.source = r.source /\ s.id = r.id
<1>1. Found(CHOOSE s \in records : Found(s)) /\ (CHOOSE s \in records : Found(s)) \in records
  OBVIOUS
<1> QED  BY <1>1 DEF importedEntityOf, RecordsDiffer

LEMMA FoundIsRecorded ==
  ASSUME NEW source, NEW id, importedEntityOf(source, id) # None
  PROVE  \E r \in records :
           r.source = source /\ r.id = id /\ r.entity = importedEntityOf(source, id)
BY DEF importedEntityOf

\* One record of each source can be added when the keys accept them.
LEMMA RecordsGrow ==
  ASSUME RecordsDiffer, NEW new, recordable(new), records' = records \union new,
         \A n, m \in new : n.source = m.source => n = m
  PROVE  RecordsDiffer'
BY DEF RecordsDiffer, recordable

LEMMA RecordFields ==
  ASSUME NEW source, NEW id, NEW entity
  PROVE  /\ Record(source, id, entity).source = source
         /\ Record(source, id, entity).id = id
         /\ Record(source, id, entity).entity = entity
BY DEF Record

\* The contact an execution has of a user is one of those imported.
LEMMA ContactFound ==
  ASSUME NEW p, UsersKnown(p), NEW u, contactOf(p, u) # None
  PROVE  contactOf(p, u) \in contacts
BY DEF contactOf, UsersKnown

\* A user found was imported, and is a contact.
LEMMA UserFound ==
  ASSUME RecordsMean, NEW u, importedUserOf(u) # None
  PROVE  importedUserOf(u) \in contacts
<1>1. importedEntityOf("ost_user", u) # None
  BY DEF importedUserOf
<1>2. PICK r \in records : r.source = "ost_user" /\ r.entity = importedEntityOf("ost_user", u)
  BY <1>1, FoundIsRecorded
<1>3. \E c \in contacts : c.id = importedEntityOf("ost_user", u)
  BY <1>2 DEF RecordsMean
<1> QED  BY <1>1, <1>3 DEF importedUserOf

\* A ticket found has its RMA.
LEMMA TicketFound ==
  ASSUME RecordsMean, NEW t, imported(t)
  PROVE  \E x \in rmas : x.ticket = t
<1>1. PICK r \in records : r.source = "ost_ticket" /\ r.id = t
  BY FoundIsRecorded DEF imported
<1> QED  BY <1>1 DEF RecordsMean

LEMMA RmaIsFound ==
  ASSUME RecordsDiffer, RmasRecorded, NEW x \in rmas, x.ticket \in Tickets
  PROVE  imported(x.ticket)
<1> DEFINE r == Record("ost_ticket", x.ticket, x.id)
<1>1. r \in records /\ x.id \in Runs \X Tickets
  BY DEF RmasRecorded
<1>2. importedEntityOf(r.source, r.id) = r.entity
  BY <1>1, LookupFinds
<1>3. importedEntityOf("ost_ticket", x.ticket) = x.id
  BY <1>2, RecordFields
<1> QED  BY <1>1, <1>3, ImportAssumption DEF imported

-----------------------------------------------------------------------------
(* What an execution relies on stays while others work.                    *)

LEMMA OthersGoOn ==
  ASSUME NEW q \in Runs, RunOK(q), disk \subseteq Runs \X Tickets \X Nat,
         dump' = dump, run'[q] = run[q], contacts \subseteq contacts', rmas \subseteq rmas',
         \A x \in rmas' \ rmas : x.id[1] # q,
         \A k : k[1] = q => (k \in disk' <=> k \in disk)
  PROVE  RunOK(q)'
<1>1. Placed(q)'
  BY DEF RunOK, Placed, emailOf, listedEmail, identityOf, requesterOf, ticketOf, contactOf
<1>2. UsersKnown(q)'
  BY DEF RunOK, UsersKnown, PastUser
<1>3. TicketsSettled(q)'
  <2> SUFFICES ASSUME NEW t \in Tickets, PastTicket(q, t)' PROVE Settled(q, t)'
    BY DEF TicketsSettled
  <2>1. PastTicket(q, t)
    BY DEF PastTicket
  <2>2. Settled(q, t)
    BY <2>1 DEF RunOK, TicketsSettled
  <2> QED  BY <2>2 DEF Settled, SkippedWith
<1>4. RmasBehind(q)'
  BY DEF RunOK, RmasBehind
<1>5. CopiesKnown(q)'
  <2>1. \A n : <<q, run[q].at, n>>[1] = q
    OBVIOUS
  <2>2. run'[q].pc = "copiando" => \A n \in 1 .. run'[q].written : <<q, run'[q].at, n>> \in disk'
    BY <2>1 DEF RunOK, CopiesKnown
  <2>3. ASSUME NEW k \in disk', k[1] = q
        PROVE  \/ \E x \in rmas' : k \in x.files
               \/ /\ k[2] = run'[q].at
                  /\ \/ run'[q].pc \in Copying /\ k[3] \in 1 .. run'[q].written
                     \/ run'[q].pc = "parada"
    BY <2>3 DEF RunOK, CopiesKnown
  <2> QED  BY <2>2, <2>3 DEF CopiesKnown
<1> QED  BY <1>1, <1>2, <1>3, <1>4, <1>5 DEF RunOK

\* What the tables hold stays when only an execution goes on, or files come.
LEMMA TablesStay ==
  ASSUME IInv, UNCHANGED << dump, contacts, records, rmas >>,
         \A x \in rmas : \A k \in x.files : k \in disk'
  PROVE  /\ RecordsDiffer' /\ RecordsMean' /\ ContactsRecorded' /\ RmasRecorded'
         /\ FilesThere' /\ \A x \in rmas' : SidesKept(x)'
<1>1. RecordsDiffer' /\ RecordsMean'
  BY DEF IInv, RecordsDiffer, RecordsMean
<1>2. ContactsRecorded' /\ RmasRecorded'
  BY DEF IInv, ContactsRecorded, RmasRecorded
<1>3. FilesThere'
  BY DEF IInv, FilesThere
<1>4. \A x \in rmas' : SidesKept(x)'
  BY DEF IInv, SidesKept
<1> QED  BY <1>1, <1>2, <1>3, <1>4

\* Only execution p goes on, with a row of its own shape.
Alone(p) ==
  /\ run' \in [Runs -> RunRow]
  /\ \A q \in Runs \ {p} : run'[q] = run[q]

LEMMA OnlyRun ==
  ASSUME IInv, UNCHANGED << dump, contacts, records, rmas, disk >>,
         NEW p \in Runs, Alone(p), RunOK(p)'
  PROVE  IInv'
<1>1. TypeOK'
  BY DEF IInv, TypeOK, Alone
<1>2. \A x \in rmas : \A k \in x.files : k \in disk'
  BY DEF IInv, FilesThere
<1>3. ASSUME NEW q \in Runs PROVE RunOK(q)'
  <2>1. CASE q = p
    BY <2>1
  <2>2. CASE q # p
    <3>1. RunOK(q) /\ run'[q] = run[q] /\ disk \subseteq Runs \X Tickets \X Nat
      BY <2>2 DEF IInv, Alone, TypeOK
    <3> QED  BY <3>1, OthersGoOn
  <2> QED  BY <2>1, <2>2
<1> QED  BY <1>1, <1>2, <1>3, TablesStay DEF IInv

LEMMA Successor == \A m, n \in Nat : m < n + 1 => m < n \/ m = n
OBVIOUS

LEMMA Numbers ==
  /\ NAgents \in Nat /\ NUsers \in Nat /\ NTickets \in Nat
  /\ Agents \subseteq Nat /\ Users \subseteq Nat /\ Tickets \subseteq Nat
<1>1. NAgents \in Nat /\ NUsers \in Nat /\ NTickets \in Nat
  BY ImportAssumption
<1> QED  BY <1>1 DEF Agents, Users, Tickets

-----------------------------------------------------------------------------
(* What a step of an execution does to its row.                            *)

LEMMA RowType ==
  ASSUME TypeOK, NEW p \in Runs
  PROVE  /\ run[p] \in RunRow
         /\ run[p].pc \in States /\ run[p].at \in Nat /\ run[p].written \in Nat
         /\ run[p].at + 1 \in Nat
         /\ run[p].users \in [Users -> Contact \union {None}]
         /\ run[p].staff \in [Agents -> Emails \union {None}]
         /\ run[p].skipped \in SUBSET ({"equipe", "usuario", "chamado"} \X Nat)
         /\ run[p].failed \in SUBSET Nat
<1>1. run[p] \in RunRow
  BY DEF TypeOK
<1> QED  BY <1>1 DEF RunRow

\* A row has exactly these fields.
IsRow(row) ==
  row = [pc |-> row.pc, at |-> row.at, written |-> row.written, staff |-> row.staff,
         users |-> row.users, skipped |-> row.skipped, failed |-> row.failed]

LEMMA RowShape == ASSUME TypeOK, NEW p \in Runs PROVE IsRow(run[p])
<1>1. \A row \in RunRow : IsRow(row)
  BY DEF RunRow, IsRow
<1> QED  BY <1>1 DEF TypeOK

\* Only the place, the progress and the report of execution p change.
Moves(p, pc, at, written, skipped, failed) ==
  /\ Alone(p)
  /\ run'[p].pc = pc /\ run'[p].at = at /\ run'[p].written = written
  /\ run'[p].users = run[p].users
  /\ run'[p].skipped = skipped /\ run'[p].failed = failed

LEMMA RowMoves ==
  ASSUME TypeOK, NEW p \in Runs, NEW pc \in States, NEW at \in Nat, NEW written \in Nat,
         NEW skipped \in SUBSET ({"equipe", "usuario", "chamado"} \X Nat),
         NEW failed \in SUBSET Nat,
         run'[p] = [pc |-> pc, at |-> at, written |-> written,
                    staff |-> run[p].staff, users |-> run[p].users,
                    skipped |-> skipped, failed |-> failed],
         run' = [q \in Runs |-> run'[q]],
         \A q \in Runs \ {p} : run'[q] = run[q]
  PROVE  Moves(p, pc, at, written, skipped, failed)
<1>1. run'[p] \in RunRow
  BY RowType DEF RunRow
<1>2. \A q \in Runs : run'[q] \in RunRow
  BY <1>1, RowType
<1>3. Alone(p)
  BY <1>2 DEF Alone
<1> QED  BY <1>3 DEF Moves

LEMMA StopStep ==
  ASSUME TypeOK, NEW p \in Runs, NEW why \in States, Stop(p, why)
  PROVE  Moves(p, why, run[p].at, run[p].written, run[p].skipped, run[p].failed)
<1>1. PICK old, new : old = run[p] /\ new = run'[p]
  OBVIOUS
<1>2. new = [old EXCEPT !.pc = why]
  BY <1>1 DEF TypeOK, Stop
<1>3. IsRow(old)
  BY <1>1, RowShape
<1>4. new = [pc |-> why, at |-> old.at, written |-> old.written, staff |-> old.staff,
             users |-> old.users, skipped |-> old.skipped, failed |-> old.failed]
  BY <1>2, <1>3 DEF IsRow
<1>5. run' = [q \in Runs |-> run'[q]] /\ \A q \in Runs \ {p} : run'[q] = run[q]
  BY DEF TypeOK, Stop
<1> QED  BY <1>1, <1>4, <1>5, RowType, RowMoves

LEMMA EnterStep ==
  ASSUME TypeOK, NEW p \in Runs, NEW phase \in States, Enter(p, phase)
  PROVE  /\ Moves(p, run'[p].pc, 1, run[p].written, run[p].skipped, run[p].failed)
         /\ run'[p].pc \in {phase, "interrompida"}
<1>1. PICK old, new, next :
        /\ old = run[p] /\ new = run'[p]
        /\ next = IF phase \in dump.undatedPhases THEN "interrompida" ELSE phase
  OBVIOUS
<1>2. new = [old EXCEPT !.pc = next, !.at = 1]
  BY <1>1 DEF TypeOK, Enter
<1>3. IsRow(old)
  BY <1>1, RowShape
<1>4. new = [pc |-> next, at |-> 1, written |-> old.written, staff |-> old.staff,
             users |-> old.users, skipped |-> old.skipped, failed |-> old.failed]
  BY <1>2, <1>3 DEF IsRow
<1>5. run' = [q \in Runs |-> run'[q]] /\ \A q \in Runs \ {p} : run'[q] = run[q]
  BY DEF TypeOK, Enter
<1>6. new.pc = next
  BY <1>4
<1>7. next \in {phase, "interrompida"} /\ "interrompida" \in States
  BY <1>1 DEF States, Ended
<1> QED  BY <1>1, <1>4, <1>5, <1>6, <1>7, RowType, RowMoves

LEMMA SkipStep ==
  ASSUME TypeOK, NEW p \in Runs, NEW kind \in {"equipe", "usuario", "chamado"}, Skip(p, kind)
  PROVE  Moves(p, run[p].pc, run[p].at + 1, run[p].written,
               run[p].skipped \union {<<kind, run[p].at>>}, run[p].failed)
<1>1. PICK old, new : old = run[p] /\ new = run'[p]
  OBVIOUS
<1>2. new = [old EXCEPT !.at = old.at + 1, !.skipped = old.skipped \union {<<kind, old.at>>}]
  BY <1>1 DEF TypeOK, Skip, Next1
<1>3. IsRow(old)
  BY <1>1, RowShape
<1>4. new = [pc |-> old.pc, at |-> old.at + 1, written |-> old.written, staff |-> old.staff,
             users |-> old.users, skipped |-> old.skipped \union {<<kind, old.at>>},
             failed |-> old.failed]
  BY <1>2, <1>3 DEF IsRow
<1>5. run' = [q \in Runs |-> run'[q]] /\ \A q \in Runs \ {p} : run'[q] = run[q]
  BY DEF TypeOK, Skip, Next1
<1>6. run[p].skipped \union {<<kind, run[p].at>>}
        \in SUBSET ({"equipe", "usuario", "chamado"} \X Nat)
  BY RowType
<1> QED  BY <1>1, <1>4, <1>5, <1>6, RowType, RowMoves

LEMMA KnowTicketStep ==
  ASSUME TypeOK, NEW p \in Runs, KnowTicket(p)
  PROVE  Moves(p, run[p].pc, run[p].at + 1, run[p].written, run[p].skipped, run[p].failed)
<1>1. PICK old, new : old = run[p] /\ new = run'[p]
  OBVIOUS
<1>2. new = [old EXCEPT !.at = old.at + 1]
  BY <1>1 DEF TypeOK, KnowTicket, Next1
<1>3. IsRow(old)
  BY <1>1, RowShape
<1>4. new = [pc |-> old.pc, at |-> old.at + 1, written |-> old.written, staff |-> old.staff,
             users |-> old.users, skipped |-> old.skipped, failed |-> old.failed]
  BY <1>2, <1>3 DEF IsRow
<1>5. run' = [q \in Runs |-> run'[q]] /\ \A q \in Runs \ {p} : run'[q] = run[q]
  BY DEF TypeOK, KnowTicket, Next1
<1> QED  BY <1>1, <1>4, <1>5, RowType, RowMoves

LEMMA PlanTicketStep ==
  ASSUME TypeOK, NEW p \in Runs, PlanTicket(p)
  PROVE  Moves(p, "copiando", run[p].at, 0, run[p].skipped, run[p].failed)
<1>1. PICK old, new : old = run[p] /\ new = run'[p]
  OBVIOUS
<1>2. new = [old EXCEPT !.pc = "copiando", !.written = 0]
  BY <1>1 DEF TypeOK, PlanTicket
<1>3. IsRow(old)
  BY <1>1, RowShape
<1>4. new = [pc |-> "copiando", at |-> old.at, written |-> 0, staff |-> old.staff,
             users |-> old.users, skipped |-> old.skipped, failed |-> old.failed]
  BY <1>2, <1>3 DEF IsRow
<1>5. run' = [q \in Runs |-> run'[q]] /\ \A q \in Runs \ {p} : run'[q] = run[q]
  BY DEF TypeOK, PlanTicket
<1> QED  BY <1>1, <1>4, <1>5, RowType, RowMoves DEF States, TicketPhase, Copying

LEMMA CopyStep ==
  ASSUME TypeOK, NEW p \in Runs, Copy(p)
  PROVE  Moves(p, run[p].pc, run[p].at, run[p].written + 1, run[p].skipped, run[p].failed)
<1>1. PICK old, new : old = run[p] /\ new = run'[p]
  OBVIOUS
<1>2. new = [old EXCEPT !.written = old.written + 1]
  BY <1>1 DEF TypeOK, Copy
<1>3. IsRow(old)
  BY <1>1, RowShape
<1>4. new = [pc |-> old.pc, at |-> old.at, written |-> old.written + 1, staff |-> old.staff,
             users |-> old.users, skipped |-> old.skipped, failed |-> old.failed]
  BY <1>2, <1>3 DEF IsRow
<1>5. run' = [q \in Runs |-> run'[q]] /\ \A q \in Runs \ {p} : run'[q] = run[q]
  BY DEF TypeOK, Copy
<1>6. run[p].written + 1 \in Nat
  BY RowType
<1> QED  BY <1>1, <1>4, <1>5, <1>6, RowType, RowMoves

LEMMA WriteTicketStep ==
  ASSUME TypeOK, NEW p \in Runs, WriteTicket(p)
  PROVE  Moves(p, "chamados", run[p].at + 1, run[p].written, run[p].skipped, run[p].failed)
<1>1. PICK old, new : old = run[p] /\ new = run'[p]
  OBVIOUS
<1>2. new = [old EXCEPT !.pc = "chamados", !.at = old.at + 1]
  BY <1>1 DEF TypeOK, WriteTicket, Next1
<1>3. IsRow(old)
  BY <1>1, RowShape
<1>4. new = [pc |-> "chamados", at |-> old.at + 1, written |-> old.written, staff |-> old.staff,
             users |-> old.users, skipped |-> old.skipped, failed |-> old.failed]
  BY <1>2, <1>3 DEF IsRow
<1>5. run' = [q \in Runs |-> run'[q]] /\ \A q \in Runs \ {p} : run'[q] = run[q]
  BY DEF TypeOK, WriteTicket, Next1
<1> QED  BY <1>1, <1>4, <1>5, RowType, RowMoves DEF States, TicketPhase

LEMMA FailStep ==
  ASSUME TypeOK, NEW p \in Runs, Fail(p)
  PROVE  Moves(p, "chamados", run[p].at + 1, run[p].written,
               run[p].skipped, run[p].failed \union {run[p].at})
<1>1. PICK old, new : old = run[p] /\ new = run'[p]
  OBVIOUS
<1>2. new = [old EXCEPT !.pc = "chamados", !.at = old.at + 1, !.failed = old.failed \union {old.at}]
  BY <1>1 DEF TypeOK, Fail, Next1, ticketOf
<1>3. IsRow(old)
  BY <1>1, RowShape
<1>4. new = [pc |-> "chamados", at |-> old.at + 1, written |-> old.written, staff |-> old.staff,
             users |-> old.users, skipped |-> old.skipped, failed |-> old.failed \union {old.at}]
  BY <1>2, <1>3 DEF IsRow
<1>5. run' = [q \in Runs |-> run'[q]] /\ \A q \in Runs \ {p} : run'[q] = run[q]
  BY DEF TypeOK, Fail, Next1, ticketOf
<1> QED  BY <1>1, <1>4, <1>5, RowType, RowMoves DEF States, TicketPhase

LEMMA HasAgentStep ==
  ASSUME TypeOK, NEW p \in Runs, NEW e \in Emails \union {None}, HasAgent(p, e)
  PROVE  /\ Alone(p) /\ run'[p].pc = "equipe" /\ run'[p].users = run[p].users
         /\ run'[p].at = run[p].at + 1
<1> DEFINE staff == [run[p].staff EXCEPT ![agentOf(p)] = e]
           row == [pc |-> "equipe", at |-> Next1(p), written |-> run[p].written,
                   staff |-> staff, users |-> run[p].users,
                   skipped |-> run[p].skipped, failed |-> run[p].failed]
<1>1. row \in RunRow
  <2>1. staff \in [Agents -> Emails \union {None}]
    BY RowType
  <2>2. "equipe" \in States /\ Next1(p) \in Nat
    BY RowType DEF States, Next1
  <2> HIDE DEF staff
  <2> QED  BY <2>1, <2>2, RowType DEF RunRow
<1>2. run'[p] = [run[p] EXCEPT !.pc = "equipe", !.at = Next1(p), !.staff[agentOf(p)] = e]
  BY DEF TypeOK, HasAgent
<1>3. run'[p] = row
  <2>1. PICK old, new : old = run[p] /\ new = run'[p]
    OBVIOUS
  <2>2. IsRow(old)
    BY <2>1, RowShape
  <2>3. new = [old EXCEPT !.pc = "equipe", !.at = Next1(p), !.staff[agentOf(p)] = e]
    BY <1>2, <2>1
  <2> QED  BY <2>1, <2>2, <2>3 DEF IsRow
<1>4. run' \in [Runs -> RunRow] /\ \A q \in Runs \ {p} : run'[q] = run[q]
  BY <1>1, <1>3 DEF TypeOK, HasAgent
<1>5. Alone(p)
  BY <1>4 DEF Alone
<1> QED  BY <1>3, <1>5 DEF Next1

LEMMA HasUserStep ==
  ASSUME TypeOK, NEW p \in Runs, NEW c \in Contact, HasUser(p, c)
  PROVE  /\ Alone(p) /\ run'[p].pc = "usuarios" /\ run'[p].at = run[p].at + 1
         /\ run'[p].users = [run[p].users EXCEPT ![run[p].at] = c]
         /\ run'[p].skipped = run[p].skipped
<1> DEFINE users == [run[p].users EXCEPT ![userOf(p)] = c]
           row == [pc |-> "usuarios", at |-> Next1(p), written |-> run[p].written,
                   staff |-> run[p].staff, users |-> users,
                   skipped |-> run[p].skipped, failed |-> run[p].failed]
<1>1. row \in RunRow
  <2>1. users \in [Users -> Contact \union {None}]
    BY RowType
  <2>2. "usuarios" \in States /\ Next1(p) \in Nat
    BY RowType DEF States, Next1
  <2> HIDE DEF users
  <2> QED  BY <2>1, <2>2, RowType DEF RunRow
<1>2. run'[p] = [run[p] EXCEPT !.pc = "usuarios", !.at = Next1(p), !.users[userOf(p)] = c]
  BY DEF TypeOK, HasUser
<1>3. run'[p] = row
  <2>1. PICK old, new : old = run[p] /\ new = run'[p]
    OBVIOUS
  <2>2. IsRow(old)
    BY <2>1, RowShape
  <2>3. new = [old EXCEPT !.pc = "usuarios", !.at = Next1(p), !.users[userOf(p)] = c]
    BY <1>2, <2>1
  <2> QED  BY <2>1, <2>2, <2>3 DEF IsRow
<1>4. run' \in [Runs -> RunRow] /\ \A q \in Runs \ {p} : run'[q] = run[q]
  BY <1>1, <1>3 DEF TypeOK, HasUser
<1>5. Alone(p)
  BY <1>4 DEF Alone
<1> QED  BY <1>3, <1>5 DEF Next1, userOf

-----------------------------------------------------------------------------
(* Before the tickets an execution has no RMA and no copy of its own.      *)

Early == {"nova", "equipe", "agente", "senha do agente", "usuarios", "senha do usuario"}

LEMMA EarlyStep ==
  ASSUME NEW p \in Runs, RunOK(p), run[p].pc \in Early,
         run'[p].pc \in Early \union {"chamados", "interrompida", "parada"},
         run'[p].pc = "chamados" => run'[p].at = 1,
         rmas' = rmas, disk' = disk,
         Placed(p)', UsersKnown(p)'
  PROVE  RunOK(p)'
<1>1. TicketsSettled(p)'
  <2> SUFFICES ASSUME NEW t \in Tickets, PastTicket(p, t)' PROVE FALSE
    BY DEF TicketsSettled
  <2>1. t \in Nat /\ 1 <= t
    BY Numbers DEF Tickets
  <2>2. run'[p].pc \notin Copying /\ run'[p].pc # "concluida"
    BY DEF Early, Copying
  <2>3. run'[p].pc = "chamados" /\ t < run'[p].at
    BY <2>2 DEF PastTicket, TicketPhase
  <2> QED  BY <2>1, <2>3
<1>2. \A x \in rmas : x.id[1] # p
  BY DEF RunOK, RmasBehind, Early, TicketPhase, Copying, Ended
<1>3. RmasBehind(p)'
  BY <1>2 DEF RmasBehind
<1>4. \A k \in disk : k[1] = p => \E x \in rmas : k \in x.files
  BY DEF RunOK, CopiesKnown, Early, Copying
<1>5. CopiesKnown(p)'
  BY <1>4 DEF CopiesKnown, Early
<1> QED  BY <1>1, <1>3, <1>5 DEF RunOK

\* What is known of the users stays while nothing more is due.
LEMMA UsersStay ==
  ASSUME NEW p \in Runs, UsersKnown(p), contacts \subseteq contacts',
         run'[p].users = run[p].users, run[p].skipped \subseteq run'[p].skipped,
         \A u \in Users : PastUser(p, u)' => PastUser(p, u)
  PROVE  UsersKnown(p)'
BY DEF UsersKnown

\* Among the agents nothing is due of the users.
LEMMA StaffStep ==
  ASSUME NEW p \in Runs, RunOK(p), run[p].pc \in Early,
         run'[p].pc \in {"equipe", "agente", "senha do agente", "interrompida", "parada"},
         run'[p].users = run[p].users,
         contacts' = contacts, rmas' = rmas, disk' = disk, Placed(p)'
  PROVE  RunOK(p)'
<1>1. UsersKnown(p)'
  BY DEF RunOK, UsersKnown, PastUser, TicketPhase, Copying
<1> QED  BY <1>1, EarlyStep DEF Early

LEMMA NotPlaced ==
  ASSUME NEW p \in Runs,
         run'[p].pc \notin {"agente", "senha do agente", "senha do usuario"} \union Copying
  PROVE  Placed(p)'
BY DEF Placed

-----------------------------------------------------------------------------
(* The agents.                                                             *)

\* What IInv says of one execution.
LEMMA OfRun ==
  ASSUME IInv, NEW p \in Runs
  PROVE  /\ TypeOK /\ RunOK(p) /\ dump \in Dumps
         /\ Placed(p) /\ UsersKnown(p) /\ TicketsSettled(p) /\ RmasBehind(p) /\ CopiesKnown(p)
         /\ run[p].pc \in States /\ run[p].at \in Nat /\ run[p].written \in Nat
<1>1. TypeOK /\ RunOK(p) /\ dump \in Dumps
  BY DEF IInv, TypeOK
<1> QED  BY <1>1, RowType DEF RunOK

LEMMA KnowAgentStep ==
  ASSUME IInv, NEW p \in Runs, KnowAgent(p)
  PROVE  IInv'
<1> DEFINE e == importedEntityOf("ost_staff", agentOf(p))
<1>1. e \in Emails
  <2>1. PICK r \in records : r.source = "ost_staff" /\ r.entity = e
    BY FoundIsRecorded DEF KnowAgent
  <2> QED  BY <2>1 DEF IInv, RecordsMean
<1>2. HasAgent(p, e) /\ UNCHANGED << dump, contacts, records, rmas, disk >>
  BY DEF KnowAgent, db
<1>3. Alone(p) /\ run'[p].pc = "equipe" /\ run'[p].users = run[p].users
  <2> HIDE DEF e
  <2> QED  BY <1>1, <1>2, OfRun, HasAgentStep
<1>4. Placed(p)'
  BY <1>3, NotPlaced DEF Copying
<1>5. run[p].pc \in Early
  BY DEF KnowAgent, AtAgent, Early
<1>6. RunOK(p)'
  BY <1>2, <1>3, <1>4, <1>5, OfRun, StaffStep
<1> QED  BY <1>2, <1>3, <1>6, OnlyRun

LEMMA SkipAgentStep ==
  ASSUME IInv, NEW p \in Runs, SkipAgent(p)
  PROVE  IInv'
<1>1. Moves(p, run[p].pc, run[p].at + 1, run[p].written,
            run[p].skipped \union {<<"equipe", run[p].at>>}, run[p].failed)
  BY OfRun, SkipStep DEF SkipAgent
<1>2. UNCHANGED << dump, contacts, records, rmas, disk >> /\ run[p].pc = "equipe"
  BY DEF SkipAgent, AtAgent, db
<1>3. Placed(p)'
  BY <1>1, <1>2, NotPlaced DEF Moves, Copying
<1>4. RunOK(p)'
  BY <1>1, <1>2, <1>3, OfRun, StaffStep DEF Moves, Early
<1> QED  BY <1>1, <1>2, <1>4, OnlyRun DEF Moves

LEMMA TakeAgentStep ==
  ASSUME IInv, NEW p \in Runs, TakeAgent(p) \/ HashAgent(p)
  PROVE  IInv'
<1>1. PICK why \in {"agente", "senha do agente"} : Stop(p, why)
  BY DEF TakeAgent, HashAgent
<1>2. why \in States
  BY DEF States
<1>3. Moves(p, why, run[p].at, run[p].written, run[p].skipped, run[p].failed)
  BY <1>1, <1>2, OfRun, StopStep
<1>4. UNCHANGED << dump, contacts, records, rmas, disk >> /\ run[p].pc \in {"equipe", "agente"}
  BY DEF TakeAgent, HashAgent, AtAgent, db
<1>5. run[p].at \in Agents /\ emailOf(run[p].at) \in Emails
  <2>1. CASE TakeAgent(p)
    <3>1. run[p].at \in Agents /\ emailOf(run[p].at) # None
      BY <2>1 DEF TakeAgent, AtAgent, agentOf, leavesOut, hasProblem
    <3> QED  BY <3>1, OfRun, DumpNames
  <2>2. CASE HashAgent(p)
    BY <2>2, OfRun DEF HashAgent, Placed
  <2> QED  BY <2>1, <2>2
<1>6. emailOf(run[p].at)' = emailOf(run[p].at)
  BY <1>3, <1>4 DEF Moves, emailOf, listedEmail
<1>7. Placed(p)'
  BY <1>3, <1>5, <1>6 DEF Moves, Placed, Copying
<1>8. RunOK(p)'
  BY <1>3, <1>4, <1>7, OfRun, StaffStep DEF Moves, Early
<1> QED  BY <1>3, <1>4, <1>8, OnlyRun DEF Moves

\* With the record of an agent nothing else comes.
LEMMA AgentRecorded ==
  ASSUME IInv, NEW p \in Runs, NEW a, NEW e \in Emails,
         recordable({Record("ost_staff", a, e)}),
         records' = records \union {Record("ost_staff", a, e)},
         UNCHANGED << dump, contacts, rmas, disk >>,
         Alone(p), RunOK(p)'
  PROVE  IInv'
<1> DEFINE r == Record("ost_staff", a, e)
<1>1. r.source = "ost_staff" /\ r.entity = e
  BY RecordFields
<1> HIDE DEF r
<1>2. RecordsDiffer'
  BY RecordsGrow DEF IInv, r
<1>3. records' = records \union {r}
  BY DEF r
<1>4. RecordsMean'
  BY <1>1, <1>3 DEF IInv, RecordsMean
<1>5. ContactsRecorded' /\ RmasRecorded'
  BY <1>3 DEF IInv, ContactsRecorded, RmasRecorded
<1>6. FilesThere' /\ \A x \in rmas' : SidesKept(x)'
  BY DEF IInv, FilesThere, SidesKept
<1>7. TypeOK'
  BY DEF IInv, TypeOK, Alone
<1>8. ASSUME NEW q \in Runs PROVE RunOK(q)'
  <2>1. CASE q = p
    BY <2>1
  <2>2. CASE q # p
    <3>1. RunOK(q) /\ run'[q] = run[q] /\ disk \subseteq Runs \X Tickets \X Nat
      BY <2>2 DEF IInv, Alone, TypeOK
    <3> QED  BY <3>1, OthersGoOn
  <2> QED  BY <2>1, <2>2
<1> QED  BY <1>2, <1>4, <1>5, <1>6, <1>7, <1>8 DEF IInv

LEMMA LinkAgentStep ==
  ASSUME IInv, NEW p \in Runs, LinkAgent(p) \/ InsertAgent(p)
  PROVE  IInv'
<1> DEFINE e == emailOf(agentOf(p))
<1>1. run[p].pc \in {"agente", "senha do agente"} /\ UNCHANGED << dump, contacts, rmas, disk >>
  BY DEF LinkAgent, InsertAgent
<1>2. e \in Emails /\ run[p].pc \in Early
  BY <1>1, OfRun DEF Placed, agentOf, Early
<1>3. \/ /\ recordable({Record("ost_staff", agentOf(p), e)})
         /\ records' = records \union {Record("ost_staff", agentOf(p), e)}
         /\ HasAgent(p, e)
      \/ records' = records /\ \E why \in {"interrompida", "parada"} : Stop(p, why)
  BY DEF LinkAgent, InsertAgent, RecordAgent
<1> HIDE DEF e
<1>4. CASE /\ recordable({Record("ost_staff", agentOf(p), e)})
           /\ records' = records \union {Record("ost_staff", agentOf(p), e)}
           /\ HasAgent(p, e)
  <2>1. Alone(p) /\ run'[p].pc = "equipe" /\ run'[p].users = run[p].users
    BY <1>2, <1>4, OfRun, HasAgentStep
  <2>2. Placed(p)'
    BY <2>1, NotPlaced DEF Copying
  <2>3. RunOK(p)'
    BY <1>1, <1>2, <2>1, <2>2, OfRun, StaffStep
  <2> QED  BY <1>1, <1>2, <1>4, <2>1, <2>3, AgentRecorded
<1>5. ASSUME records' = records, NEW why \in {"interrompida", "parada"}, Stop(p, why)
      PROVE  IInv'
  <2>1. why \in States
    BY DEF States, Ended
  <2>2. Moves(p, why, run[p].at, run[p].written, run[p].skipped, run[p].failed)
    BY <1>5, <2>1, OfRun, StopStep
  <2>3. Placed(p)'
    BY <2>2, NotPlaced DEF Moves, Copying
  <2>4. RunOK(p)'
    BY <1>1, <1>2, <2>2, <2>3, OfRun, StaffStep DEF Moves
  <2> QED  BY <1>1, <1>5, <2>2, <2>4, OnlyRun DEF Moves
<1> QED  BY <1>3, <1>4, <1>5

-----------------------------------------------------------------------------
(* The users.                                                              *)

\* The user an execution is at has a contact, or is in the report, from then on.
LEMMA UserDone ==
  ASSUME NEW p \in Runs, UsersKnown(p), contacts \subseteq contacts', run[p].at \in Users,
         run[p].users \in [Users -> Contact \union {None}],
         run[p].pc \in {"usuarios", "senha do usuario"},
         run'[p].pc = "usuarios", run'[p].at = run[p].at + 1,
         run[p].skipped \subseteq run'[p].skipped,
         \/ /\ <<"usuario", run[p].at>> \in run'[p].skipped
            /\ run'[p].users = run[p].users
         \/ \E c \in contacts' : c # None /\ run'[p].users = [run[p].users EXCEPT ![run[p].at] = c]
  PROVE  UsersKnown(p)'
<1> SUFFICES ASSUME NEW u \in Users
             PROVE  /\ run'[p].users[u] # None => run'[p].users[u] \in contacts'
                    /\ PastUser(p, u)' =>
                         run'[p].users[u] # None \/ <<"usuario", u>> \in run'[p].skipped
  BY DEF UsersKnown
<1>1. ASSUME PastUser(p, u)' PROVE u < run[p].at \/ u = run[p].at
  <2>1. u < run[p].at + 1
    BY <1>1 DEF PastUser, TicketPhase, Copying
  <2>2. u \in Nat /\ run[p].at \in Nat
    BY Numbers
  <2> QED  BY <2>1, <2>2, Successor
<1>2. u < run[p].at => PastUser(p, u)
  BY DEF PastUser
<1> QED  BY <1>1, <1>2 DEF UsersKnown

LEMMA KnowUserStep ==
  ASSUME IInv, NEW p \in Runs, KnowUser(p)
  PROVE  IInv'
<1> DEFINE c == importedUserOf(userOf(p))
<1>1. c \in contacts /\ c # None /\ HasUser(p, c)
  BY UserFound DEF KnowUser, IInv
<1>2. c \in Contact
  BY <1>1 DEF IInv, TypeOK
<1> HIDE DEF c
<1>3. /\ Alone(p) /\ run'[p].pc = "usuarios" /\ run'[p].at = run[p].at + 1
      /\ run'[p].users = [run[p].users EXCEPT ![run[p].at] = c]
      /\ run'[p].skipped = run[p].skipped
  BY <1>1, <1>2, OfRun, HasUserStep
<1>4. /\ UNCHANGED << dump, contacts, records, rmas, disk >>
      /\ run[p].pc = "usuarios" /\ run[p].at \in Users
  BY DEF KnowUser, AtUser, db
<1>5. Placed(p)'
  BY <1>3, NotPlaced DEF Copying
<1>6. UsersKnown(p)'
  BY <1>1, <1>3, <1>4, OfRun, RowType, UserDone
<1>7. RunOK(p)'
  BY <1>3, <1>4, <1>5, <1>6, OfRun, EarlyStep DEF Early
<1> QED  BY <1>3, <1>4, <1>7, OnlyRun

LEMMA SkipUserStep ==
  ASSUME IInv, NEW p \in Runs, SkipUser(p)
  PROVE  IInv'
<1>1. Moves(p, run[p].pc, run[p].at + 1, run[p].written,
            run[p].skipped \union {<<"usuario", run[p].at>>}, run[p].failed)
  BY OfRun, SkipStep DEF SkipUser
<1>2. /\ UNCHANGED << dump, contacts, records, rmas, disk >>
      /\ run[p].pc = "usuarios" /\ run[p].at \in Users
  BY DEF SkipUser, AtUser, db
<1>3. Placed(p)'
  BY <1>1, <1>2, NotPlaced DEF Moves, Copying
<1>4. UsersKnown(p)'
  BY <1>1, <1>2, OfRun, RowType, UserDone DEF Moves
<1>5. RunOK(p)'
  BY <1>1, <1>2, <1>3, <1>4, OfRun, EarlyStep DEF Moves, Early
<1> QED  BY <1>1, <1>2, <1>5, OnlyRun DEF Moves

LEMMA HashUserStep ==
  ASSUME IInv, NEW p \in Runs, HashUser(p)
  PROVE  IInv'
<1>1. Moves(p, "senha do usuario", run[p].at, run[p].written, run[p].skipped, run[p].failed)
  BY OfRun, StopStep DEF HashUser, States
<1>2. /\ UNCHANGED << dump, contacts, records, rmas, disk >>
      /\ run[p].pc = "usuarios" /\ run[p].at \in Users
  BY DEF HashUser, AtUser, db
<1>3. identityOf(run[p].at) \in Documents /\ dump.userEmail[run[p].at] \in Emails
  BY <1>2, OfRun, DumpNames DEF HashUser, leavesOutUser, userOf
<1>4. identityOf(run[p].at)' = identityOf(run[p].at)
  BY <1>1, <1>2 DEF Moves, identityOf
<1>5. Placed(p)'
  BY <1>1, <1>2, <1>3, <1>4 DEF Moves, Placed, Copying
<1>6. UsersKnown(p)'
  BY <1>1, <1>2, OfRun, UsersStay DEF Moves, PastUser, TicketPhase, Copying
<1>7. RunOK(p)'
  BY <1>1, <1>2, <1>5, <1>6, OfRun, EarlyStep DEF Moves, Early
<1> QED  BY <1>1, <1>2, <1>7, OnlyRun DEF Moves

\* An execution that ends early: a process that stops, a statement that fails.
LEMMA EndsStep ==
  ASSUME IInv, NEW p \in Runs, run[p].pc \in States \ Ended,
         NEW why \in {"interrompida", "parada"}, why = "interrompida" => run[p].pc \in Early,
         Moves(p, why, run'[p].at, run'[p].written, run[p].skipped, run[p].failed),
         run[p].pc \in Early \/ run'[p].at = run[p].at,
         UNCHANGED << dump, contacts, records, rmas, disk >>
  PROVE  IInv'
<1>1. Placed(p)'
  BY NotPlaced DEF Moves, Copying
<1>2. UsersKnown(p)'
  BY OfRun, UsersStay DEF Moves, PastUser, TicketPhase, Copying
<1>3. RunOK(p)'
  <2>1. CASE run[p].pc \in Early
    BY <2>1, <1>1, <1>2, OfRun, EarlyStep DEF Moves
  <2>2. CASE run[p].pc \notin Early
    <3>1. run[p].pc \in TicketPhase /\ run'[p].pc = "parada" /\ run'[p].at = run[p].at
      BY <2>2 DEF Moves, States, Early
    <3>2. TicketsSettled(p)'
      BY <3>1 DEF TicketsSettled, PastTicket, TicketPhase, Copying
    <3>3. RmasBehind(p)'
      BY <3>1 DEF RmasBehind, Ended
    <3>4. CopiesKnown(p)'
      <4>1. \A k \in disk : k[1] = p =>
              (\E x \in rmas : k \in x.files) \/ k[2] = run[p].at
        BY <3>1, OfRun DEF CopiesKnown, TicketPhase, Copying
      <4> QED  BY <3>1, <4>1 DEF CopiesKnown
    <3> QED  BY <1>1, <1>2, <3>2, <3>3, <3>4 DEF RunOK
  <2> QED  BY <2>1, <2>2
<1> QED  BY <1>3, OnlyRun DEF Moves

\* The records of a contact are of different sources.
ContactRecords(d, u, id, e) ==
  customerRecords(d) \union {Record("ost_user", u, id), Record("ost_user_account", u, e)}

LEMMA OneOfEachSource ==
  ASSUME NEW d, NEW u, NEW id, NEW e
  PROVE  /\ \A n, m \in ContactRecords(d, u, id, e) : n.source = m.source => n = m
         /\ \A n \in ContactRecords(d, u, id, e) :
              /\ n.source \notin {"ost_staff", "ost_ticket"}
              /\ n.source = "ost_user" => n.id = u /\ n.entity = id
         /\ Record("ost_user", u, id) \in ContactRecords(d, u, id, e)
<1>1. \A n \in ContactRecords(d, u, id, e) : \/ n = Record("cpf_cnpj", d, d)
                                             \/ n = Record("ost_user", u, id)
                                             \/ n = Record("ost_user_account", u, e)
  BY DEF ContactRecords, customerRecords
<1>2. Record("ost_user", u, id) \in ContactRecords(d, u, id, e)
  BY DEF ContactRecords
<1> QED  BY <1>1, <1>2 DEF Record

\* A contact comes with its record, in one transaction.
LEMMA ContactRecorded ==
  ASSUME IInv, NEW p \in Runs, NEW c \in Contact, NEW new,
         contacts' = contacts \union {c},
         recordable(new), records' = records \union new,
         \A n, m \in new : n.source = m.source => n = m,
         \A n \in new : /\ n.source \notin {"ost_staff", "ost_ticket"}
                        /\ n.source = "ost_user" => n.id = c.id[2] /\ n.entity = c.id,
         Record("ost_user", c.id[2], c.id) \in new,
         UNCHANGED << dump, rmas, disk >>,
         Alone(p), RunOK(p)'
  PROVE  IInv'
<1>1. RecordsDiffer'
  BY RecordsGrow DEF IInv
<1>2. RecordsMean'
  BY DEF IInv, RecordsMean
<1>3. ContactsRecorded'
  <2>1. \A d \in contacts : d.id[2] # c.id[2]
    <3> SUFFICES ASSUME NEW d \in contacts, d.id[2] = c.id[2] PROVE FALSE
      OBVIOUS
    <3>1. Record("ost_user", d.id[2], d.id) \in records
      BY DEF IInv, ContactsRecorded
    <3> QED  BY <3>1, RecordFields DEF recordable
  <2>2. \A d \in contacts' : Record("ost_user", d.id[2], d.id) \in records'
    BY DEF IInv, ContactsRecorded
  <2>3. \A d, f \in contacts' : d.id[2] = f.id[2] => d = f
    BY <2>1 DEF IInv, ContactsRecorded
  <2> QED  BY <2>2, <2>3 DEF ContactsRecorded
<1>4. RmasRecorded' /\ FilesThere'
  BY DEF IInv, RmasRecorded, FilesThere
<1>5. \A x \in rmas' : SidesKept(x)'
  <2> SUFFICES ASSUME NEW x \in rmas PROVE SidesKept(x)'
    OBVIOUS
  <2>1. SidesKept(x)
    BY DEF IInv
  <2>2. \A m \in x.messages : m.side = "cliente" =>
          \E d \in contacts' : d.account = m.author /\ d.customer = x.customer
    BY <2>1 DEF SidesKept
  <2> QED  BY <2>1, <2>2 DEF SidesKept
<1>6. TypeOK'
  BY DEF IInv, TypeOK, Alone
<1>7. ASSUME NEW q \in Runs PROVE RunOK(q)'
  <2>1. CASE q = p
    BY <2>1
  <2>2. CASE q # p
    <3>1. RunOK(q) /\ run'[q] = run[q] /\ disk \subseteq Runs \X Tickets \X Nat
      BY <2>2 DEF IInv, Alone, TypeOK
    <3> QED  BY <3>1, OthersGoOn
  <2> QED  BY <2>1, <2>2
<1> QED  BY <1>1, <1>2, <1>3, <1>4, <1>5, <1>6, <1>7 DEF IInv

LEMMA ImportUserStep ==
  ASSUME IInv, NEW p \in Runs, ImportUser(p)
  PROVE  IInv'
<1> DEFINE u == userOf(p)
           e == dump.userEmail[u]
           c == [id |-> <<p, u>>, customer |-> identityOf(u), account |-> e]
           new == ContactRecords(identityOf(u), u, c.id, e)
<1>1. run[p].pc = "senha do usuario" /\ UNCHANGED << dump, rmas, disk >>
  BY DEF ImportUser
<1>2. u \in Users /\ u = run[p].at /\ identityOf(u) \in Documents /\ e \in Emails
  BY <1>1, OfRun DEF Placed, userOf
<1>3. c \in Contact /\ c # None /\ c.id = <<p, u>> /\ c.id[2] = u
  BY <1>2, ImportAssumption DEF Contact
<1>4. \/ /\ recordable(new) /\ records' = records \union new
         /\ contacts' = contacts \union {c} /\ HasUser(p, c)
      \/ Stop(p, "parada") /\ UNCHANGED << contacts, records >>
  BY DEF ImportUser, ContactRecords
<1>5. /\ \A n, m \in new : n.source = m.source => n = m
      /\ \A n \in new : /\ n.source \notin {"ost_staff", "ost_ticket"}
                        /\ n.source = "ost_user" => n.id = u /\ n.entity = c.id
      /\ Record("ost_user", u, c.id) \in new
  <2> HIDE DEF u, e, c
  <2> QED  BY OneOfEachSource
<1> HIDE DEF u, e, c, new
<1>6. CASE /\ recordable(new) /\ records' = records \union new
           /\ contacts' = contacts \union {c} /\ HasUser(p, c)
  <2>1. /\ Alone(p) /\ run'[p].pc = "usuarios" /\ run'[p].at = run[p].at + 1
        /\ run'[p].users = [run[p].users EXCEPT ![run[p].at] = c]
        /\ run'[p].skipped = run[p].skipped
    BY <1>3, <1>6, OfRun, HasUserStep
  <2>2. Placed(p)'
    BY <2>1, NotPlaced DEF Copying
  <2>3. UsersKnown(p)'
    BY <1>1, <1>2, <1>3, <1>6, <2>1, OfRun, RowType, UserDone
  <2>4. RunOK(p)'
    BY <1>1, <2>1, <2>2, <2>3, OfRun, EarlyStep DEF Early
  <2> QED  BY <1>1, <1>3, <1>5, <1>6, <2>1, <2>4, ContactRecorded
<1>7. CASE Stop(p, "parada") /\ UNCHANGED << contacts, records >>
  <2>1. Moves(p, "parada", run[p].at, run[p].written, run[p].skipped, run[p].failed)
    BY <1>7, OfRun, StopStep DEF States, Ended
  <2>2. Moves(p, "parada", run'[p].at, run'[p].written, run[p].skipped, run[p].failed)
    BY <2>1 DEF Moves
  <2> QED  BY <1>1, <1>7, <2>2, OfRun, EndsStep DEF Early, Ended
<1> QED  BY <1>4, <1>6, <1>7

-----------------------------------------------------------------------------
(* From one phase to the next.                                             *)

LEMMA CrashStep ==
  ASSUME IInv, NEW p \in Runs, Crash(p)
  PROVE  IInv'
<1>1. Moves(p, "parada", run[p].at, run[p].written, run[p].skipped, run[p].failed)
  BY OfRun, StopStep DEF Crash, States, Ended
<1>2. Moves(p, "parada", run'[p].at, run'[p].written, run[p].skipped, run[p].failed)
      /\ run'[p].at = run[p].at
  BY <1>1 DEF Moves
<1>3. run[p].pc \in States \ Ended /\ UNCHANGED << dump, contacts, records, rmas, disk >>
  BY OfRun DEF Crash, db
<1> QED  BY <1>2, <1>3, EndsStep

LEMMA EnterPhase ==
  ASSUME IInv, NEW p \in Runs, NEW phase \in {"equipe", "usuarios", "chamados"}, Enter(p, phase),
         run[p].pc \in Early, UNCHANGED << dump, contacts, records, rmas, disk >>,
         phase = "chamados" => run[p].pc = "usuarios" /\ run[p].at > NUsers
  PROVE  IInv'
<1>1. phase \in States
  BY DEF States, TicketPhase
<1>2. /\ Moves(p, run'[p].pc, 1, run[p].written, run[p].skipped, run[p].failed)
      /\ run'[p].pc \in {phase, "interrompida"}
  BY <1>1, OfRun, EnterStep
<1>3. Placed(p)'
  BY <1>2, NotPlaced DEF Copying
<1>4. \A u \in Users : PastUser(p, u)' => PastUser(p, u)
  <2> SUFFICES ASSUME NEW u \in Users, PastUser(p, u)' PROVE PastUser(p, u)
    OBVIOUS
  <2>1. 1 <= u /\ u <= NUsers /\ u \in Nat
    BY Numbers DEF Users
  <2>2. run'[p].at = 1
    BY <1>2 DEF Moves
  <2>3. run'[p].pc = "chamados"
    <3>1. ~(u < run'[p].at)
      BY <2>1, <2>2
    <3>2. run'[p].pc \in TicketPhase \union {"concluida"}
      BY <3>1 DEF PastUser
    <3> QED  BY <1>2, <3>2 DEF TicketPhase, Copying
  <2>4. run[p].pc = "usuarios" /\ run[p].at > NUsers /\ run[p].at \in Nat
    BY <1>2, <2>3, OfRun
  <2>5. u < run[p].at
    BY <2>1, <2>4, Numbers
  <2> QED  BY <2>4, <2>5 DEF PastUser
<1>5. UsersKnown(p)'
  BY <1>2, <1>4, OfRun, UsersStay DEF Moves
<1>6. RunOK(p)'
  BY <1>2, <1>3, <1>5, OfRun, EarlyStep DEF Moves, Early
<1> QED  BY <1>2, <1>6, OnlyRun DEF Moves

LEMMA AdvanceStep ==
  ASSUME IInv, NEW p \in Runs, Advance(p)
  PROVE  IInv'
<1>1. UNCHANGED << dump, contacts, records, rmas, disk >>
  BY DEF Advance, db
<1>2. CASE run[p].pc \in {"nova", "equipe"}
  <2>1. PICK phase \in {"equipe", "usuarios"} : Enter(p, phase)
    BY <1>2 DEF Advance
  <2> QED  BY <1>1, <1>2, <2>1, EnterPhase DEF Early
<1>3. CASE run[p].pc = "usuarios"
  BY <1>1, <1>3, EnterPhase DEF Advance, Early
<1>4. CASE run[p].pc = "chamados"
  <2>1. Stop(p, "concluida") /\ run[p].at > NTickets
    BY <1>4 DEF Advance
  <2>2. Moves(p, "concluida", run[p].at, run[p].written, run[p].skipped, run[p].failed)
    BY <2>1, OfRun, StopStep DEF States, Ended
  <2>3. Placed(p)'
    BY <2>2, NotPlaced DEF Moves, Copying
  <2>4. UsersKnown(p)'
    BY <1>1, <1>4, <2>2, OfRun, UsersStay DEF Moves, PastUser, TicketPhase
  <2>5. \A t \in Tickets : PastTicket(p, t)
    BY <1>4, <2>1, OfRun, Numbers DEF PastTicket, TicketPhase, Tickets
  <2>6. TicketsSettled(p)'
    BY <1>1, <2>2, <2>5, OfRun DEF TicketsSettled, Settled, SkippedWith, Moves
  <2>7. RmasBehind(p)' /\ CopiesKnown(p)'
    BY <1>1, <1>4, <2>2, OfRun DEF Moves, RmasBehind, CopiesKnown, Ended, Copying
  <2>8. RunOK(p)'
    BY <2>3, <2>4, <2>6, <2>7 DEF RunOK
  <2> QED  BY <1>1, <2>2, <2>8, OnlyRun DEF Moves
<1> QED  BY <1>2, <1>3, <1>4 DEF Advance

-----------------------------------------------------------------------------
(* The tickets.                                                            *)

\* A ticket is left behind only when it is settled.
LEMMA TicketStep ==
  ASSUME IInv, NEW p \in Runs, run[p].pc \in TicketPhase, run'[p].pc \in TicketPhase,
         dump' = dump, contacts' = contacts, rmas \subseteq rmas',
         run'[p].users = run[p].users,
         run[p].skipped \subseteq run'[p].skipped, run[p].failed \subseteq run'[p].failed,
         \/ run'[p].at = run[p].at /\ rmas' = rmas
         \/ /\ run'[p].at = run[p].at + 1
            /\ \/ \E x \in rmas' : x.ticket = run[p].at
               \/ run[p].at \in run'[p].failed
               \/ /\ <<"chamado", run[p].at>> \in run'[p].skipped
                  /\ dump.ticket[run[p].at].requester \in Users =>
                       <<"usuario", dump.ticket[run[p].at].requester>> \in run'[p].skipped
            /\ \A x \in rmas' \ rmas : x.ticket = run[p].at,
         Placed(p)', CopiesKnown(p)', \A x \in rmas : x.ticket \in Nat
  PROVE  RunOK(p)'
<1>1. run[p].at \in Nat
  BY OfRun
<1>2. UsersKnown(p)'
  BY OfRun, UsersStay DEF PastUser, TicketPhase, Copying
<1>3. TicketsSettled(p)'
  <2> SUFFICES ASSUME NEW t \in Tickets, PastTicket(p, t)' PROVE Settled(p, t)'
    BY DEF TicketsSettled
  <2>1. t < run'[p].at /\ t \in Nat
    BY Numbers DEF PastTicket, TicketPhase, Copying
  <2>2. CASE t < run[p].at
    <3>1. Settled(p, t)
      BY <2>2, OfRun DEF TicketsSettled, PastTicket
    <3> QED  BY <3>1 DEF Settled, SkippedWith
  <2>3. CASE ~(t < run[p].at)
    <3>1. run'[p].at = run[p].at + 1 /\ t = run[p].at
      BY <1>1, <2>1, <2>3, Successor
    <3>2. \/ \E x \in rmas' : x.ticket = t
          \/ t \in run'[p].failed
          \/ /\ <<"chamado", t>> \in run'[p].skipped
             /\ dump.ticket[t].requester \in Users =>
                  <<"usuario", dump.ticket[t].requester>> \in run'[p].skipped
      BY <1>1, <3>1
    <3> QED  BY <3>2 DEF Settled, SkippedWith
  <2> QED  BY <2>2, <2>3
<1>4. RmasBehind(p)'
  <2> SUFFICES ASSUME NEW x \in rmas', x.id[1] = p PROVE x.ticket < run'[p].at
    BY DEF RmasBehind
  <2>1. CASE x \in rmas
    <3>1. x.ticket < run[p].at /\ x.ticket \in Nat
      BY <2>1, OfRun DEF RmasBehind, TicketPhase, Copying, Ended
    <3> QED  BY <1>1, <3>1
  <2>2. CASE x \notin rmas
    BY <1>1, <2>2
  <2> QED  BY <2>1, <2>2
<1> QED  BY <1>2, <1>3, <1>4 DEF RunOK

LEMMA TicketsOfRmas ==
  ASSUME IInv
  PROVE  \A x \in rmas : x.ticket \in Nat /\ x.ticket \in Tickets /\ x.ticket = x.id[2]
BY Numbers DEF IInv, RmasRecorded

\* Between two tickets every copy of an execution is of an RMA.
LEMMA NoCopies ==
  ASSUME IInv, NEW p \in Runs, run[p].pc = "chamados", rmas' = rmas, disk' = disk,
         run'[p].pc = "copiando" => run'[p].written = 0, run'[p].written \in Nat
  PROVE  CopiesKnown(p)'
<1>1. \A k \in disk : k[1] = p => \E x \in rmas : k \in x.files
  BY OfRun DEF CopiesKnown, Copying
<1> QED  BY <1>1 DEF CopiesKnown

LEMMA KnowTicketKeeps ==
  ASSUME IInv, NEW p \in Runs, KnowTicket(p)
  PROVE  IInv'
<1>1. Moves(p, run[p].pc, run[p].at + 1, run[p].written, run[p].skipped, run[p].failed)
  BY OfRun, KnowTicketStep
<1>2. UNCHANGED << dump, contacts, records, rmas, disk >> /\ run[p].pc = "chamados"
  BY DEF KnowTicket, AtTicket, db
<1>3. \E x \in rmas : x.ticket = run[p].at
  BY TicketFound DEF KnowTicket, ticketOf, IInv
<1>4. Placed(p)'
  BY <1>1, <1>2, NotPlaced DEF Moves, Copying
<1>5. CopiesKnown(p)'
  BY <1>1, <1>2, OfRun, NoCopies DEF Moves
<1>6. RunOK(p)'
  BY <1>1, <1>2, <1>3, <1>4, <1>5, TicketStep, TicketsOfRmas DEF Moves, TicketPhase
<1> QED  BY <1>1, <1>2, <1>6, OnlyRun DEF Moves

LEMMA SkipTicketStep ==
  ASSUME IInv, NEW p \in Runs, SkipTicket(p)
  PROVE  IInv'
<1>1. Moves(p, run[p].pc, run[p].at + 1, run[p].written,
            run[p].skipped \union {<<"chamado", run[p].at>>}, run[p].failed)
  BY OfRun, SkipStep DEF SkipTicket
<1>2. /\ UNCHANGED << dump, contacts, records, rmas, disk >>
      /\ run[p].pc = "chamados" /\ run[p].at \in Tickets
  BY DEF SkipTicket, AtTicket, db
<1>3. ASSUME dump.ticket[run[p].at].requester \in Users
      PROVE  <<"usuario", dump.ticket[run[p].at].requester>> \in run[p].skipped
  <2> DEFINE u == dump.ticket[run[p].at].requester
  <2>1. u \in Users /\ run[p].users[u] = None
    BY <1>3 DEF SkipTicket, requesterOf, contactOf, ticketOf
  <2>2. PastUser(p, u)
    BY <1>2 DEF PastUser, TicketPhase
  <2> QED  BY <2>1, <2>2, OfRun DEF UsersKnown
<1>4. Placed(p)'
  BY <1>1, <1>2, NotPlaced DEF Moves, Copying
<1>5. CopiesKnown(p)'
  BY <1>1, <1>2, OfRun, NoCopies DEF Moves
<1>6. /\ <<"chamado", run[p].at>> \in run'[p].skipped
      /\ dump.ticket[run[p].at].requester \in Users =>
           <<"usuario", dump.ticket[run[p].at].requester>> \in run'[p].skipped
  BY <1>1, <1>3 DEF Moves
<1>7. RunOK(p)'
  BY <1>1, <1>2, <1>4, <1>5, <1>6, TicketStep, TicketsOfRmas DEF Moves, TicketPhase
<1> QED  BY <1>1, <1>2, <1>7, OnlyRun DEF Moves

LEMMA PlanTicketKeeps ==
  ASSUME IInv, NEW p \in Runs, PlanTicket(p)
  PROVE  IInv'
<1>1. Moves(p, "copiando", run[p].at, 0, run[p].skipped, run[p].failed)
  BY OfRun, PlanTicketStep
<1>2. /\ UNCHANGED << dump, contacts, records, rmas, disk >>
      /\ run[p].pc = "chamados" /\ run[p].at \in Tickets /\ requesterOf(p) # None
  BY DEF PlanTicket, AtTicket, db
<1>3. requesterOf(p)' = requesterOf(p)
  BY <1>1, <1>2 DEF Moves, requesterOf, contactOf, ticketOf
<1>4. Placed(p)'
  BY <1>1, <1>2, <1>3 DEF Moves, Placed
<1>5. CopiesKnown(p)'
  BY <1>1, <1>2, NoCopies DEF Moves
<1>6. RunOK(p)'
  BY <1>1, <1>2, <1>4, <1>5, TicketStep, TicketsOfRmas DEF Moves, TicketPhase, Copying
<1> QED  BY <1>1, <1>2, <1>6, OnlyRun DEF Moves

LEMMA PlanFailsStep ==
  ASSUME IInv, NEW p \in Runs, PlanFails(p)
  PROVE  IInv'
<1>1. Moves(p, "descartando", run[p].at, run[p].written, run[p].skipped, run[p].failed)
  BY OfRun, StopStep DEF PlanFails, States, TicketPhase, Copying
<1>2. UNCHANGED << dump, contacts, records, rmas, disk >> /\ run[p].pc = "copiando"
  BY DEF PlanFails, db
<1>3. requesterOf(p)' = requesterOf(p)
  BY <1>1, <1>2 DEF Moves, requesterOf, contactOf, ticketOf
<1>4. Placed(p)'
  BY <1>1, <1>2, <1>3, OfRun DEF Moves, Placed, Copying
<1>5. CopiesKnown(p)'
  BY <1>1, <1>2, OfRun DEF Moves, CopiesKnown, Copying
<1>6. RunOK(p)'
  BY <1>1, <1>2, <1>4, <1>5, TicketStep, TicketsOfRmas DEF Moves, TicketPhase, Copying
<1> QED  BY <1>1, <1>2, <1>6, OnlyRun DEF Moves

-----------------------------------------------------------------------------
(* The files and the RMA of a ticket.                                      *)

\* Only the copies of execution p come or go, and none of an RMA goes.
LEMMA DiskStep ==
  ASSUME IInv, NEW p \in Runs, Alone(p), RunOK(p)',
         UNCHANGED << dump, contacts, records, rmas >>,
         disk' \subseteq Runs \X Tickets \X Nat,
         \A k : k[1] # p => (k \in disk' <=> k \in disk),
         \A x \in rmas : \A k \in x.files : k \in disk'
  PROVE  IInv'
<1>1. TypeOK'
  BY DEF IInv, TypeOK, Alone
<1>2. ASSUME NEW q \in Runs PROVE RunOK(q)'
  <2>1. CASE q = p
    BY <2>1
  <2>2. CASE q # p
    <3>1. /\ RunOK(q) /\ run'[q] = run[q] /\ disk \subseteq Runs \X Tickets \X Nat
          /\ \A k : k[1] = q => (k \in disk' <=> k \in disk)
      BY <2>2 DEF IInv, Alone, TypeOK
    <3> QED  BY <3>1, OthersGoOn
  <2> QED  BY <2>1, <2>2
<1> QED  BY <1>1, <1>2, TablesStay DEF IInv

LEMMA CopyKeeps ==
  ASSUME IInv, NEW p \in Runs, Copy(p)
  PROVE  IInv'
<1> DEFINE n == run[p].written + 1
<1>1. Moves(p, run[p].pc, run[p].at, n, run[p].skipped, run[p].failed)
  BY OfRun, CopyStep
<1>2. /\ UNCHANGED << dump, contacts, records, rmas >> /\ run[p].pc = "copiando"
      /\ disk' = disk \union {<<p, run[p].at, n>>}
  BY DEF Copy, db, ticketOf
<1>3. run[p].at \in Tickets
  BY <1>2, OfRun DEF Placed, Copying
<1>4. n \in Nat
  BY RowType, OfRun
<1> HIDE DEF n
<1>5. requesterOf(p)' = requesterOf(p)
  BY <1>1, <1>2 DEF Moves, requesterOf, contactOf, ticketOf
<1>6. Placed(p)'
  BY <1>1, <1>2, <1>5, OfRun DEF Moves, Placed, Copying
<1>7. CopiesKnown(p)'
  <2>1. 1 .. n = (1 .. run[p].written) \union {n} /\ n \in 1 .. n
    BY <1>3, OfRun DEF n
  <2>2. \A m \in 1 .. n : <<p, run[p].at, m>> \in disk'
    BY <1>2, <2>1, OfRun DEF CopiesKnown
  <2>3. ASSUME NEW k \in disk', k[1] = p
        PROVE  (\E x \in rmas : k \in x.files) \/ (k[2] = run[p].at /\ k[3] \in 1 .. n)
    <3>1. CASE k \in disk
      BY <1>2, <2>1, <2>3, <3>1, OfRun DEF CopiesKnown
    <3>2. CASE k = <<p, run[p].at, n>>
      BY <2>1, <3>2
    <3> QED  BY <1>2, <3>1, <3>2
  <2> QED  BY <1>1, <1>2, <2>2, <2>3 DEF CopiesKnown, Moves, Copying
<1>8. RunOK(p)'
  BY <1>1, <1>2, <1>6, <1>7, TicketStep, TicketsOfRmas DEF Moves, TicketPhase, Copying
<1>9. disk' \subseteq Runs \X Tickets \X Nat
  BY <1>2, <1>3, <1>4 DEF IInv, TypeOK
<1>10. \A k : k[1] # p => (k \in disk' <=> k \in disk)
  BY <1>2
<1>11. \A x \in rmas : \A k \in x.files : k \in disk'
  BY <1>2 DEF IInv, FilesThere
<1> QED  BY <1>1, <1>2, <1>8, <1>9, <1>10, <1>11, DiskStep DEF Moves

\* The copies of the ticket an execution is at are of no RMA.
LEMMA CopiesOfNoRma ==
  ASSUME IInv, NEW p \in Runs, run[p].pc \in Copying, NEW x \in rmas, NEW k \in x.files
  PROVE  k \notin copies(p)
<1> SUFFICES ASSUME k \in copies(p) PROVE FALSE
  OBVIOUS
<1>1. k[1] = p /\ k[2] = run[p].at
  BY DEF copies, ticketOf
<1>2. x.id[1] = p /\ x.ticket = run[p].at
  BY <1>1 DEF IInv, FilesThere
<1>3. x.ticket < run[p].at
  BY <1>2, OfRun DEF RmasBehind, Copying, Ended
<1> QED  BY <1>2, <1>3, OfRun

LEMMA DiscardStep ==
  ASSUME IInv, NEW p \in Runs, Discard(p)
  PROVE  IInv'
<1>1. run[p].pc = "descartando" /\ UNCHANGED << dump, contacts, records, rmas >>
  BY DEF Discard, db
<1>2. run[p].at \in Tickets
  BY <1>1, OfRun DEF Placed, Copying
<1>3. \/ disk' = disk \ copies(p) /\ Fail(p)
      \/ \E left \in SUBSET copies(p) : disk' = disk \ (copies(p) \ left) /\ Stop(p, "parada")
  BY DEF Discard
<1>4. disk' \subseteq disk /\ disk \ disk' \subseteq copies(p)
  BY <1>3
<1>5. disk' \subseteq Runs \X Tickets \X Nat
  BY <1>4 DEF IInv, TypeOK
<1>6. \A k : k[1] # p => (k \in disk' <=> k \in disk)
  <2>1. \A k \in copies(p) : k[1] = p
    BY DEF copies
  <2> QED  BY <1>4, <2>1
<1>7. \A x \in rmas : \A k \in x.files : k \in disk'
  BY <1>1, <1>4, CopiesOfNoRma DEF IInv, FilesThere, Copying
<1>8. \A k \in disk : k[1] = p => (\E x \in rmas : k \in x.files) \/ k \in copies(p)
  <2> SUFFICES ASSUME NEW k \in disk, k[1] = p, ~ \E x \in rmas : k \in x.files
               PROVE  k \in copies(p)
    OBVIOUS
  <2>1. k[2] = run[p].at /\ k[3] \in 1 .. run[p].written
    BY <1>1, OfRun DEF CopiesKnown
  <2>2. k \in Runs \X Tickets \X Nat
    BY DEF IInv, TypeOK
  <2>3. k = <<p, run[p].at, k[3]>>
    BY <2>1, <2>2
  <2> QED  BY <2>1, <2>3 DEF copies, ticketOf
<1>9. ASSUME disk' = disk \ copies(p), Fail(p)
      PROVE  Alone(p) /\ RunOK(p)'
  <2>1. Moves(p, "chamados", run[p].at + 1, run[p].written,
              run[p].skipped, run[p].failed \union {run[p].at})
    BY <1>9, OfRun, FailStep
  <2>2. Placed(p)'
    BY <2>1, NotPlaced DEF Moves, Copying
  <2>3. CopiesKnown(p)'
    BY <1>1, <1>8, <1>9, <2>1 DEF CopiesKnown, Moves
  <2>4. RunOK(p)'
    BY <1>1, <2>1, <2>2, <2>3, TicketStep, TicketsOfRmas DEF Moves, TicketPhase, Copying
  <2> QED  BY <2>1, <2>4 DEF Moves
<1>10. ASSUME Stop(p, "parada")
       PROVE  Alone(p) /\ RunOK(p)'
  <2>1. Moves(p, "parada", run[p].at, run[p].written, run[p].skipped, run[p].failed)
    BY <1>10, OfRun, StopStep DEF States, Ended
  <2>2. Placed(p)'
    BY <2>1, NotPlaced DEF Moves, Copying
  <2>3. UsersKnown(p)'
    BY <1>1, <2>1, OfRun, UsersStay DEF Moves, PastUser, TicketPhase, Copying
  <2>4. TicketsSettled(p)' /\ RmasBehind(p)'
    BY <2>1 DEF Moves, TicketsSettled, PastTicket, RmasBehind, TicketPhase, Copying, Ended
  <2>5. \A k \in copies(p) : k[2] = run[p].at
    BY DEF copies, ticketOf
  <2>6. CopiesKnown(p)'
    BY <1>1, <1>4, <1>8, <2>1, <2>5 DEF CopiesKnown, Moves
  <2>7. RunOK(p)'
    BY <2>2, <2>3, <2>4, <2>6 DEF RunOK
  <2> QED  BY <2>1, <2>7 DEF Moves
<1>11. Alone(p) /\ RunOK(p)'
  BY <1>3, <1>9, <1>10
<1> QED  BY <1>1, <1>5, <1>6, <1>7, <1>11, DiskStep

-----------------------------------------------------------------------------
(* What a ticket becomes.                                                  *)

\* Who is known of an entry, as the plan of a ticket sees it.
LEMMA AuthorsKnown ==
  ASSUME IInv, NEW p \in Runs, run[p].pc = "copiando", NEW requester,
         requester = requesterOf(p), NEW e \in dump.ticket[ticketOf(p)].entries
  PROVE  /\ requester \in contacts /\ requester.account \in Emails
         /\ customerAuthorOf(p, requester, e) \in Emails
         /\ \E c \in contacts : /\ c.account = customerAuthorOf(p, requester, e)
                                /\ c.customer = requester.customer
<1>1. requester # None
  BY OfRun DEF Placed, Copying
<1>2. requester \in contacts
  BY <1>1, OfRun, ContactFound DEF requesterOf
<1>3. contactOf(p, e.user) # None => contactOf(p, e.user) \in contacts
  BY OfRun, ContactFound
<1>4. \A c \in contacts : c.account \in Emails
  BY DEF IInv, TypeOK, Contact
<1> QED  BY <1>2, <1>3, <1>4 DEF customerAuthorOf

\* Each entry with text is in the RMA of its ticket once, and on the side that may
\* see it.
LEMMA RowKeepsSides ==
  ASSUME IInv, NEW p \in Runs, run[p].pc = "copiando", NEW x, x = rmaRow(p, ticketOf(p))
  PROVE  SidesKept(x)
<1> DEFINE t == ticketOf(p)
           entries == dump.ticket[t].entries
           texts == entriesOf(t)
           opening == openingMessageOf(t, requesterOf(p))
           requester == requesterOf(p)
           first == [entry |-> 0, side |-> "cliente", author |-> requester.account]
           message(e) == [entry |-> e.id,
                          side |-> IF e.type = "M" THEN "cliente" ELSE "equipe",
                          author |-> IF e.type = "M" THEN customerAuthorOf(p, requester, e)
                                                     ELSE staffAccount(p, e.staff)]
           note(e) == [entry |-> e.id, author |-> staffAccount(p, e.staff)]
<1>1. t \in Tickets /\ t = run[p].at
  BY OfRun DEF Placed, Copying, ticketOf
<1>2. /\ \A e \in entries : e.id \in Nat \ {0}
      /\ \A e, f \in entries : e.id = f.id => e = f
  BY <1>1, OfRun, DumpsAssumption
<1>3. /\ x.ticket = t /\ x.customer = requester.customer
      /\ x.messages = messagesOf(p, t, requester) /\ x.notes = notesOf(p, t)
  BY DEF rmaRow, requesterOf
<1>4. x.messages = opening \union { message(e) : e \in { y \in texts : isMessage(p, y) } }
  BY <1>3 DEF messagesOf
<1>5. x.notes = { note(e) : e \in { y \in texts : y.type \in {"R", "N"} /\ ~isMessage(p, y) } }
  BY <1>3 DEF notesOf
<1>6. /\ first.entry = 0 /\ first.author = requester.account
      /\ \A e : /\ message(e).entry = e.id /\ note(e).entry = e.id
                /\ message(e).side = "cliente" => e.type = "M"
                /\ message(e).author = IF e.type = "M" THEN customerAuthorOf(p, requester, e)
                                                       ELSE staffAccount(p, e.staff)
  OBVIOUS
<1>7. \A e : isMessage(p, e) =>
               e.type = "M" \/ (e.type = "R" /\ staffAccount(p, e.staff) # None)
  BY DEF isMessage
<1>8. \A e : e.type = "M" => isMessage(p, e)
  BY DEF isMessage
<1>9. /\ requester \in contacts /\ requester.account \in Emails
  <2>1. requester # None
    BY OfRun DEF Placed, Copying
  <2>2. requester \in contacts
    BY <2>1, OfRun, ContactFound DEF requesterOf
  <2> QED  BY <2>2 DEF IInv, TypeOK, Contact
<1>10. \A e \in entries :
         /\ customerAuthorOf(p, requester, e) \in Emails
         /\ \E c \in contacts : /\ c.account = customerAuthorOf(p, requester, e)
                                /\ c.customer = requester.customer
  BY AuthorsKnown
<1>10a. opening \subseteq {first}
  BY DEF openingMessageOf
<1>10b. /\ texts \subseteq entries /\ \A e \in texts : e.text
       /\ \A e \in entries : e.text => e \in texts
  BY DEF entriesOf
<1> HIDE DEF t, entries, texts, opening, requester, first, message, note
<1>11. ASSUME NEW e \in entries, e.type \in {"M", "R", "N"}
       PROVE  LET kept == { m \in x.messages : m.entry = e.id }
                            \union { n \in x.notes : n.entry = e.id }
              IN  (e.text => Cardinality(kept) = 1) /\ (~e.text => kept = {})
  <2>1. ASSUME NEW m \in x.messages, m.entry = e.id
        PROVE  e \in texts /\ isMessage(p, e) /\ m = message(e)
    <3>1. m # first
      BY <1>2, <1>6, <2>1
    <3>2. PICK y \in texts : isMessage(p, y) /\ m = message(y)
      BY <1>4, <1>10a, <2>1, <3>1
    <3>3. y.id = e.id
      BY <1>6, <2>1, <3>2
    <3>4. y = e
      BY <1>2, <1>10b, <3>2, <3>3
    <3> QED  BY <3>2, <3>4
  <2>2. ASSUME NEW n \in x.notes, n.entry = e.id
        PROVE  e \in texts /\ ~isMessage(p, e) /\ n = note(e)
    <3>1. PICK y \in texts : ~isMessage(p, y) /\ n = note(y)
      BY <1>5, <2>2
    <3>2. y.id = e.id
      BY <1>6, <2>2, <3>1
    <3>3. y = e
      BY <1>2, <1>10b, <3>1, <3>2
    <3> QED  BY <3>1, <3>3
  <2>3. CASE e \in texts /\ isMessage(p, e)
    <3>1. message(e) \in x.messages /\ message(e).entry = e.id
      BY <1>4, <1>6, <2>3
    <3>2. { m \in x.messages : m.entry = e.id } \union { n \in x.notes : n.entry = e.id }
            = {message(e)}
      BY <2>1, <2>2, <2>3, <3>1
    <3>3. Cardinality({message(e)}) = 1
      BY FS_Singleton
    <3> QED  BY <1>10b, <2>3, <3>2, <3>3
  <2>4. CASE e \in texts /\ ~isMessage(p, e)
    <3>1. note(e) \in x.notes /\ note(e).entry = e.id
      BY <1>5, <1>6, <1>8, <1>11, <2>4
    <3>2. { m \in x.messages : m.entry = e.id } \union { n \in x.notes : n.entry = e.id }
            = {note(e)}
      BY <2>1, <2>2, <2>4, <3>1
    <3>3. Cardinality({note(e)}) = 1
      BY FS_Singleton
    <3> QED  BY <1>10b, <2>4, <3>2, <3>3
  <2>5. CASE e \notin texts
    <3>1. ~e.text
      BY <1>10b, <2>5
    <3>2. { m \in x.messages : m.entry = e.id } \union { n \in x.notes : n.entry = e.id } = {}
      BY <2>1, <2>2, <2>5
    <3> QED  BY <3>1, <3>2
  <2> QED  BY <2>3, <2>4, <2>5
<1>12. { m.entry : m \in x.messages }
         \intersect { e.id : e \in { y \in entries : y.type = "N" } } = {}
  <2> SUFFICES ASSUME NEW m \in x.messages, NEW e \in entries, e.type = "N", m.entry = e.id
               PROVE  FALSE
    OBVIOUS
  <2>1. PICK y \in texts : isMessage(p, y) /\ m = message(y)
    BY <1>2, <1>4, <1>6, <1>10a
  <2> QED  BY <1>2, <1>6, <1>7, <1>10b, <2>1
<1>13. \A m \in x.messages : m.author # None
  <2>1. \A y \in entries : isMessage(p, y) => message(y).author # None
    BY <1>6, <1>7, <1>10, ImportAssumption
  <2>2. first.author # None
    BY <1>6, <1>9, ImportAssumption
  <2> QED  BY <1>4, <1>10a, <1>10b, <2>1, <2>2
<1>14. \A m \in x.messages : m.side = "cliente" =>
         \E c \in contacts : c.account = m.author /\ c.customer = x.customer
  <2>1. \A y \in entries : message(y).side = "cliente" =>
          \E c \in contacts : c.account = message(y).author /\ c.customer = x.customer
    BY <1>3, <1>6, <1>10
  <2>2. \E c \in contacts : c.account = first.author /\ c.customer = x.customer
    BY <1>3, <1>6, <1>9
  <2> QED  BY <1>4, <1>10a, <1>10b, <2>1, <2>2
<1>15. dump.ticket[x.ticket].entries = entries
  BY <1>3 DEF entries
<1> QED  BY <1>11, <1>12, <1>13, <1>14, <1>15 DEF SidesKept

\* A ticket comes with its files and its record, in one transaction.
LEMMA WriteTicketKeeps ==
  ASSUME IInv, NEW p \in Runs, WriteTicket(p)
  PROVE  IInv'
<1> DEFINE t == run[p].at
           r == Record("ost_ticket", t, <<p, t>>)
<1>1. PICK x : x = rmaRow(p, ticketOf(p))
  OBVIOUS
<1>2. /\ run[p].pc = "copiando" /\ run[p].written = copiesOf(t)
      /\ UNCHANGED << dump, contacts, disk >>
      /\ rmas' = rmas \union {x}
  BY <1>1 DEF WriteTicket, ticketOf
<1>3. recordable({r}) /\ records' = records \union {r}
  BY DEF WriteTicket, ticketRecords, ticketOf
<1>4. t \in Tickets /\ <<p, t>> \in Runs \X Tickets
  BY <1>2, OfRun DEF Placed, Copying
<1>5. /\ x.id = <<p, t>> /\ x.ticket = t
      /\ x.files = { <<p, t, n>> : n \in 1 .. run[p].written }
  BY <1>1, <1>2 DEF rmaRow, ticketOf
<1>6. SidesKept(x)
  BY <1>1, <1>2, RowKeepsSides
<1>7. r.source = "ost_ticket" /\ r.id = t /\ r.entity = <<p, t>>
  BY RecordFields
<1>8. Moves(p, "chamados", t + 1, run[p].written, run[p].skipped, run[p].failed)
  BY OfRun, WriteTicketStep
<1>9. RecordsDiffer'
  BY <1>3, RecordsGrow DEF IInv
<1>10. t \in Nat /\ r = Record("ost_ticket", x.ticket, x.id)
  BY <1>4, <1>5, Numbers
<1> HIDE DEF t, r
<1>11. RecordsMean'
  BY <1>2, <1>3, <1>5, <1>7 DEF IInv, RecordsMean
<1>12. ContactsRecorded'
  BY <1>2, <1>3 DEF IInv, ContactsRecorded
<1>13. RmasRecorded'
  <2>1. \A y \in rmas : y.ticket # t
    <3> SUFFICES ASSUME NEW y \in rmas, y.ticket = t PROVE FALSE
      OBVIOUS
    <3>1. Record("ost_ticket", y.ticket, y.id) \in records
      BY DEF IInv, RmasRecorded
    <3> QED  BY <1>3, <1>7, <3>1, RecordFields DEF recordable
  <2>2. \A y \in rmas' : /\ y.id \in Runs \X Tickets /\ y.ticket = y.id[2]
                         /\ Record("ost_ticket", y.ticket, y.id) \in records'
    BY <1>2, <1>3, <1>4, <1>5, <1>10 DEF IInv, RmasRecorded
  <2>3. \A y, z \in rmas' : y.ticket = z.ticket => y = z
    BY <1>2, <1>5, <2>1 DEF IInv, RmasRecorded
  <2> QED  BY <2>2, <2>3 DEF RmasRecorded
<1>14. FilesThere'
  <2>1. \A k \in x.files : k \in disk /\ k[1] = x.id[1] /\ k[2] = x.ticket
    BY <1>2, <1>5, OfRun DEF CopiesKnown, t
  <2> QED  BY <1>2, <2>1 DEF IInv, FilesThere
<1>15. \A y \in rmas' : SidesKept(y)'
  <2>1. \A y : SidesKept(y)' = SidesKept(y)
    BY <1>2 DEF SidesKept
  <2> QED  BY <1>2, <1>6, <2>1 DEF IInv
<1>16. TypeOK'
  BY <1>2, <1>8 DEF IInv, TypeOK, Moves, Alone
<1>17. Placed(p)'
  BY <1>8, NotPlaced DEF Moves, Copying
<1>18. CopiesKnown(p)'
  <2>1. ASSUME NEW k \in disk, k[1] = p
        PROVE  \E y \in rmas' : k \in y.files
    <3>1. k \in Runs \X Tickets \X Nat
      BY DEF IInv, TypeOK
    <3>2. CASE \E y \in rmas : k \in y.files
      BY <1>2, <3>2
    <3>3. CASE k[2] = t /\ k[3] \in 1 .. run[p].written
      <4>1. k = <<p, t, k[3]>>
        BY <2>1, <3>1, <3>3
      <4> QED  BY <1>2, <1>5, <3>3, <4>1
    <3> QED  BY <1>2, <2>1, <3>2, <3>3, OfRun DEF CopiesKnown, t
  <2> QED  BY <1>2, <1>8, <2>1 DEF CopiesKnown, Moves
<1>19. RunOK(p)'
  <2>1. run'[p].at = run[p].at + 1 /\ run[p].pc \in TicketPhase /\ run'[p].pc \in TicketPhase
    BY <1>2, <1>8 DEF Moves, TicketPhase, Copying, t
  <2>2. \E y \in rmas' : y.ticket = run[p].at
    BY <1>2, <1>5 DEF t
  <2>3. \A y \in rmas' \ rmas : y.ticket = run[p].at
    BY <1>2, <1>5 DEF t
  <2>4. /\ run'[p].users = run[p].users /\ run[p].skipped \subseteq run'[p].skipped
        /\ run[p].failed \subseteq run'[p].failed
    BY <1>8 DEF Moves
  <2> QED  BY <1>2, <1>17, <1>18, <2>1, <2>2, <2>3, <2>4, TicketStep, TicketsOfRmas
<1>20. ASSUME NEW q \in Runs PROVE RunOK(q)'
  <2>1. CASE q = p
    BY <1>19, <2>1
  <2>2. CASE q # p
    <3>1. RunOK(q) /\ run'[q] = run[q] /\ disk \subseteq Runs \X Tickets \X Nat
      BY <1>8, <2>2 DEF IInv, Moves, Alone, TypeOK
    <3>2. \A y \in rmas' \ rmas : y.id[1] # q
      BY <1>2, <1>5, <2>2
    <3> QED  BY <1>2, <3>1, <3>2, OthersGoOn
  <2> QED  BY <2>1, <2>2
<1> QED  BY <1>9, <1>11, <1>12, <1>13, <1>14, <1>15, <1>16, <1>20 DEF IInv

-----------------------------------------------------------------------------
(* The inductive invariant, and the properties it gives.                   *)

LEMMA InitInv == Init => IInv
<1> SUFFICES ASSUME Init PROVE IInv
  OBVIOUS
<1>1. newRun \in RunRow
  BY DEF newRun, RunRow, States
<1>2. TypeOK
  BY <1>1 DEF Init, TypeOK
<1>3. RecordsDiffer /\ RecordsMean /\ ContactsRecorded /\ RmasRecorded /\ FilesThere
  BY DEF Init, RecordsDiffer, RecordsMean, ContactsRecorded, RmasRecorded, FilesThere
<1>4. ASSUME NEW p \in Runs PROVE RunOK(p)
  <2>1. run[p].pc = "nova" /\ run[p].users = [u \in Users |-> None]
    BY DEF Init, newRun
  <2>2. Placed(p) /\ UsersKnown(p) /\ TicketsSettled(p)
    BY <2>1 DEF Placed, UsersKnown, PastUser, TicketsSettled, PastTicket, TicketPhase, Copying
  <2>3. RmasBehind(p) /\ CopiesKnown(p)
    BY <2>1 DEF Init, RmasBehind, CopiesKnown
  <2> QED  BY <2>2, <2>3 DEF RunOK
<1>5. \A x \in rmas : SidesKept(x)
  BY DEF Init
<1> QED  BY <1>2, <1>3, <1>4, <1>5 DEF IInv

LEMMA RegisterStep ==
  ASSUME IInv, NEW e \in Emails, NEW d \in Documents, Register(e, d)
  PROVE  IInv'
<1>1. UNCHANGED << dump, contacts, records, rmas, disk, run >>
  BY DEF Register
<1>2. TypeOK'
  BY <1>1 DEF IInv, TypeOK
<1>3. \A x \in rmas : \A k \in x.files : k \in disk'
  BY <1>1 DEF IInv, FilesThere
<1>4. ASSUME NEW q \in Runs PROVE RunOK(q)'
  <2>1. RunOK(q) /\ disk \subseteq Runs \X Tickets \X Nat
    BY DEF IInv, TypeOK
  <2> QED  BY <1>1, <2>1, OthersGoOn
<1> QED  BY <1>1, <1>2, <1>3, <1>4, TablesStay DEF IInv

LEMMA InvStep == IInv /\ [Next]_vars => IInv'
<1> SUFFICES ASSUME IInv, [Next]_vars PROVE IInv'
  OBVIOUS
<1>1. ASSUME NEW p \in Runs,
             \/ KnowAgent(p) \/ SkipAgent(p) \/ TakeAgent(p)
             \/ LinkAgent(p) \/ HashAgent(p) \/ InsertAgent(p)
      PROVE  IInv'
  BY <1>1, KnowAgentStep, SkipAgentStep, TakeAgentStep, LinkAgentStep
<1>2. ASSUME NEW p \in Runs, KnowUser(p) \/ SkipUser(p) \/ HashUser(p) \/ ImportUser(p)
      PROVE  IInv'
  BY <1>2, KnowUserStep, SkipUserStep, HashUserStep, ImportUserStep
<1>3. ASSUME NEW p \in Runs,
             \/ KnowTicket(p) \/ SkipTicket(p) \/ PlanTicket(p)
             \/ Copy(p) \/ PlanFails(p) \/ WriteTicket(p) \/ Discard(p)
      PROVE  IInv'
  BY <1>3, KnowTicketKeeps, SkipTicketStep, PlanTicketKeeps, CopyKeeps, PlanFailsStep,
     WriteTicketKeeps, DiscardStep
<1>4. ASSUME NEW p \in Runs, Advance(p) \/ Crash(p)
      PROVE  IInv'
  BY <1>4, AdvanceStep, CrashStep
<1>5. ASSUME NEW e \in Emails, NEW d \in Documents, Register(e, d)
      PROVE  IInv'
  BY <1>5, RegisterStep
<1>6. CASE UNCHANGED vars
  <2>1. UNCHANGED << dump, contacts, records, rmas, disk, run >>
    BY <1>6 DEF vars
  <2>2. TypeOK'
    BY <2>1 DEF IInv, TypeOK
  <2>3. \A x \in rmas : \A k \in x.files : k \in disk'
    BY <2>1 DEF IInv, FilesThere
  <2>4. ASSUME NEW q \in Runs PROVE RunOK(q)'
    <3>1. RunOK(q) /\ disk \subseteq Runs \X Tickets \X Nat
      BY DEF IInv, TypeOK
    <3> QED  BY <2>1, <3>1, OthersGoOn
  <2> QED  BY <2>1, <2>2, <2>3, <2>4, TablesStay DEF IInv
<1> QED  BY <1>1, <1>2, <1>3, <1>4, <1>5, <1>6 DEF Next

\* What was recorded, and by whom, holds of every execution, in whatever order
\* they run, stop and start again (legacy-records.ts, legacy-importer.ts).
THEOREM RecordsKeepImport == Spec => []IInv
<1>1. Init => IInv
  BY InitInv
<1>2. IInv /\ [Next]_vars => IInv'
  BY InvStep
<1> QED  BY <1>1, <1>2, PTL DEF Spec

\* However many executions run at once or again, over whatever dump, a ticket is
\* one RMA, a user one contact and an account one agent (staff-import.ts:24).
THEOREM NothingTwice == Spec => []NeverTwice
<1>1. IInv => NeverTwice
  <2> SUFFICES ASSUME IInv PROVE NeverTwice
    OBVIOUS
  <2>1. \A x, y \in rmas : x.ticket = y.ticket => x = y
    BY DEF IInv, RmasRecorded
  <2>2. \A c, d \in contacts : c.id[2] = d.id[2] => c = d
    BY DEF IInv, ContactsRecorded
  <2>3. ASSUME NEW a \in Agents, NEW b \in Agents,
               importedEntityOf("ost_staff", a) = importedEntityOf("ost_staff", b),
               importedEntityOf("ost_staff", a) # None
        PROVE  a = b
    <3>1. PICK r \in records : /\ r.source = "ost_staff" /\ r.id = a
                               /\ r.entity = importedEntityOf("ost_staff", a)
      BY <2>3, FoundIsRecorded
    <3>2. PICK s \in records : /\ s.source = "ost_staff" /\ s.id = b
                               /\ s.entity = importedEntityOf("ost_staff", b)
      BY <2>3, FoundIsRecorded
    <3> QED  BY <2>3, <3>1, <3>2 DEF IInv, RecordsDiffer
  <2> QED  BY <2>1, <2>2, <2>3 DEF NeverTwice
<1> QED  BY <1>1, RecordsKeepImport, PTL

\* Whatever stops an execution, an RMA has its files, a file without an RMA is of
\* the ticket an execution is at, and one that ends answers for every ticket
\* (ticket-import.ts, ticket-writer.ts).
THEOREM TicketsComeWhole == Spec => []TicketsAreWhole
<1>1. IInv => TicketsAreWhole
  <2> SUFFICES ASSUME IInv PROVE TicketsAreWhole
    OBVIOUS
  <2>1. \A x \in rmas : x.files \subseteq disk
    BY DEF IInv, FilesThere
  <2>2. ASSUME NEW k \in disk
        PROVE  \/ \E x \in rmas : k \in x.files
               \/ run[k[1]].at = k[2] /\ run[k[1]].pc \in {"copiando", "descartando", "parada"}
    <3>1. k[1] \in Runs
      BY DEF IInv, TypeOK
    <3>2. CopiesKnown(k[1])
      BY <3>1, OfRun
    <3> QED  BY <3>2 DEF CopiesKnown, Copying
  <2>3. ASSUME NEW p \in Runs, NEW t \in Tickets, run[p].pc = "concluida"
        PROVE  \/ \E x \in rmas : x.ticket = t /\ imported(t)
               \/ t \in run[p].failed
               \/ SkippedWith(p, t)
    <3>1. Settled(p, t)
      BY <2>3, OfRun DEF TicketsSettled, PastTicket
    <3>2. \A x \in rmas : x.ticket = t => imported(t)
      BY RmaIsFound DEF IInv
    <3> QED  BY <3>1, <3>2 DEF Settled
  <2> QED  BY <2>1, <2>2, <2>3 DEF TicketsAreWhole, SkippedWith
<1> QED  BY <1>1, RecordsKeepImport, PTL

\* Each entry of a ticket is in its RMA once if it has text and nowhere if it has
\* none (an image pasted alone), what only the team may read is not shown to the
\* customer, and what is on the side of the customer was written by an account of
\* that customer (ticket-conversation.ts).
THEOREM EntriesKeepTheirSide == Spec => []ConversationKeepsItsSide
<1>1. IInv => ConversationKeepsItsSide
  BY DEF IInv, SidesKept, ConversationKeepsItsSide
<1> QED  BY <1>1, RecordsKeepImport, PTL

=============================================================================
