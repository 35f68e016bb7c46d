------------------------------ MODULE Openings ------------------------------
(***************************************************************************)
(* RMAs opened with files, and documents sent later, while the same        *)
(* requests are repeated, others want the same files and the cleaner runs. *)
(* A request reads the invoice before its transaction; the transaction     *)
(* then takes the opening key or the row of the RMA, links the files field *)
(* by field, and commits.  One account sends everything.                   *)
(***************************************************************************)
EXTENDS Files

CONSTANTS
  Rmas,       \* opening keys, each standing for the RMA opened with it
  Requests,   \* slots for requests in progress
  Imported,   \* RMAs the import left open, without documents
  Asked,      \* what requests ask for, among Ops
  Divergent,  \* invoices whose address differs
  PurposeOf   \* what each file was sent for: the purpose its row keeps

VARIABLES
  rmas,   \* the RMA of each key, or None
  pc,
  op,
  answer, \* what the last request of each slot was answered
  held    \* the request holding each key or RMA, and each row of files

openingVars == << rmas, pc, op, answer, held >>
vars == << fileVars, openingVars >>

RMA_DOCUMENT_KINDS == {"nota_xml", "declaracao"}

\* The video of an item is linked as its photos are.
FILE_PURPOSES == {"foto_item"} \union RMA_DOCUMENT_KINDS

Documents == [RMA_DOCUMENT_KINDS -> Files \union {None}]

Rma == [photos : SUBSET Files, documents : Documents, closed : BOOLEAN]

\* What the schemas of the contracts accept: photos in an opening, and at least
\* one document in both.
Ops ==
  { o \in [kind : {"abertura"}, rma : Rmas \ Imported, photos : (SUBSET Files) \ {{}},
           documents : Documents]
          \union [kind : {"documentos"}, rma : Rmas, photos : {{}}, documents : Documents] :
      \E k \in RMA_DOCUMENT_KINDS : o.documents[k] # None }

ASSUME OpeningNamesAssumption ==
  None \notin Files \union Requests \union Rma \union Ops /\ Rmas \intersect Files = {}
ASSUME OpeningAskedAssumption == Asked \subseteq Ops /\ Divergent \subseteq Files /\ Imported \subseteq Rmas
ASSUME OpeningPurposesAssumption == PurposeOf \in [Files -> FILE_PURPOSES]

Init ==
  /\ FilesInit
  /\ rmas = [r \in Rmas |->
       IF r \in Imported
         THEN [photos |-> {}, documents |-> [k \in RMA_DOCUMENT_KINDS |-> None], closed |-> FALSE]
         ELSE None]
  /\ pc = [p \in Requests |-> "parado"]
  /\ op = [p \in Requests |-> None]
  /\ answer = [p \in Requests |-> "nenhuma"]
  /\ held = [l \in Rmas \union Files |-> None]

-----------------------------------------------------------------------------

Open(r) == rmas[r] # None /\ ~rmas[r].closed

\* What a request, or an RMA, has in the field of each purpose.
FilesOf(o, purpose) ==
  IF purpose = "foto_item" THEN o.photos ELSE {o.documents[purpose]} \ {None}

free(p, l) == held[l] \in {None, p}

HeldFiles == { f \in Files : held[f] # None }

End(p, said) ==
  /\ pc' = [pc EXCEPT ![p] = "parado"]
  /\ op' = [op EXCEPT ![p] = None]
  /\ answer' = [answer EXCEPT ![p] = said]
  /\ held' = [l \in Rmas \union Files |-> IF held[l] = p THEN None ELSE held[l]]

Refuse(p, said) == End(p, said) /\ UNCHANGED << fileVars, rmas >>

GoesOn(p, step) ==
  /\ pc' = [pc EXCEPT ![p] = step]
  /\ UNCHANGED << fileVars, rmas, op, answer >>

Takes(p, locks) == held' = [l \in Rmas \union Files |-> IF l \in locks THEN p ELSE held[l]]

At(p, kinds, step) == pc[p] = step /\ op[p].kind \in kinds

Start(p, o) ==
  /\ pc[p] = "parado"
  /\ o.kind = "documentos" => rmas[o.rma] # None
  /\ pc' = [pc EXCEPT ![p] = IF o.kind = "abertura" THEN "pediu" ELSE "procurou"]
  /\ op' = [op EXCEPT ![p] = o]
  /\ answer' = [answer EXCEPT ![p] = "nenhuma"]
  /\ UNCHANGED << fileVars, rmas, held >>

-----------------------------------------------------------------------------
(* Before the transaction.                                                 *)

\* A repeated attempt is given the RMA it already opened.
FindPrevious(p) ==
  /\ At(p, {"abertura"}, "pediu")
  /\ IF rmas[op[p].rma] # None THEN Refuse(p, "aceito") ELSE GoesOn(p, "procurou") /\ UNCHANGED held

\* acceptForRma: the row of the invoice, sent as one and temporary, ...
ReadInvoiceRow(p) ==
  /\ pc[p] = "procurou"
  /\ LET f == op[p].documents["nota_xml"]
     IN  IF f = None THEN GoesOn(p, "validou") /\ UNCHANGED held
         ELSE IF f \in Temporary /\ PurposeOf[f] = "nota_xml" THEN GoesOn(p, "leu") /\ UNCHANGED held
         ELSE Refuse(p, "arquivo")

\* ... and then its content.
ReadInvoiceContent(p) ==
  /\ pc[p] = "leu"
  /\ IF op[p].documents["nota_xml"] \in content THEN GoesOn(p, "validou") /\ UNCHANGED held
                                                ELSE Refuse(p, "falhou")

-----------------------------------------------------------------------------
(* The transaction.                                                        *)

\* Mutant: no unique index on the opening key.
keyTaken_Never(r) == FALSE

keyTaken(r) == rmas[r] # None

\* The row of the RMA is inserted, or another opening had the key.
InsertRma(p) ==
  /\ At(p, {"abertura"}, "validou")
  /\ free(p, op[p].rma)
  /\ IF keyTaken(op[p].rma) THEN Refuse(p, "aceito")
                            ELSE Takes(p, {op[p].rma}) /\ GoesOn(p, "transacao")

documentationPending(r) ==
  LET documents == rmas[r].documents
  IN  \/ \A k \in RMA_DOCUMENT_KINDS : documents[k] = None
      \/ documents["nota_xml"] \in Divergent

\* Mutant: the pending documentation was looked at before the lock.
stillPending_BeforeTheLock(r) == TRUE

stillPending(r) == documentationPending(r)

LockRma(p) ==
  /\ At(p, {"documentos"}, "validou")
  /\ free(p, op[p].rma)
  /\ IF Open(op[p].rma) /\ stillPending(op[p].rma)
       THEN Takes(p, {op[p].rma}) /\ GoesOn(p, "transacao")
       ELSE Refuse(p, "conflito")

\* Mutant: the link does not ask that the file be still temporary.
claimable_AnyState(fs, purpose) ==
  { f \in fs \intersect Files : PurposeOf[f] = purpose /\ row[f] \in {"temporario", "vinculado"} }

claimable(fs, purpose) == { f \in fs \intersect Temporary : PurposeOf[f] = purpose }

\* claimTemporaryFiles for one field of the form; every field is gone through.
Claim(p, from, purpose, to) ==
  LET claimed == claimable(FilesOf(op[p], purpose), purpose)
  IN  /\ pc[p] = from
      /\ \A f \in claimed : free(p, f)
      /\ Takes(p, claimed)
      /\ GoesOn(p, to)

ClaimFiles(p) ==
  \/ Claim(p, "transacao", "foto_item", "fotos")
  \/ Claim(p, "fotos", "nota_xml", "nota")
  \/ Claim(p, "nota", "declaracao", "vinculou")

Linked(p, purpose) == { f \in Files : held[f] = p /\ PurposeOf[f] = purpose }

\* A document replaces the one of its kind.
replaced(documents, sent) ==
  [k \in RMA_DOCUMENT_KINDS |-> IF sent[k] # None THEN sent[k] ELSE documents[k]]

\* The RMA a request opens, or sends documents for, as it leaves it.
written(r, o) ==
  IF o.kind = "abertura"
    THEN [photos |-> o.photos, documents |-> o.documents, closed |-> FALSE]
    ELSE [rmas[r] EXCEPT !.documents = replaced(rmas[r].documents, o.documents)]

\* All or nothing: a file that could not be linked undoes the others.
Commit(p) ==
  /\ pc[p] = "vinculou"
  /\ IF \E purpose \in FILE_PURPOSES : ~(FilesOf(op[p], purpose) \subseteq Linked(p, purpose))
       THEN Refuse(p, "arquivo")
       ELSE /\ row' = [f \in Files |-> IF held[f] = p THEN "vinculado" ELSE row[f]]
            /\ rmas' = [rmas EXCEPT ![op[p].rma] = written(op[p].rma, op[p])]
            /\ End(p, "aceito")
            /\ UNCHANGED << expired, content, upload, discarding >>

\* Any request may fail; its transaction is undone.
Fail(p) == pc[p] # "parado" /\ Refuse(p, "falhou")

\* The RMA is cancelled or its last item delivered.
Close(r) ==
  /\ Open(r) /\ held[r] = None
  /\ rmas' = [rmas EXCEPT ![r].closed = TRUE]
  /\ UNCHANGED << fileVars, pc, op, answer, held >>

\* The process stops and PostgreSQL undoes its transactions.
Restart ==
  /\ StopFiles
  /\ pc' = [p \in Requests |-> "parado"]
  /\ op' = [p \in Requests |-> None]
  /\ answer' = [p \in Requests |-> IF pc[p] = "parado" THEN answer[p] ELSE "falhou"]
  /\ held' = [l \in Rmas \union Files |-> None]
  /\ UNCHANGED rmas

-----------------------------------------------------------------------------

FileStep ==
  /\ \/ \E f \in Files : \/ Put(f) \/ InsertFile(f) \/ InsertFails(f) \/ Discard(f)
                         \/ Expires(f) \/ DiscardExpired(f)
     \/ RemoveExpired(HeldFiles)
  /\ UNCHANGED openingVars

Step(p) ==
  \/ FindPrevious(p) \/ ReadInvoiceRow(p) \/ ReadInvoiceContent(p)
  \/ InsertRma(p) \/ LockRma(p) \/ ClaimFiles(p) \/ Commit(p)

Next ==
  \/ FileStep
  \/ \E p \in Requests : (\E o \in Asked : Start(p, o)) \/ Step(p) \/ Fail(p)
  \/ \E r \in Rmas : Close(r)
  \/ Restart

Spec == Init /\ [][Next]_vars

-----------------------------------------------------------------------------
(* Properties.                                                             *)

\* Where a file is: an RMA, and a field of it.
Uses(f) ==
  { u \in Rmas \X FILE_PURPOSES : rmas[u[1]] # None /\ f \in FilesOf(rmas[u[1]], u[2]) }

\* A file is used at most once, however many requests name it at once and in
\* however many fields, and what an RMA uses the cleaner never takes.
UsedOnce ==
  \A f \in Files : Uses(f) # {} => Cardinality(Uses(f)) = 1 /\ row[f] = "vinculado"

\* An RMA whose documentation is in order, or that is closed, keeps it: of two
\* documents sent at once for the same reason, the second one is refused.
DocumentationSettles ==
  [][\A r \in Rmas : rmas[r] # None =>
       /\ rmas'[r].photos = rmas[r].photos
       /\ ~(Open(r) /\ documentationPending(r)) => rmas'[r].documents = rmas[r].documents]_vars

NoFileFor(p) == answer[p] = "nenhuma" /\ answer'[p] = "arquivo"

\* An opening repeated without an invoice, at once or later, is never told that
\* its files were used: the unique index makes it wait for the first one.
RepeatsWithoutInvoice ==
  [][\A p \in Requests :
       NoFileFor(p) /\ op[p].kind = "abertura" /\ op[p].documents["nota_xml"] = None
         => rmas[op[p].rma] = None]_vars

=============================================================================
