----------------------------- MODULE FilesProofs -----------------------------
(***************************************************************************)
(* Proofs about files and what uses them.  First the openings: a row       *)
(* always has its content, a file is used once, documentation in order     *)
(* stays, and a repeated opening without an invoice is not refused for its *)
(* files.  What carries them is that a transaction only holds rows that    *)
(* are temporary, and that what it looked at after its lock is still true  *)
(* when it commits.  Then "Enviar pelo celular".                           *)
(***************************************************************************)
EXTENDS Openings, MobileUploads, FiniteSetTheorems, TLAPS

Rows == {"ausente", "temporario", "vinculado", "removido"}
Uploads == {"nova", "gravou", "descarta", "concluida"}
Before == {"pediu", "procurou", "leu", "validou"}
InTransaction == {"transacao", "fotos", "nota", "vinculou"}
Answers == {"nenhuma", "aceito", "arquivo", "conflito", "falhou"}

TypeOK ==
  /\ row \in [Files -> Rows]
  /\ content \subseteq Files /\ expired \subseteq Files /\ discarding \subseteq Files
  /\ upload \in [Files -> Uploads]
  /\ rmas \in [Rmas -> Rma \union {None}]
  /\ pc \in [Requests -> {"parado"} \union Before \union InTransaction]
  /\ op \in [Requests -> Ops \union {None}]
  /\ answer \in [Requests -> Answers]
  /\ held \in [Rmas \union Files -> Requests \union {None}]

\* A request in progress asks for something.
Asking == \A p \in Requests : pc[p] # "parado" => op[p] \in Ops

\* An upload has no row yet; its content is there before the row and after it.
UploadsInOrder ==
  /\ \A f \in Files :
       /\ upload[f] \in {"nova", "gravou", "descarta"} => row[f] = "ausente"
       /\ upload[f] = "gravou" => f \in content
  /\ \A f \in discarding : row[f] = "removido"

\* What a transaction holds it can still link: neither the cleaner nor another
\* transaction changes the row.
HeldIsTemporary == \A f \in Files : held[f] # None => row[f] = "temporario"

\* A transaction holds its key, or its RMA, and what it found there is so.
Found(p, o) ==
  /\ held[o.rma] = p
  /\ o.kind = "abertura" => rmas[o.rma] = None
  /\ o.kind = "documentos" => Open(o.rma) /\ documentationPending(o.rma)

FoundIsSo ==
  \A p \in Requests, o \in Ops : pc[p] \in InTransaction /\ op[p] = o => Found(p, o)

\* File f is in the field of that purpose of RMA r.
UsedIn(f, r, purpose) == rmas[r] # None /\ f \in FilesOf(rmas[r], purpose)

\* A file in use is linked, in the field it was sent for, and in one RMA.
UsedIsLinked ==
  \A f \in Files, r \in Rmas, purpose \in FILE_PURPOSES : UsedIn(f, r, purpose) =>
    row[f] = "vinculado" /\ purpose = PurposeOf[f]

UsedByOne ==
  \A f \in Files, r, s \in Rmas, u, w \in FILE_PURPOSES :
    UsedIn(f, r, u) /\ UsedIn(f, s, w) => r = s

IInv ==
  /\ TypeOK
  /\ Asking
  /\ RecordHasContent
  /\ UploadsInOrder
  /\ HeldIsTemporary
  /\ FoundIsSo
  /\ UsedIsLinked
  /\ UsedByOne

-----------------------------------------------------------------------------
(* What requests ask for, and what an RMA has.                             *)

LEMMA PurposesAreFields ==
  ASSUME NEW u \in FILE_PURPOSES
  PROVE  u = "foto_item" \/ u \in RMA_DOCUMENT_KINDS
BY DEF FILE_PURPOSES

\* What a request asks for names an RMA and files.
LEMMA AskedFields ==
  ASSUME NEW o \in Ops
  PROVE  /\ o.kind \in {"abertura", "documentos"} /\ o.rma \in Rmas
         /\ o.photos \subseteq Files /\ o.documents \in Documents
         /\ \A u \in FILE_PURPOSES : FilesOf(o, u) \subseteq Files
<1>1. /\ o.kind \in {"abertura", "documentos"} /\ o.rma \in Rmas
      /\ o.photos \subseteq Files /\ o.documents \in Documents
  BY DEF Ops
<1>2. ASSUME NEW u \in FILE_PURPOSES PROVE FilesOf(o, u) \subseteq Files
  BY <1>1, PurposesAreFields DEF FilesOf, Documents
<1> QED BY <1>1, <1>2

LEMMA NoneIsApart == None \notin Files /\ None \notin Requests /\ None \notin Rma /\ None \notin Ops
BY OpeningNamesAssumption

\* A key or RMA is not a file: what is held of one is not what is held of the other.
LEMMA KeysAreApart == ASSUME NEW r \in Rmas PROVE r \notin Files
BY OpeningNamesAssumption

-----------------------------------------------------------------------------
(* Frames.                                                                 *)

\* Who uses what only depends on the RMAs and the rows.
LEMMA SameUses ==
  ASSUME UsedIsLinked, UsedByOne, rmas' = rmas,
         \A f \in Files : row[f] = "vinculado" => row'[f] = "vinculado"
  PROVE  UsedIsLinked' /\ UsedByOne'
BY DEF UsedIsLinked, UsedByOne, UsedIn, FilesOf

\* What a transaction found stays so while its RMA and its lock do.
LEMMA StillFound ==
  ASSUME NEW q \in Requests, NEW o \in Ops, Found(q, o),
         held'[o.rma] = q, rmas'[o.rma] = rmas[o.rma]
  PROVE  Found(q, o)'
BY DEF Found, Open, documentationPending

-----------------------------------------------------------------------------
(* The steps of uploads and of the cleaner.                                *)

\* Nothing that is linked is touched by an upload or by the cleaner.
LEMMA FilesMove ==
  ASSUME IInv, rmas' = rmas, pc' = pc, op' = op, answer' = answer, held' = held,
         row' \in [Files -> Rows], upload' \in [Files -> Uploads], content' \subseteq Files,
         expired' \subseteq Files, discarding' \subseteq Files,
         RecordHasContent', UploadsInOrder',
         \A f \in Files : row[f] = "vinculado" => row'[f] = "vinculado",
         \A f \in Files : row[f] = "temporario" /\ held[f] # None => row'[f] = "temporario"
  PROVE  IInv'
<1>1. TypeOK' /\ Asking' BY DEF IInv, TypeOK, Asking
<1>2. HeldIsTemporary' BY DEF IInv, HeldIsTemporary
<1>3. FoundIsSo' BY StillFound DEF IInv, FoundIsSo, Found
<1>4. UsedIsLinked' /\ UsedByOne' BY SameUses DEF IInv
<1> QED BY <1>1, <1>2, <1>3, <1>4 DEF IInv

LEMMA FileStepKeeps == ASSUME IInv, FileStep PROVE IInv'
<1> USE DEF IInv, TypeOK, Rows, Uploads
<1>0. rmas' = rmas /\ pc' = pc /\ op' = op /\ answer' = answer /\ held' = held
  BY DEF FileStep, openingVars
<1>1. ASSUME NEW f \in Files, Put(f) PROVE IInv'
  <2>1. RecordHasContent' /\ UploadsInOrder'
    BY <1>1 DEF Put, RecordHasContent, UploadsInOrder
  <2> QED BY <1>0, <1>1, <2>1, FilesMove DEF Put
<1>2. ASSUME NEW f \in Files, InsertFile(f) PROVE IInv'
  <2>1. row[f] = "ausente" /\ f \in content BY <1>2 DEF InsertFile, UploadsInOrder
  <2>2. RecordHasContent' /\ UploadsInOrder'
    BY <1>2, <2>1 DEF InsertFile, RecordHasContent, UploadsInOrder
  <2> QED BY <1>0, <1>2, <2>1, <2>2, FilesMove DEF InsertFile
<1>3. ASSUME NEW f \in Files, InsertFails(f) PROVE IInv'
  <2>1. RecordHasContent' /\ UploadsInOrder'
    BY <1>3 DEF InsertFails, RecordHasContent, UploadsInOrder
  <2> QED BY <1>0, <1>3, <2>1, FilesMove DEF InsertFails
<1>4. ASSUME NEW f \in Files, Discard(f) PROVE IInv'
  <2>1. row[f] = "ausente" BY <1>4 DEF Discard, UploadsInOrder
  <2>2. RecordHasContent' /\ UploadsInOrder'
    BY <1>4, <2>1 DEF Discard, RecordHasContent, UploadsInOrder
  <2> QED BY <1>0, <1>4, <2>2, FilesMove DEF Discard
<1>5. ASSUME NEW f \in Files, Expires(f) PROVE IInv'
  <2>1. RecordHasContent' /\ UploadsInOrder'
    BY <1>5 DEF Expires, RecordHasContent, UploadsInOrder
  <2> QED BY <1>0, <1>5, <2>1, FilesMove DEF Expires
<1>6. ASSUME NEW f \in Files, DiscardExpired(f) PROVE IInv'
  <2>1. row[f] = "removido" BY <1>6 DEF DiscardExpired, UploadsInOrder
  <2>2. RecordHasContent' /\ UploadsInOrder'
    BY <1>6, <2>1 DEF DiscardExpired, RecordHasContent, UploadsInOrder
  <2> QED BY <1>0, <1>6, <2>2, FilesMove DEF DiscardExpired
<1>7. ASSUME RemoveExpired(HeldFiles) PROVE IInv'
  <2>1. abandoned \subseteq Files /\ \A f \in abandoned : row[f] = "temporario" /\ held[f] = None
    BY <1>7 DEF RemoveExpired, abandoned, Temporary, HeldFiles
  <2>2. row' \in [Files -> Rows] /\ \A f \in Files \ abandoned : row'[f] = row[f]
    BY <1>7 DEF RemoveExpired
  <2>3. RecordHasContent' /\ UploadsInOrder'
    BY <1>7, <2>1 DEF RemoveExpired, RecordHasContent, UploadsInOrder
  <2> QED BY <1>0, <1>7, <2>1, <2>2, <2>3, FilesMove DEF RemoveExpired
<1> QED BY <1>1, <1>2, <1>3, <1>4, <1>5, <1>6, <1>7 DEF FileStep

-----------------------------------------------------------------------------
(* The steps of requests.                                                  *)

\* A request that is refused, or fails, lets go of what it held.
LEMMA RefuseKeeps ==
  ASSUME IInv, NEW p \in Requests, NEW said \in Answers, Refuse(p, said)
  PROVE  IInv'
<1> USE DEF IInv
<1>1. TypeOK' BY NoneIsApart DEF Refuse, End, fileVars, TypeOK
<1>2. Asking' BY DEF Refuse, End, TypeOK, Asking
<1>3. RecordHasContent' /\ UploadsInOrder'
  BY DEF Refuse, End, fileVars, RecordHasContent, UploadsInOrder
<1>4. HeldIsTemporary' BY DEF Refuse, End, fileVars, HeldIsTemporary
<1>5. FoundIsSo'
  <2> SUFFICES ASSUME NEW q \in Requests, NEW o \in Ops, pc'[q] \in InTransaction, op'[q] = o
               PROVE  Found(q, o)'
    BY DEF FoundIsSo
  <2>1. q # p /\ pc[q] = pc'[q] /\ op[q] = o BY DEF Refuse, End, TypeOK, InTransaction
  <2>2. Found(q, o) BY <2>1 DEF FoundIsSo
  <2>3. held'[o.rma] = q /\ rmas'[o.rma] = rmas[o.rma]
    BY <2>1, <2>2, AskedFields DEF Refuse, End, Found
  <2> QED BY <2>2, <2>3, StillFound
<1>6. UsedIsLinked' /\ UsedByOne' BY SameUses DEF Refuse, fileVars
<1> QED BY <1>1, <1>2, <1>3, <1>4, <1>5, <1>6

\* A request that goes on without taking anything, before its transaction.
LEMMA GoesOnKeeps ==
  ASSUME IInv, NEW p \in Requests, pc[p] \in Before, NEW step \in Before,
         GoesOn(p, step), held' = held
  PROVE  IInv'
<1> USE DEF IInv
<1>1. TypeOK' BY DEF GoesOn, fileVars, TypeOK
<1>2. Asking' BY DEF GoesOn, TypeOK, Asking, Before
<1>3. RecordHasContent' /\ UploadsInOrder' /\ HeldIsTemporary'
  BY DEF GoesOn, fileVars, RecordHasContent, UploadsInOrder, HeldIsTemporary
<1>4. FoundIsSo'
  <2>1. \A q \in Requests : pc'[q] \in InTransaction => pc[q] = pc'[q]
    BY DEF GoesOn, TypeOK, Before, InTransaction
  <2>2. rmas' = rmas /\ op' = op BY DEF GoesOn
  <2> QED BY <2>1, <2>2, StillFound DEF FoundIsSo, Found
<1>5. UsedIsLinked' /\ UsedByOne' BY SameUses DEF GoesOn, fileVars
<1> QED BY <1>1, <1>2, <1>3, <1>4, <1>5

\* A transaction begins: it takes its key or its RMA, which is as it must be.
LEMMA BeginKeeps ==
  ASSUME IInv, NEW p \in Requests, NEW o \in Ops, op[p] = o, pc[p] = "validou",
         free(p, o.rma), Takes(p, {o.rma}), GoesOn(p, "transacao"),
         o.kind = "abertura" => rmas[o.rma] = None,
         o.kind = "documentos" => Open(o.rma) /\ documentationPending(o.rma)
  PROVE  IInv'
<1> USE DEF IInv
<1>0. o.rma \in Rmas /\ o.rma \notin Files BY AskedFields, KeysAreApart
<1>1. TypeOK' BY DEF GoesOn, Takes, fileVars, TypeOK, InTransaction
<1>2. Asking' BY DEF GoesOn, TypeOK, Asking
<1>3. RecordHasContent' /\ UploadsInOrder' /\ HeldIsTemporary'
  BY <1>0 DEF GoesOn, Takes, fileVars, RecordHasContent, UploadsInOrder, HeldIsTemporary
<1>4. FoundIsSo'
  <2> SUFFICES ASSUME NEW q \in Requests, NEW a \in Ops, pc'[q] \in InTransaction, op'[q] = a
               PROVE  Found(q, a)'
    BY DEF FoundIsSo
  <2>1. CASE q = p
    <3>1. a = o /\ rmas' = rmas /\ held'[o.rma] = p BY <2>1, <1>0 DEF GoesOn, Takes
    <3>2. Open(o.rma) /\ documentationPending(o.rma)
            => Open(o.rma)' /\ documentationPending(o.rma)'
      BY <3>1 DEF Open, documentationPending
    <3> QED BY <2>1, <3>1, <3>2 DEF Found
  <2>2. CASE q # p
    <3>1. pc[q] \in InTransaction /\ op[q] = a BY <2>2 DEF GoesOn, TypeOK
    <3>2. Found(q, a) BY <3>1 DEF FoundIsSo
    <3>3. a.rma # o.rma
      BY <2>2, <3>2, NoneIsApart DEF Found, free
    <3>4. held'[a.rma] = q /\ rmas'[a.rma] = rmas[a.rma]
      BY <3>2, <3>3, AskedFields DEF Found, Takes, GoesOn
    <3> QED BY <3>2, <3>4, StillFound
  <2> QED BY <2>1, <2>2
<1>5. UsedIsLinked' /\ UsedByOne' BY SameUses DEF GoesOn, fileVars
<1> QED BY <1>1, <1>2, <1>3, <1>4, <1>5

\* One field is gone through: what it takes was temporary, and nobody's.
LEMMA ClaimKeeps ==
  ASSUME IInv, NEW p \in Requests, NEW purpose \in FILE_PURPOSES,
         NEW from \in InTransaction, NEW to \in InTransaction, Claim(p, from, purpose, to)
  PROVE  IInv'
<1> DEFINE claimed == claimable(FilesOf(op[p], purpose), purpose)
<1> USE DEF IInv
<1>0. /\ claimed \subseteq Files /\ (\A f \in claimed : row[f] = "temporario")
      /\ pc[p] = from /\ Takes(p, claimed) /\ GoesOn(p, to)
  BY DEF Claim, claimable, Temporary
<1> HIDE DEF claimed
<1>1. TypeOK' BY <1>0 DEF GoesOn, Takes, fileVars, TypeOK
<1>2. Asking' BY <1>0 DEF GoesOn, TypeOK, Asking, InTransaction
<1>3. RecordHasContent' /\ UploadsInOrder' /\ HeldIsTemporary'
  BY <1>0 DEF GoesOn, Takes, fileVars, RecordHasContent, UploadsInOrder, HeldIsTemporary
<1>4. FoundIsSo'
  <2> SUFFICES ASSUME NEW q \in Requests, NEW o \in Ops, pc'[q] \in InTransaction, op'[q] = o
               PROVE  Found(q, o)'
    BY DEF FoundIsSo
  <2>1. pc[q] \in InTransaction /\ op[q] = o BY <1>0 DEF GoesOn, TypeOK
  <2>2. Found(q, o) BY <2>1 DEF FoundIsSo
  <2>3. o.rma \in Rmas /\ o.rma \notin claimed BY <1>0, AskedFields, KeysAreApart
  <2>4. held'[o.rma] = q /\ rmas'[o.rma] = rmas[o.rma]
    BY <1>0, <2>2, <2>3 DEF Found, Takes, GoesOn
  <2> QED BY <2>2, <2>4, StillFound
<1>5. UsedIsLinked' /\ UsedByOne' BY <1>0, SameUses DEF GoesOn, fileVars
<1> QED BY <1>1, <1>2, <1>3, <1>4, <1>5

LEMMA StartKeeps ==
  ASSUME IInv, NEW p \in Requests, NEW o \in Asked, Start(p, o)
  PROVE  IInv'
<1> USE DEF IInv
<1>0. o \in Ops BY OpeningAskedAssumption
<1>1. TypeOK' BY <1>0 DEF Start, fileVars, TypeOK, Before, Answers
<1>2. Asking' BY <1>0 DEF Start, TypeOK, Asking
<1>3. RecordHasContent' /\ UploadsInOrder' /\ HeldIsTemporary'
  BY DEF Start, fileVars, RecordHasContent, UploadsInOrder, HeldIsTemporary
<1>4. FoundIsSo'
  <2>1. \A q \in Requests : pc'[q] \in InTransaction => pc[q] = pc'[q] /\ op'[q] = op[q]
    BY DEF Start, TypeOK, InTransaction
  <2>2. rmas' = rmas /\ held' = held BY DEF Start
  <2> QED BY <2>1, <2>2, StillFound DEF FoundIsSo, Found
<1>5. UsedIsLinked' /\ UsedByOne' BY SameUses DEF Start, fileVars
<1> QED BY <1>1, <1>2, <1>3, <1>4, <1>5

LEMMA CloseKeeps == ASSUME IInv, NEW r \in Rmas, Close(r) PROVE IInv'
<1> USE DEF IInv
<1>0. rmas[r] \in Rma /\ rmas[r] # None BY DEF Close, Open, TypeOK
<1>1. [rmas[r] EXCEPT !.closed = TRUE] \in Rma BY <1>0 DEF Rma
<1>2. TypeOK' BY <1>1 DEF Close, fileVars, TypeOK
<1>3. Asking' /\ RecordHasContent' /\ UploadsInOrder' /\ HeldIsTemporary'
  BY DEF Close, fileVars, Asking, RecordHasContent, UploadsInOrder, HeldIsTemporary
<1>4. FoundIsSo'
  <2> SUFFICES ASSUME NEW q \in Requests, NEW o \in Ops, pc'[q] \in InTransaction, op'[q] = o
               PROVE  Found(q, o)'
    BY DEF FoundIsSo
  <2>1. Found(q, o) BY DEF FoundIsSo, Close
  <2>2. o.rma # r BY <2>1, NoneIsApart DEF Found, Close
  <2>3. held'[o.rma] = q /\ rmas'[o.rma] = rmas[o.rma]
    BY <2>1, <2>2, AskedFields DEF Found, Close, TypeOK
  <2> QED BY <2>1, <2>3, StillFound
<1>5. \A f \in Files, s \in Rmas, u \in FILE_PURPOSES : UsedIn(f, s, u)' => UsedIn(f, s, u)
  <2> SUFFICES ASSUME NEW f \in Files, NEW s \in Rmas, NEW u \in FILE_PURPOSES, UsedIn(f, s, u)'
               PROVE  UsedIn(f, s, u)
    OBVIOUS
  <2>1. CASE s # r BY <2>1 DEF UsedIn, FilesOf, Close, TypeOK
  <2>2. CASE s = r
    <3>1. rmas'[r].photos = rmas[r].photos /\ rmas'[r].documents = rmas[r].documents
      BY <1>0 DEF Close, TypeOK, Rma
    <3> QED BY <1>0, <2>2, <3>1 DEF UsedIn, FilesOf
  <2> QED BY <2>1, <2>2
<1>6. UsedIsLinked' /\ UsedByOne' BY <1>5 DEF UsedIsLinked, UsedByOne, Close, fileVars
<1> QED BY <1>2, <1>3, <1>4, <1>6

LEMMA RestartKeeps == ASSUME IInv, Restart PROVE IInv'
<1> USE DEF IInv
<1>1. TypeOK' BY DEF Restart, StopFiles, TypeOK, Uploads, Answers
<1>2. Asking' BY DEF Restart, Asking
<1>3. RecordHasContent' /\ UploadsInOrder' /\ HeldIsTemporary'
  BY DEF Restart, StopFiles, TypeOK, RecordHasContent, UploadsInOrder, HeldIsTemporary
<1>4. FoundIsSo' BY DEF Restart, FoundIsSo, InTransaction
<1>5. UsedIsLinked' /\ UsedByOne' BY SameUses DEF Restart, StopFiles
<1> QED BY <1>1, <1>2, <1>3, <1>4, <1>5

-----------------------------------------------------------------------------
(* The commit.                                                             *)

\* All the fields of the request are linked, and the request ends.
Links(p, o) ==
  /\ \A u \in FILE_PURPOSES : FilesOf(o, u) \subseteq Linked(p, u)
  /\ row' = [f \in Files |-> IF held[f] = p THEN "vinculado" ELSE row[f]]
  /\ rmas' = [rmas EXCEPT ![o.rma] = written(o.rma, o)]
  /\ End(p, "aceito")
  /\ UNCHANGED << expired, content, upload, discarding >>

\* A commit links everything or refuses the request.
LEMMA CommitLinks ==
  ASSUME NEW p \in Requests, Commit(p)
  PROVE  pc[p] = "vinculou" /\ (Refuse(p, "arquivo") \/ Links(p, op[p]))
<1>1. CASE \E u \in FILE_PURPOSES : ~(FilesOf(op[p], u) \subseteq Linked(p, u))
  BY <1>1 DEF Commit
<1>2. CASE \A u \in FILE_PURPOSES : FilesOf(op[p], u) \subseteq Linked(p, u)
  BY <1>2 DEF Commit, Links
<1> QED BY <1>1, <1>2

\* The RMA of a commit is one, and has what it had or what the request asks for.
LEMMA WrittenRma ==
  ASSUME IInv, NEW p \in Requests, NEW o \in Ops, op[p] = o, pc[p] \in InTransaction
  PROVE  /\ written(o.rma, o) \in Rma
         /\ \A u \in FILE_PURPOSES, f \in Files :
              f \in FilesOf(written(o.rma, o), u) => UsedIn(f, o.rma, u) \/ f \in FilesOf(o, u)
         /\ o.kind = "documentos" => written(o.rma, o).photos = rmas[o.rma].photos
<1>0. /\ o.kind \in {"abertura", "documentos"} /\ o.rma \in Rmas
      /\ o.photos \subseteq Files /\ o.documents \in Documents
  BY AskedFields
<1>1. CASE o.kind = "abertura"
  <2>1. written(o.rma, o) = [photos |-> o.photos, documents |-> o.documents, closed |-> FALSE]
    BY <1>1 DEF written
  <2> QED BY <1>0, <1>1, <2>1 DEF Rma, FilesOf
<1>2. CASE o.kind = "documentos"
  <2> DEFINE docs == replaced(rmas[o.rma].documents, o.documents)
  <2>1. rmas[o.rma] \in Rma /\ rmas[o.rma] # None
    BY <1>0, <1>2 DEF IInv, TypeOK, FoundIsSo, Found, Open
  <2>2. /\ docs \in Documents
        /\ \A k \in RMA_DOCUMENT_KINDS : docs[k] = rmas[o.rma].documents[k] \/ docs[k] = o.documents[k]
    BY <1>0, <2>1 DEF replaced, Documents, Rma
  <2> HIDE DEF docs
  <2>3. written(o.rma, o) = [rmas[o.rma] EXCEPT !.documents = docs]
    BY <1>2 DEF written, docs
  <2>4. /\ written(o.rma, o) \in Rma /\ written(o.rma, o).documents = docs
        /\ written(o.rma, o).photos = rmas[o.rma].photos
    BY <2>1, <2>2, <2>3 DEF Rma
  <2>5. ASSUME NEW u \in FILE_PURPOSES, NEW f \in Files, f \in FilesOf(written(o.rma, o), u)
        PROVE  UsedIn(f, o.rma, u) \/ f \in FilesOf(o, u)
    <3>1. CASE u = "foto_item" BY <2>1, <2>4, <2>5, <3>1 DEF FilesOf, UsedIn
    <3>2. CASE u # "foto_item" /\ u \in RMA_DOCUMENT_KINDS
      <4>1. f = docs[u] /\ f # None BY <2>4, <2>5, <3>2 DEF FilesOf
      <4>2. f = rmas[o.rma].documents[u] \/ f = o.documents[u] BY <2>2, <3>2, <4>1
      <4> QED BY <2>1, <3>2, <4>1, <4>2 DEF FilesOf, UsedIn
    <3> QED BY <3>1, <3>2, PurposesAreFields
  <2> QED BY <2>4, <2>5
<1> QED BY <1>0, <1>1, <1>2

LEMMA LinksKeeps ==
  ASSUME IInv, NEW p \in Requests, NEW o \in Ops, op[p] = o, pc[p] \in InTransaction, Links(p, o)
  PROVE  IInv'
<1> USE DEF IInv
<1>0. o.rma \in Rmas /\ written(o.rma, o) \in Rma /\ held[o.rma] = p
  BY AskedFields, WrittenRma DEF FoundIsSo, Found
<1>1. TypeOK'
  BY <1>0, NoneIsApart DEF Links, End, TypeOK, Rows, Answers
<1>2. Asking' BY DEF Links, End, TypeOK, Asking
<1>3. \A f \in Files : /\ held[f] = p => row[f] = "temporario" /\ row'[f] = "vinculado"
                       /\ held[f] # p => row'[f] = row[f]
  BY NoneIsApart DEF Links, HeldIsTemporary
<1>4. RecordHasContent' /\ UploadsInOrder' /\ HeldIsTemporary'
  <2>1. content' = content /\ upload' = upload /\ discarding' = discarding /\ discarding \subseteq Files
    BY DEF Links, TypeOK
  <2>2. \A f \in Files : held'[f] # None => held[f] # p /\ held[f] # None
    BY DEF Links, End
  <2>3. RecordHasContent' /\ UploadsInOrder'
    BY <1>3, <2>1 DEF RecordHasContent, UploadsInOrder
  <2> QED BY <1>3, <2>2, <2>3 DEF HeldIsTemporary
<1>5. FoundIsSo'
  <2> SUFFICES ASSUME NEW q \in Requests, NEW a \in Ops, pc'[q] \in InTransaction, op'[q] = a
               PROVE  Found(q, a)'
    BY DEF FoundIsSo
  <2>1. q # p /\ pc[q] = pc'[q] /\ op[q] = a BY DEF Links, End, TypeOK, InTransaction
  <2>2. Found(q, a) BY <2>1 DEF FoundIsSo
  <2>3. a.rma # o.rma BY <1>0, <2>1, <2>2 DEF Found
  <2>4. held'[a.rma] = q /\ rmas'[a.rma] = rmas[a.rma]
    BY <2>1, <2>2, <2>3, AskedFields DEF Links, End, Found, TypeOK
  <2> QED BY <2>2, <2>4, StillFound
<1>6. \* What the request links was in no field of any RMA.
      \A u, w \in FILE_PURPOSES, f \in Files, r \in Rmas : f \in FilesOf(o, u) =>
        held[f] = p /\ PurposeOf[f] = u /\ ~UsedIn(f, r, w)
  <2>1. \A u \in FILE_PURPOSES : \A f \in FilesOf(o, u) : held[f] = p /\ PurposeOf[f] = u
    BY DEF Links, Linked
  <2> QED BY <1>3, <2>1 DEF UsedIsLinked
<1>7. ASSUME NEW u \in FILE_PURPOSES, NEW f \in Files, NEW r \in Rmas, UsedIn(f, r, u)'
      PROVE  UsedIn(f, r, u) \/ (r = o.rma /\ f \in FilesOf(o, u))
  <2>1. CASE r = o.rma
    <3>1. rmas'[r] = written(o.rma, o) BY <1>0, <2>1 DEF Links, TypeOK
    <3>2. f \in FilesOf(written(o.rma, o), u) BY <1>7, <3>1 DEF UsedIn, FilesOf
    <3> QED BY <2>1, <3>2, WrittenRma
  <2>2. CASE r # o.rma
    <3>1. rmas'[r] = rmas[r] BY <2>2 DEF Links, TypeOK
    <3> QED BY <1>7, <3>1 DEF UsedIn, FilesOf
  <2> QED BY <2>1, <2>2
<1>8. UsedIsLinked' BY <1>3, <1>6, <1>7 DEF UsedIsLinked
<1>9. UsedByOne' BY <1>6, <1>7 DEF UsedByOne
<1> QED BY <1>1, <1>2, <1>4, <1>5, <1>8, <1>9

-----------------------------------------------------------------------------
(* The invariant.                                                          *)

LEMMA InitHolds == ASSUME Init PROVE IInv
<1>1. TypeOK
  <2>1. [photos |-> {}, documents |-> [k \in RMA_DOCUMENT_KINDS |-> None], closed |-> FALSE] \in Rma
    BY DEF Rma, Documents
  <2>2. rmas \in [Rmas -> Rma \union {None}] BY <2>1 DEF Init
  <2> QED BY <2>2 DEF Init, FilesInit, TypeOK, Rows, Uploads, Answers
<1>2. Asking /\ HeldIsTemporary /\ FoundIsSo
  BY DEF Init, Asking, HeldIsTemporary, FoundIsSo, InTransaction
<1>3. RecordHasContent /\ UploadsInOrder
  BY DEF Init, FilesInit, RecordHasContent, UploadsInOrder
<1>4. \A f \in Files, r \in Rmas, u \in FILE_PURPOSES : ~UsedIn(f, r, u)
  <2> SUFFICES ASSUME NEW f \in Files, NEW r \in Rmas, NEW u \in FILE_PURPOSES, UsedIn(f, r, u)
               PROVE  FALSE
    OBVIOUS
  <2>1. rmas[r] = [photos |-> {}, documents |-> [k \in RMA_DOCUMENT_KINDS |-> None], closed |-> FALSE]
    BY DEF Init, UsedIn
  <2>2. u = "foto_item" \/ u \in RMA_DOCUMENT_KINDS BY PurposesAreFields
  <2> QED BY <2>1, <2>2 DEF UsedIn, FilesOf
<1>5. UsedIsLinked /\ UsedByOne BY <1>4 DEF UsedIsLinked, UsedByOne
<1> QED BY <1>1, <1>2, <1>3, <1>5 DEF IInv

\* The steps of a request, each of them one of the kinds above.
LEMMA StepKeeps == ASSUME IInv, NEW p \in Requests, Step(p) PROVE IInv'
<1>0. pc[p] # "parado" => op[p] \in Ops BY DEF IInv, Asking
<1> USE DEF Before, InTransaction, Answers
<1>1. ASSUME FindPrevious(p) PROVE IInv'
  BY <1>1, RefuseKeeps, GoesOnKeeps DEF FindPrevious, At
<1>2. ASSUME ReadInvoiceRow(p) PROVE IInv'
  BY <1>2, RefuseKeeps, GoesOnKeeps DEF ReadInvoiceRow
<1>3. ASSUME ReadInvoiceContent(p) PROVE IInv'
  BY <1>3, RefuseKeeps, GoesOnKeeps DEF ReadInvoiceContent
<1>4. ASSUME InsertRma(p) PROVE IInv'
  BY <1>0, <1>4, RefuseKeeps, BeginKeeps DEF InsertRma, At, keyTaken
<1>5. ASSUME LockRma(p) PROVE IInv'
  BY <1>0, <1>5, RefuseKeeps, BeginKeeps DEF LockRma, At, stillPending
<1>6. ASSUME ClaimFiles(p) PROVE IInv'
  BY <1>6, ClaimKeeps DEF ClaimFiles, FILE_PURPOSES, RMA_DOCUMENT_KINDS
<1>7. ASSUME Commit(p) PROVE IInv'
  BY <1>0, <1>7, CommitLinks, RefuseKeeps, LinksKeeps
<1> QED BY <1>1, <1>2, <1>3, <1>4, <1>5, <1>6, <1>7 DEF Step

LEMMA NextKeeps == ASSUME IInv, [Next]_vars PROVE IInv'
<1>1. ASSUME NEW p \in Requests, Fail(p) PROVE IInv'
  BY <1>1, RefuseKeeps DEF Fail, Answers
<1>2. ASSUME UNCHANGED vars PROVE IInv'
  BY <1>2 DEF vars, fileVars, openingVars, IInv, TypeOK, Asking, RecordHasContent, UploadsInOrder,
    HeldIsTemporary, FoundIsSo, Found, Open, documentationPending, UsedIsLinked, UsedByOne, UsedIn
<1> QED BY <1>1, <1>2, FileStepKeeps, StartKeeps, StepKeeps, CloseKeeps, RestartKeeps DEF Next

\* Transactions only hold rows that can be linked and what they found under
\* their lock stays so: the invariant of files, openings and documents.
THEOREM TransactionsHold == Spec => []IInv
<1>1. Init => IInv BY InitHolds
<1>2. IInv /\ [Next]_vars => IInv' BY NextKeeps
<1> QED BY <1>1, <1>2, PTL DEF Spec

-----------------------------------------------------------------------------
(* What it is for.                                                         *)

\* A row of files never points at a content that is not there, whatever
\* uploads, the cleaner and a stop of the process do in between.
THEOREM ContentIsThere == Spec => []RecordHasContent
<1>1. IInv => RecordHasContent BY DEF IInv
<1> QED BY <1>1, TransactionsHold, PTL

LEMMA OneUse == ASSUME IInv PROVE UsedOnce
<1> SUFFICES ASSUME NEW f \in Files, Uses(f) # {}
             PROVE  Cardinality(Uses(f)) = 1 /\ row[f] = "vinculado"
  BY DEF UsedOnce
<1>1. PICK u : u \in Uses(f) OBVIOUS
<1>2. \A w \in Uses(f) : /\ w \in Rmas \X FILE_PURPOSES
                         /\ w[1] \in Rmas /\ w[2] \in FILE_PURPOSES /\ w = << w[1], w[2] >>
                         /\ UsedIn(f, w[1], w[2])
  BY DEF Uses, UsedIn
<1>3. \A w \in Uses(f) : row[f] = "vinculado" /\ w[1] = u[1] /\ w[2] = u[2]
  BY <1>1, <1>2 DEF IInv, UsedIsLinked, UsedByOne
<1>4. \A w \in Uses(f) : w = u BY <1>1, <1>2, <1>3
<1>5. Uses(f) = {u} BY <1>1, <1>4
<1>6. Cardinality({u}) = 1 BY FS_Singleton
<1> QED BY <1>1, <1>3, <1>5, <1>6

\* The link is of single use: however many transactions name a file at once it
\* is in one field of one RMA, and the cleaner never takes it from there.
THEOREM FilesAreUsedOnce == Spec => []UsedOnce
<1> QED BY OneUse, TransactionsHold, PTL

\* An action of the specification changes an RMA by opening it, by documents
\* it still lacked or by closing it.
LEMMA DocumentsSettle ==
  ASSUME IInv, [Next]_vars, NEW r \in Rmas, rmas[r] # None
  PROVE  /\ rmas'[r].photos = rmas[r].photos
         /\ ~(Open(r) /\ documentationPending(r)) => rmas'[r].documents = rmas[r].documents
<1>0. rmas \in [Rmas -> Rma \union {None}] BY DEF IInv, TypeOK
<1>1. CASE rmas' = rmas BY <1>1
<1>2. ASSUME NEW s \in Rmas, Close(s) PROVE rmas'[r].photos = rmas[r].photos
                                         /\ rmas'[r].documents = rmas[r].documents
  <2>1. CASE s = r BY <1>0, <1>2, <2>1 DEF Close, Rma
  <2>2. CASE s # r BY <1>0, <1>2, <2>2 DEF Close
  <2> QED BY <2>1, <2>2
<1>3. ASSUME NEW p \in Requests, NEW o \in Ops, op[p] = o, pc[p] \in InTransaction, Links(p, o)
      PROVE  /\ rmas'[r].photos = rmas[r].photos
             /\ ~(Open(r) /\ documentationPending(r)) => rmas'[r].documents = rmas[r].documents
  <2>1. CASE o.rma # r BY <1>0, <1>3, <2>1 DEF Links
  <2>2. CASE o.rma = r
    <3>1. Found(p, o) /\ o.kind = "documentos"
      BY <1>3, <2>2, AskedFields DEF IInv, FoundIsSo, Found
    <3>2. Open(r) /\ documentationPending(r) BY <2>2, <3>1 DEF Found
    <3>3. rmas'[r].photos = rmas[r].photos
      BY <1>0, <1>3, <2>2, <3>1, WrittenRma DEF Links
    <3> QED BY <3>2, <3>3
  <2> QED BY <2>1, <2>2
<1>4. ASSUME NEW p \in Requests, Commit(p), rmas' # rmas
      PROVE  op[p] \in Ops /\ pc[p] \in InTransaction /\ Links(p, op[p])
  BY <1>4, CommitLinks DEF IInv, Asking, InTransaction, Refuse
<1>5. ASSUME Next, rmas' # rmas
      PROVE  (\E p \in Requests : Commit(p)) \/ \E s \in Rmas : Close(s)
  BY <1>5 DEF Next, FileStep, openingVars, Start, Step, Fail, Refuse, GoesOn, FindPrevious,
    ReadInvoiceRow, ReadInvoiceContent, InsertRma, LockRma, ClaimFiles, Claim, Restart
<1> QED BY <1>1, <1>2, <1>3, <1>4, <1>5 DEF vars, openingVars

\* An RMA whose documentation is in order, or that is closed, keeps it: the
\* documents of two requests that found it pending are not both accepted.
THEOREM DocumentationIsSettled == Spec => DocumentationSettles
<1>1. IInv /\ [Next]_vars =>
        [\A r \in Rmas : rmas[r] # None =>
           /\ rmas'[r].photos = rmas[r].photos
           /\ ~(Open(r) /\ documentationPending(r)) => rmas'[r].documents = rmas[r].documents]_vars
  BY DocumentsSettle
<1> QED BY <1>1, TransactionsHold, PTL DEF Spec, DocumentationSettles

\* The answer of a step to the request that takes it.
LEMMA AnswersOfAStep ==
  ASSUME IInv, [Next]_vars, NEW p \in Requests, NoFileFor(p),
         op[p].kind = "abertura", op[p].documents["nota_xml"] = None
  PROVE  rmas[op[p].rma] = None
<1>0. answer \in [Requests -> Answers] /\ (pc[p] # "parado" => op[p] \in Ops)
  BY DEF IInv, TypeOK, Asking
<1>1. answer'[p] # answer[p] /\ answer'[p] = "arquivo" BY DEF NoFileFor
<1>2. \A q \in Requests, said \in Answers : Refuse(q, said) => q = p /\ said = "arquivo"
  BY <1>0, <1>1 DEF Refuse, End
<1>3. ASSUME NEW q \in Requests, Step(q) PROVE Commit(p)
  <2> USE DEF Answers
  <2>1. ~FindPrevious(q) BY <1>0, <1>1, <1>2 DEF FindPrevious, GoesOn
  <2>2. ~ReadInvoiceRow(q) BY <1>0, <1>1, <1>2 DEF ReadInvoiceRow, GoesOn
  <2>3. ~ReadInvoiceContent(q) BY <1>0, <1>1, <1>2 DEF ReadInvoiceContent, GoesOn
  <2>4. ~InsertRma(q) BY <1>0, <1>1, <1>2 DEF InsertRma, GoesOn
  <2>5. ~LockRma(q) BY <1>0, <1>1, <1>2 DEF LockRma, GoesOn
  <2>6. ~ClaimFiles(q) BY <1>0, <1>1 DEF ClaimFiles, Claim, GoesOn
  <2>7. Commit(q) => q = p
    <3>1. Links(q, op[q]) => End(q, "aceito") BY DEF Links
    <3>2. End(q, "aceito") => q = p \/ answer'[p] = answer[p] BY <1>0 DEF End
    <3> QED BY <1>1, <1>2, <3>1, <3>2, CommitLinks
  <2> QED BY <1>3, <2>1, <2>2, <2>3, <2>4, <2>5, <2>6, <2>7 DEF Step
<1>4. ~FileStep /\ ~UNCHANGED vars /\ ~Restart /\ \A s \in Rmas : ~Close(s)
  BY <1>0, <1>1 DEF FileStep, vars, openingVars, Restart, Close
<1>5. \A q \in Requests : ~Fail(q) /\ \A o \in Asked : ~Start(q, o)
  BY <1>0, <1>1, <1>2 DEF Fail, Start, Answers
<1>6. Commit(p) BY <1>3, <1>4, <1>5 DEF Next
<1>7. Found(p, op[p]) BY <1>0, <1>6 DEF IInv, FoundIsSo, Commit, InTransaction
<1> QED BY <1>7 DEF Found

\* A repeated opening that names no invoice is told that a file was used only
\* when its key has no RMA: the unique index made it wait for the first one.
THEOREM RepeatsAreAnswered == Spec => RepeatsWithoutInvoice
<1>1. IInv /\ [Next]_vars =>
        [\A p \in Requests :
           NoFileFor(p) /\ op[p].kind = "abertura" /\ op[p].documents["nota_xml"] = None
             => rmas[op[p].rma] = None]_vars
  BY AnswersOfAStep
<1> QED BY <1>1, TransactionsHold, PTL DEF Spec, RepeatsWithoutInvoice

-----------------------------------------------------------------------------
(* "Enviar pelo celular", for any number of codes, phones and files: a     *)
(* code never receives more than the computer asked for, and nothing once  *)
(* it is closed.  What carries them is the lock of the row of the code:    *)
(* what an upload saw after taking it, that the code is open and has room  *)
(* for one more, is so until the upload ends.                              *)

Ended == {"aceita", "recusada", "parada"}
Arrived == {"recebida", "anexada", "desfaz", "aceita", "parada"}

\* The types of the variables the limit depends on.
MobileTypeOK ==
  /\ row \in [Files -> Rows]
  /\ expired \subseteq Files
  /\ kind \in [Sessions -> {"abertura", "validacao"}]
  /\ session \in [Sessions -> {"nenhuma", "aberta", "encerrada"}]
  /\ sent \in [Sessions -> SUBSET Files]
  /\ request \in [Files -> {"nova"} \union InProgress \union Ended]

\* What a code has was sent for it, is of a medium it accepts, and arrived.
SentArrived ==
  /\ \A s \in Sessions : IsFiniteSet(sent[s])
  /\ \A s \in Sessions : \A f \in sent[s] :
       /\ CodeOf[f] = s
       /\ request[f] \in Arrived
       /\ accepts(kind[s], MediaOf[f])

\* A row comes with an upload that arrived, expires after its request ended,
\* and while linked is counted by its code.
RowsArrived ==
  \A f \in Files :
    /\ row[f] # "ausente" => request[f] \in Arrived \union {"recusada"}
    /\ f \in expired => request[f] \in Ended
    /\ request[f] = "recebida" => row[f] = "temporario" /\ f \in sent[CodeOf[f]]
    /\ request[f] = "anexada" => row[f] = "vinculado"
    /\ request[f] = "desfaz" => row[f] # "vinculado"
    /\ row[f] = "vinculado" => f \in sent[CodeOf[f]]

ofMedium(s, m) == { f \in sent[s] : MediaOf[f] = m }

\* The upload that holds the row of its code is the only one, and what it saw
\* there is so: the code is open, and has room for it.
LockHolds ==
  /\ \A f \in Files : request[f] = "bloqueou" =>
       /\ session[CodeOf[f]] = "aberta"
       /\ accepts(kind[CodeOf[f]], MediaOf[f])
       /\ Cardinality(ofMedium(CodeOf[f], MediaOf[f])) < limitOf(CodeOf[f])[MediaOf[f]]
  /\ \A f, g \in Files :
       request[f] = "bloqueou" /\ request[g] = "bloqueou" /\ CodeOf[f] = CodeOf[g] => f = g

WithinLimit ==
  \A s \in Sessions, m \in MOBILE_UPLOAD_MEDIA :
    Cardinality(ofMedium(s, m)) <= limitOf(s)[m]

\* What a validation code counts is attached, or being attached or undone.
AttachedOrNot ==
  \A s \in Sessions : kind[s] = "validacao" =>
    \A f \in sent[s] : row[f] = "vinculado" \/ request[f] \in {"recebida", "desfaz", "parada"}

MobileInv ==
  /\ MobileTypeOK
  /\ SentArrived
  /\ RowsArrived
  /\ LockHolds
  /\ WithinLimit
  /\ AttachedOrNot

-----------------------------------------------------------------------------
(* The limit of a code, and what it counts.                                *)

LEMMA LimitIsNatural ==
  ASSUME MobileTypeOK, NEW s \in Sessions, NEW m \in MOBILE_UPLOAD_MEDIA
  PROVE  limitOf(s)[m] \in Nat
BY MobileConstantsAssumption DEF MobileTypeOK, limitOf

\* A validation code only has videos, of which it takes one.
LEMMA ValidationTakesOneVideo ==
  ASSUME NEW s \in Sessions, kind[s] = "validacao"
  PROVE  /\ limitOf(s)["video"] = 1
         /\ \A f \in Files : accepts(kind[s], MediaOf[f]) => MediaOf[f] = "video"
BY MobileConstantsAssumption DEF limitOf, accepts, MOBILE_UPLOAD_MEDIA

LEMMA CountIsNatural ==
  ASSUME SentArrived, NEW s \in Sessions, NEW m \in MOBILE_UPLOAD_MEDIA
  PROVE  IsFiniteSet(ofMedium(s, m)) /\ Cardinality(ofMedium(s, m)) \in Nat
<1>1. ofMedium(s, m) \subseteq sent[s] BY DEF ofMedium
<1>2. IsFiniteSet(sent[s]) BY DEF SentArrived
<1> QED BY <1>1, <1>2, FS_Subset, FS_CardinalityType

\* Room for one more is a count below the limit.
LEMMA RoomIsBelowLimit ==
  ASSUME MobileTypeOK, SentArrived, NEW s \in Sessions, NEW m \in MOBILE_UPLOAD_MEDIA,
         remainingOf(s, sent[s])[m] > 0
  PROVE  Cardinality(ofMedium(s, m)) < limitOf(s)[m]
<1>1. remainingOf(s, sent[s])[m] =
        IF Cardinality(ofMedium(s, m)) < limitOf(s)[m]
          THEN limitOf(s)[m] - Cardinality(ofMedium(s, m)) ELSE 0
  BY DEF remainingOf, ofMedium
<1> QED BY <1>1

\* When files of a code go, it counts no more of any medium.
LEMMA FewerFiles ==
  ASSUME SentArrived, NEW s \in Sessions, sent'[s] \subseteq sent[s]
  PROVE  /\ IsFiniteSet(sent'[s])
         /\ \A m \in MOBILE_UPLOAD_MEDIA :
              /\ Cardinality(ofMedium(s, m)') <= Cardinality(ofMedium(s, m))
              /\ Cardinality(ofMedium(s, m)') \in Nat
<1>1. IsFiniteSet(sent[s]) /\ IsFiniteSet(sent'[s]) BY FS_Subset DEF SentArrived
<1>2. ASSUME NEW m \in MOBILE_UPLOAD_MEDIA
      PROVE  /\ Cardinality(ofMedium(s, m)') <= Cardinality(ofMedium(s, m))
             /\ Cardinality(ofMedium(s, m)') \in Nat
  <2>1. IsFiniteSet(ofMedium(s, m)) BY CountIsNatural
  <2>2. ofMedium(s, m)' \subseteq ofMedium(s, m) BY DEF ofMedium
  <2>3. IsFiniteSet(ofMedium(s, m)') BY <2>1, <2>2, FS_Subset
  <2> QED BY <2>1, <2>2, <2>3, FS_Subset, FS_CardinalityType
<1> QED BY <1>1, <1>2

\* Of a validation code at most one video is linked: it counts them all.
LEMMA OneVideoIsLinked ==
  ASSUME MobileInv, NEW s \in Sessions, kind[s] = "validacao"
  PROVE  Cardinality({ f \in For(s) : row[f] = "vinculado" }) <= 1
<1> DEFINE linked == { f \in For(s) : row[f] = "vinculado" }
<1>1. linked \subseteq ofMedium(s, "video")
  <2>1. ASSUME NEW f \in linked PROVE f \in ofMedium(s, "video")
    <3>1. f \in Files /\ f \in sent[s] BY <2>1 DEF For, MobileInv, RowsArrived
    <3>2. MediaOf[f] = "video" BY <3>1, ValidationTakesOneVideo DEF MobileInv, SentArrived
    <3> QED BY <3>1, <3>2 DEF ofMedium
  <2> QED BY <2>1
<1>2. "video" \in MOBILE_UPLOAD_MEDIA BY DEF MOBILE_UPLOAD_MEDIA
<1>3. Cardinality(ofMedium(s, "video")) <= 1
  BY <1>2, ValidationTakesOneVideo DEF MobileInv, WithinLimit
<1>4. IsFiniteSet(ofMedium(s, "video")) /\ Cardinality(ofMedium(s, "video")) \in Nat
  BY <1>2, CountIsNatural DEF MobileInv
<1> HIDE DEF linked
<1>5. /\ IsFiniteSet(linked) /\ Cardinality(linked) \in Nat
      /\ Cardinality(linked) <= Cardinality(ofMedium(s, "video"))
  BY <1>1, <1>4, FS_Subset, FS_CardinalityType
<1>6. Cardinality(linked) <= 1 BY <1>3, <1>4, <1>5
<1> QED BY <1>6 DEF linked

LEMMA LimitFollows == ASSUME MobileInv PROVE LimitHolds
<1>1. ASSUME NEW s \in Sessions, NEW m \in MOBILE_UPLOAD_MEDIA
      PROVE  Cardinality({ f \in sent[s] : MediaOf[f] = m }) <= limitOf(s)[m]
  BY DEF MobileInv, WithinLimit, ofMedium
<1> QED BY <1>1, OneVideoIsLinked DEF MobileInv, AttachedOrNot, LimitHolds

-----------------------------------------------------------------------------
(* Frames.                                                                 *)

\* The steps of the computer, of the phone and of the files alone.
LEMMA Untouched ==
  ASSUME MobileInv, row' = row, expired' = expired, kind' = kind, session' = session,
         sent' = sent, request' = request
  PROVE  MobileInv'
BY DEF MobileInv, MobileTypeOK, SentArrived, RowsArrived, LockHolds, WithinLimit, AttachedOrNot,
  ofMedium, limitOf

\* An upload is asked for or ends, without a change of what its code counts;
\* no code with an upload under way is closed by it.
LEMMA RequestMoves ==
  ASSUME MobileInv, NEW f \in Files, NEW to \in {"pediu"} \union Ended,
         request' = [request EXCEPT ![f] = to],
         row' = row, expired' = expired, kind' = kind, sent' = sent,
         session' \in [Sessions -> {"nenhuma", "aberta", "encerrada"}],
         \A g \in Files : request[g] = "bloqueou" => session'[CodeOf[g]] = session[CodeOf[g]],
         \/ request[f] = "nova" /\ to = "pediu"
         \/ request[f] \in {"pediu", "bloqueou"} /\ to = "recusada"
         \/ request[f] \in {"recebida", "anexada", "desfaz"} /\ to \in {"aceita", "parada"},
         to = "aceita" => row[f] = "vinculado" \/ kind[CodeOf[f]] = "abertura"
  PROVE  MobileInv'
<1> USE DEF MobileInv
<1>1. MobileTypeOK' BY DEF MobileTypeOK, InProgress
<1>2. SentArrived' BY DEF MobileTypeOK, SentArrived, Arrived
<1>3. RowsArrived' BY DEF MobileTypeOK, RowsArrived, Arrived, Ended
<1>4. \A g \in Files : request'[g] = "bloqueou" => request[g] = "bloqueou" BY DEF MobileTypeOK, Ended
<1>5. \A s \in Sessions, m \in MOBILE_UPLOAD_MEDIA :
        ofMedium(s, m)' = ofMedium(s, m) /\ limitOf(s)' = limitOf(s)
  BY DEF ofMedium, limitOf
<1>6. LockHolds'
  BY <1>4, <1>5, MobileConstantsAssumption DEF LockHolds
<1>7. WithinLimit' BY <1>5 DEF WithinLimit
<1>8. AttachedOrNot'
  BY DEF MobileTypeOK, AttachedOrNot, SentArrived, Arrived, Ended
<1> QED BY <1>1, <1>2, <1>3, <1>6, <1>7, <1>8

\* A code opens, or closes while no upload holds it.
LEMMA SessionMoves ==
  ASSUME MobileInv, row' = row, expired' = expired, kind' = kind, sent' = sent, request' = request,
         session' \in [Sessions -> {"nenhuma", "aberta", "encerrada"}],
         \A g \in Files : request[g] = "bloqueou" => session'[CodeOf[g]] = session[CodeOf[g]]
  PROVE  MobileInv'
<1> USE DEF MobileInv
<1>1. MobileTypeOK' /\ SentArrived' /\ RowsArrived' /\ AttachedOrNot'
  BY DEF MobileTypeOK, SentArrived, RowsArrived, AttachedOrNot
<1>2. LockHolds' /\ WithinLimit'
  BY DEF LockHolds, WithinLimit, ofMedium, limitOf
<1> QED BY <1>1, <1>2

-----------------------------------------------------------------------------
(* The steps of the computer and of the phones.                            *)

LEMMA ComputerKeeps == ASSUME MobileInv, NEW s \in Sessions, Computer(s) PROVE MobileInv'
<1> USE DEF fileVars, phones, world, computer
<1>1. CASE ClickSend(s) BY <1>1, Untouched DEF ClickSend
<1>2. CASE Ask(s) BY <1>2, Untouched DEF Ask
<1>3. CASE Answer(s) BY <1>3, Untouched DEF Answer
<1>4. CASE AnswerLost(s) BY <1>4, Untouched DEF AnswerLost
<1>5. CASE CloseWindow(s) BY <1>5, Untouched DEF CloseWindow
<1>6. CASE CloseLost(s) BY <1>6, Untouched DEF CloseLost
<1>7. CASE Outdate(s) BY <1>7, Untouched DEF Outdate
<1>8. CASE Create(s)
  <2>1. session' \in [Sessions -> {"nenhuma", "aberta", "encerrada"}]
    BY <1>8 DEF Create, MobileInv, MobileTypeOK
  <2>2. \A g \in Files : request[g] = "bloqueou" => session'[CodeOf[g]] = session[CodeOf[g]]
    BY <1>8, MobileConstantsAssumption DEF Create, MobileInv, MobileTypeOK, LockHolds
  <2> QED BY <1>8, <2>1, <2>2, SessionMoves DEF Create
<1>9. CASE CloseSession(s)
  <2>1. session' \in [Sessions -> {"nenhuma", "aberta", "encerrada"}]
    BY <1>9 DEF CloseSession, MobileInv, MobileTypeOK
  <2>2. \A g \in Files : request[g] = "bloqueou" => session'[CodeOf[g]] = session[CodeOf[g]]
    BY <1>9, MobileConstantsAssumption DEF CloseSession, locked, For, MobileInv, MobileTypeOK
  <2> QED BY <1>9, <2>1, <2>2, SessionMoves DEF CloseSession
<1> QED BY <1>1, <1>2, <1>3, <1>4, <1>5, <1>6, <1>7, <1>8, <1>9 DEF Computer

LEMMA PhoneKeeps == ASSUME MobileInv, NEW p \in Phones, Phone(p) PROVE MobileInv'
<1> USE DEF fileVars, phones, world, computer
<1>1. ASSUME NEW s \in Sessions, Describe(p, s) PROVE MobileInv'
  BY <1>1, Untouched DEF Describe
<1>2. ASSUME NEW files \in SUBSET Files, Pick(p, files) PROVE MobileInv'
  BY <1>2, Untouched DEF Pick
<1>3. ASSUME NEW f \in Files, Send(p, f) PROVE MobileInv'
  <2>1. request[f] = "nova"
    BY <1>3 DEF Send, sending
  <2>2. session' \in [Sessions -> {"nenhuma", "aberta", "encerrada"}]
    BY <1>3 DEF Send, MobileInv, MobileTypeOK
  <2> QED BY <1>3, <2>1, <2>2, RequestMoves DEF Send
<1> QED BY <1>1, <1>2, <1>3 DEF Phone

-----------------------------------------------------------------------------
(* The steps of an upload.                                                 *)

\* A response changes the request and what the phone believes.
LEMMA Responds ==
  ASSUME NEW f \in Files, NEW last, NEW ok \in BOOLEAN, Respond(f, last, ok)
  PROVE  request' = [request EXCEPT ![f] = last]
BY DEF Respond

\* The lock is taken by one upload at a time, which saw room for it.
LEMMA LockSessionKeeps == ASSUME MobileInv, NEW f \in Files, LockSession(f) PROVE MobileInv'
<1> DEFINE s == CodeOf[f]
<1> USE DEF MobileInv
<1>0. /\ s \in Sessions /\ MediaOf[f] \in MOBILE_UPLOAD_MEDIA
      /\ request[f] = "pediu" /\ ~locked(s)
      /\ row' = row /\ expired' = expired /\ kind' = kind /\ session' = session /\ sent' = sent
  BY MobileConstantsAssumption DEF LockSession, fileVars, world
<1>1. CASE mayReceive(s, MediaOf[f])
  <2>1. request' = [request EXCEPT ![f] = "bloqueou"] BY <1>1 DEF LockSession
  <2>2. /\ session[s] = "aberta" /\ accepts(kind[s], MediaOf[f])
        /\ remainingOf(s, sent[s])[MediaOf[f]] > 0
    BY <1>0, <1>1 DEF mayReceive, isOpen, sessionStatus, MobileTypeOK
  <2>3. Cardinality(ofMedium(s, MediaOf[f])) < limitOf(s)[MediaOf[f]]
    BY <1>0, <2>2, RoomIsBelowLimit
  <2>4. \A g \in Files : request[g] = "bloqueou" => CodeOf[g] # s BY <1>0 DEF locked, For
  <2>5. \A r \in Sessions, m \in MOBILE_UPLOAD_MEDIA :
          ofMedium(r, m)' = ofMedium(r, m) /\ limitOf(r)' = limitOf(r)
    BY <1>0 DEF ofMedium, limitOf
  <2>6. MobileTypeOK' BY <1>0, <2>1 DEF MobileTypeOK, InProgress
  <2>7. SentArrived' BY <1>0, <2>1 DEF MobileTypeOK, SentArrived, Arrived
  <2>8. RowsArrived' BY <1>0, <2>1 DEF MobileTypeOK, RowsArrived, Arrived, Ended
  <2>9. WithinLimit' BY <2>5 DEF WithinLimit
  <2>10. AttachedOrNot' BY <1>0, <2>1 DEF MobileTypeOK, AttachedOrNot, SentArrived, Arrived
  <2>11. \A g \in Files : request'[g] = "bloqueou" => g = f \/ request[g] = "bloqueou"
    BY <2>1 DEF MobileTypeOK
  <2>12. ASSUME NEW g \in Files, request'[g] = "bloqueou"
         PROVE  /\ session'[CodeOf[g]] = "aberta"
                /\ accepts(kind'[CodeOf[g]], MediaOf[g])
                /\ Cardinality(ofMedium(CodeOf[g], MediaOf[g])') < limitOf(CodeOf[g])'[MediaOf[g]]
    <3>1. CASE g = f BY <1>0, <2>2, <2>3, <2>5, <3>1
    <3>2. CASE request[g] = "bloqueou"
      BY <1>0, <2>5, <3>2, MobileConstantsAssumption DEF LockHolds
    <3> QED BY <2>11, <2>12, <3>1, <3>2
  <2>13. LockHolds' BY <2>4, <2>11, <2>12 DEF LockHolds
  <2> QED BY <2>6, <2>7, <2>8, <2>9, <2>10, <2>13
<1>2. CASE ~mayReceive(s, MediaOf[f])
  <2>1. request' = [request EXCEPT ![f] = "recusada"]
    BY <1>2, Responds DEF LockSession
  <2>2. session' \in [Sessions -> {"nenhuma", "aberta", "encerrada"}] BY <1>0 DEF MobileTypeOK
  <2> QED BY <1>0, <2>1, <2>2, RequestMoves DEF Ended
<1> QED BY <1>1, <1>2

\* An upload is answered: it was refused under way, or ends after it arrived.
LEMMA EndsKeeps ==
  ASSUME MobileInv, NEW f \in Files, NEW to \in Ended, NEW ok \in BOOLEAN, Respond(f, to, ok),
         row' = row, expired' = expired, kind' = kind, sent' = sent,
         \/ session' = session
         \/ session' = [session EXCEPT ![CodeOf[f]] = "encerrada"] /\ ~locked(CodeOf[f]),
         \/ request[f] \in {"pediu", "bloqueou"} /\ to = "recusada"
         \/ request[f] \in {"recebida", "anexada", "desfaz"} /\ to \in {"aceita", "parada"},
         to = "aceita" => row[f] = "vinculado" \/ kind[CodeOf[f]] = "abertura"
  PROVE  MobileInv'
<1>1. request' = [request EXCEPT ![f] = to] BY Responds
<1>2. session \in [Sessions -> {"nenhuma", "aberta", "encerrada"}] BY DEF MobileInv, MobileTypeOK
<1>3. session' \in [Sessions -> {"nenhuma", "aberta", "encerrada"}] BY <1>2
<1>4. \A g \in Files : request[g] = "bloqueou" => session'[CodeOf[g]] = session[CodeOf[g]]
  BY <1>2, MobileConstantsAssumption DEF locked, For
<1> QED BY <1>1, <1>3, <1>4, RequestMoves

\* What an upload adds to its code there was room for.
LEMMA ReceiveKeeps == ASSUME MobileInv, NEW f \in Files, Receive(f) PROVE MobileInv'
<1> DEFINE c == CodeOf[f]
<1> USE DEF MobileInv
<1>0. /\ c \in Sessions /\ MediaOf[f] \in MOBILE_UPLOAD_MEDIA
      /\ request[f] = "bloqueou" /\ request' = [request EXCEPT ![f] = "recebida"]
      /\ row' = [row EXCEPT ![f] = "temporario"]
      /\ sent' = [sent EXCEPT ![c] = sent[c] \union {f}]
      /\ expired' = expired /\ kind' = kind /\ session' = session
  BY MobileConstantsAssumption DEF Receive, InsertFile, world
<1>1. /\ accepts(kind[c], MediaOf[f])
      /\ Cardinality(ofMedium(c, MediaOf[f])) < limitOf(c)[MediaOf[f]]
      /\ \A g \in Files : request[g] = "bloqueou" /\ CodeOf[g] = c => g = f
      /\ row[f] = "ausente" /\ f \notin expired
  BY <1>0 DEF LockHolds, RowsArrived, Arrived, Ended, MobileTypeOK
<1>2. f \notin sent[c] BY <1>0 DEF SentArrived, Arrived
<1>3. sent'[c] = sent[c] \union {f} /\ \A s \in Sessions \ {c} : sent'[s] = sent[s]
  BY <1>0 DEF MobileTypeOK
<1>4. MobileTypeOK' BY <1>0, <1>3 DEF MobileTypeOK, Rows, InProgress
<1>5. SentArrived'
  <2>1. IsFiniteSet(sent[c] \union {f}) BY <1>0, FS_AddElement DEF SentArrived
  <2>2. \A s \in Sessions : IsFiniteSet(sent'[s]) BY <1>3, <2>1 DEF SentArrived
  <2>3. \A s \in Sessions : \A g \in sent'[s] : CodeOf[g] = s /\ accepts(kind'[s], MediaOf[g])
    BY <1>0, <1>1, <1>3 DEF SentArrived
  <2>4. \A s \in Sessions : \A g \in sent'[s] : request'[g] \in Arrived
    BY <1>0, <1>3 DEF SentArrived, MobileTypeOK, Arrived
  <2> QED BY <2>2, <2>3, <2>4 DEF SentArrived
<1>6. RowsArrived'
  <2> SUFFICES ASSUME NEW g \in Files
               PROVE  /\ row'[g] # "ausente" => request'[g] \in Arrived \union {"recusada"}
                      /\ g \in expired' => request'[g] \in Ended
                      /\ request'[g] = "recebida" => row'[g] = "temporario" /\ g \in sent'[CodeOf[g]]
                      /\ request'[g] = "anexada" => row'[g] = "vinculado"
                      /\ request'[g] = "desfaz" => row'[g] # "vinculado"
                      /\ row'[g] = "vinculado" => g \in sent'[CodeOf[g]]
    BY DEF RowsArrived
  <2>1. CASE g = f BY <1>0, <1>1, <1>3, <2>1 DEF MobileTypeOK, Arrived
  <2>2. CASE g # f
    <3>1. request'[g] = request[g] /\ row'[g] = row[g] /\ expired' = expired
      BY <1>0, <2>2 DEF MobileTypeOK
    <3>2. CodeOf[g] \in Sessions BY MobileConstantsAssumption
    <3>3. g \in sent[CodeOf[g]] => g \in sent'[CodeOf[g]] BY <1>3, <3>2
    <3> QED BY <3>1, <3>3 DEF RowsArrived
  <2> QED BY <2>1, <2>2
<1>7. \A s \in Sessions : limitOf(s)' = limitOf(s) BY <1>0 DEF limitOf
<1>8. \A s \in Sessions, m \in MOBILE_UPLOAD_MEDIA :
        s # c \/ m # MediaOf[f] => ofMedium(s, m)' = ofMedium(s, m)
  BY <1>3 DEF ofMedium
<1>9. Cardinality(ofMedium(c, MediaOf[f])') = Cardinality(ofMedium(c, MediaOf[f])) + 1
  <2>1. ofMedium(c, MediaOf[f])' = ofMedium(c, MediaOf[f]) \union {f} BY <1>3 DEF ofMedium
  <2>2. IsFiniteSet(ofMedium(c, MediaOf[f])) BY <1>0, CountIsNatural
  <2>3. f \notin ofMedium(c, MediaOf[f]) BY <1>2 DEF ofMedium
  <2> QED BY <2>1, <2>2, <2>3, FS_AddElement
<1>10. WithinLimit'
  <2> SUFFICES ASSUME NEW s \in Sessions, NEW m \in MOBILE_UPLOAD_MEDIA
               PROVE  Cardinality(ofMedium(s, m)') <= limitOf(s)'[m]
    BY DEF WithinLimit
  <2>1. CASE s = c /\ m = MediaOf[f]
    <3>1. Cardinality(ofMedium(c, m)) \in Nat /\ limitOf(c)[m] \in Nat
      BY <1>0, CountIsNatural, LimitIsNatural
    <3> QED BY <1>1, <1>7, <1>9, <2>1, <3>1
  <2>2. CASE s # c \/ m # MediaOf[f] BY <1>7, <1>8, <2>2 DEF WithinLimit
  <2> QED BY <2>1, <2>2
<1>11. \A g \in Files : request'[g] = "bloqueou" => request[g] = "bloqueou" /\ CodeOf[g] # c
  BY <1>0, <1>1 DEF MobileTypeOK
<1>12. LockHolds'
  BY <1>0, <1>7, <1>8, <1>11, MobileConstantsAssumption DEF LockHolds
<1>13. AttachedOrNot'
  <2> SUFFICES ASSUME NEW s \in Sessions, kind'[s] = "validacao", NEW g \in sent'[s]
               PROVE  row'[g] = "vinculado" \/ request'[g] \in {"recebida", "desfaz", "parada"}
    BY DEF AttachedOrNot
  <2>1. CASE g = f BY <1>0, <2>1 DEF MobileTypeOK
  <2>2. CASE g # f
    <3>1. g \in sent[s] BY <1>3, <2>2
    <3>2. row'[g] = row[g] /\ request'[g] = request[g] BY <1>0, <2>2, <3>1 DEF MobileTypeOK
    <3> QED BY <1>0, <3>1, <3>2 DEF AttachedOrNot
  <2> QED BY <2>1, <2>2
<1> QED BY <1>4, <1>5, <1>6, <1>10, <1>12, <1>13

\* The video of a validation is linked, and stays counted; or will be undone.
LEMMA AttachKeeps == ASSUME MobileInv, NEW f \in Files, Attach(f) PROVE MobileInv'
<1> USE DEF MobileInv
<1>0. /\ request[f] = "recebida"
      /\ \/ /\ row' = [row EXCEPT ![f] = "vinculado"]
            /\ request' = [request EXCEPT ![f] = "anexada"]
         \/ /\ row' = row
            /\ request' = [request EXCEPT ![f] = "desfaz"]
      /\ expired' = expired /\ kind' = kind /\ session' = session /\ sent' = sent
  BY DEF Attach
<1>1. row[f] = "temporario" /\ f \in sent[CodeOf[f]] /\ f \notin expired
  BY <1>0 DEF RowsArrived, Ended
<1>2. MobileTypeOK' BY <1>0 DEF MobileTypeOK, Rows, InProgress
<1>3. SentArrived' BY <1>0 DEF MobileTypeOK, SentArrived, Arrived
<1>4. RowsArrived' BY <1>0, <1>1 DEF MobileTypeOK, RowsArrived, Arrived, Ended
<1>5. \A s \in Sessions, m \in MOBILE_UPLOAD_MEDIA :
        ofMedium(s, m)' = ofMedium(s, m) /\ limitOf(s)' = limitOf(s)
  BY <1>0 DEF ofMedium, limitOf
<1>6. \A g \in Files : request'[g] = "bloqueou" => request[g] = "bloqueou" BY <1>0 DEF MobileTypeOK
<1>7. LockHolds' BY <1>0, <1>5, <1>6, MobileConstantsAssumption DEF LockHolds
<1>8. WithinLimit' BY <1>5 DEF WithinLimit
<1>9. AttachedOrNot' BY <1>0, <1>1 DEF MobileTypeOK, AttachedOrNot
<1> QED BY <1>2, <1>3, <1>4, <1>7, <1>8, <1>9

\* Files go from what codes count, and no upload takes a lock.
LEMMA FilesGo ==
  ASSUME MobileInv, kind' = kind, session' = session,
         \A s \in Sessions : sent'[s] \subseteq sent[s],
         \A g \in Files : request'[g] = "bloqueou" => request[g] = "bloqueou"
  PROVE  LockHolds' /\ WithinLimit' /\ \A s \in Sessions : IsFiniteSet(sent'[s])
<1>1. \A s \in Sessions : IsFiniteSet(sent'[s]) BY FewerFiles DEF MobileInv
<1>2. \A s \in Sessions : limitOf(s)' = limitOf(s) BY DEF limitOf
<1>3. ASSUME NEW s \in Sessions, NEW m \in MOBILE_UPLOAD_MEDIA
      PROVE  /\ Cardinality(ofMedium(s, m)') \in Nat /\ Cardinality(ofMedium(s, m)) \in Nat
             /\ limitOf(s)[m] \in Nat
             /\ Cardinality(ofMedium(s, m)') <= Cardinality(ofMedium(s, m))
  BY FewerFiles, CountIsNatural, LimitIsNatural DEF MobileInv
<1>4. WithinLimit'
  <2> SUFFICES ASSUME NEW s \in Sessions, NEW m \in MOBILE_UPLOAD_MEDIA
               PROVE  Cardinality(ofMedium(s, m)') <= limitOf(s)'[m]
    BY DEF WithinLimit
  <2>1. Cardinality(ofMedium(s, m)) <= limitOf(s)[m] BY DEF MobileInv, WithinLimit
  <2> QED BY <1>2, <1>3, <2>1
<1>5. LockHolds'
  <2>1. ASSUME NEW g \in Files, request'[g] = "bloqueou"
        PROVE  /\ session'[CodeOf[g]] = "aberta"
               /\ accepts(kind'[CodeOf[g]], MediaOf[g])
               /\ Cardinality(ofMedium(CodeOf[g], MediaOf[g])') < limitOf(CodeOf[g])'[MediaOf[g]]
    <3>0. CodeOf[g] \in Sessions /\ MediaOf[g] \in MOBILE_UPLOAD_MEDIA
      BY MobileConstantsAssumption
    <3>1. /\ session[CodeOf[g]] = "aberta"
          /\ accepts(kind[CodeOf[g]], MediaOf[g])
          /\ Cardinality(ofMedium(CodeOf[g], MediaOf[g])) < limitOf(CodeOf[g])[MediaOf[g]]
      BY <2>1 DEF MobileInv, LockHolds
    <3> QED BY <1>2, <1>3, <3>0, <3>1
  <2> QED BY <2>1 DEF MobileInv, LockHolds
<1> QED BY <1>1, <1>4, <1>5

LEMMA UndoKeeps == ASSUME MobileInv, NEW f \in Files, Undo(f) PROVE MobileInv'
<1> DEFINE c == CodeOf[f]
<1> USE DEF MobileInv
<1>0. /\ request[f] = "desfaz"
      /\ row' = row /\ expired' = expired /\ kind' = kind /\ session' = session
  BY DEF Undo, fileVars, world
<1>1. CASE sent' = sent /\ Respond(f, "parada", FALSE)
  BY <1>0, <1>1, EndsKeeps DEF Ended
<1>2. CASE sent' = [sent EXCEPT ![c] = sent[c] \ {f}] /\ Respond(f, "recusada", FALSE)
  <2>0. request' = [request EXCEPT ![f] = "recusada"] BY <1>2, Responds
  <2>1. sent' \in [Sessions -> SUBSET Files] /\ \A s \in Sessions : sent'[s] \subseteq sent[s]
    BY <1>2 DEF MobileTypeOK
  <2>2. \A s \in Sessions : f \notin sent'[s]
    BY <1>2, MobileConstantsAssumption DEF MobileTypeOK, SentArrived
  <2>3. \A g \in Files \ {f}, s \in Sessions : g \in sent[s] => g \in sent'[s]
    BY <1>2 DEF MobileTypeOK
  <2>4. \A g \in Files : g # f => request'[g] = request[g] BY <2>0 DEF MobileTypeOK
  <2>5. request'[f] = "recusada" BY <2>0 DEF MobileTypeOK
  <2>6. MobileTypeOK' BY <1>0, <2>0, <2>1 DEF MobileTypeOK, Ended
  <2>7. LockHolds' /\ WithinLimit' /\ \A s \in Sessions : IsFiniteSet(sent'[s])
    BY <1>0, <2>1, <2>4, <2>5, FilesGo
  <2>8. SentArrived' BY <1>0, <2>1, <2>2, <2>4, <2>7 DEF SentArrived, MobileTypeOK
  <2>9. RowsArrived'
    BY <1>0, <2>3, <2>4, <2>5, MobileConstantsAssumption DEF RowsArrived, Ended
  <2>10. AttachedOrNot' BY <1>0, <2>1, <2>2, <2>4 DEF AttachedOrNot, MobileTypeOK
  <2> QED BY <2>6, <2>7, <2>8, <2>9, <2>10
<1> QED BY <1>1, <1>2 DEF Undo

LEMMA UploadKeeps == ASSUME MobileInv, NEW f \in Files, Upload(f) PROVE MobileInv'
<1> USE DEF fileVars, phones, world, computer
<1>1. CASE LockSession(f) BY <1>1, LockSessionKeeps
<1>2. CASE Store(f) BY <1>2, Untouched DEF Store, Put, mobileVars
<1>3. CASE QuotaRefuses(f) BY <1>3, EndsKeeps DEF QuotaRefuses, Ended
<1>4. CASE Receive(f) BY <1>4, ReceiveKeeps
<1>5. CASE InsertRefused(f) BY <1>5, Untouched DEF InsertRefused, InsertFails, mobileVars
<1>6. CASE DiscardRefused(f) BY <1>6, EndsKeeps DEF DiscardRefused, Discard, Ended
<1>7. CASE Rollback(f) BY <1>7, EndsKeeps DEF Rollback, Ended
<1>8. CASE AnswerOpening(f) BY <1>8, EndsKeeps DEF AnswerOpening, Ended
<1>9. CASE Attach(f) BY <1>9, AttachKeeps
<1>10. CASE Undo(f) BY <1>10, UndoKeeps
<1>11. CASE EndSession(f)
  <2>1. request[f] = "anexada" /\ row[f] = "vinculado"
    BY <1>11 DEF EndSession, MobileInv, RowsArrived
  <2> QED BY <1>11, <2>1, EndsKeeps DEF EndSession, Ended
<1> QED BY <1>1, <1>2, <1>3, <1>4, <1>5, <1>6, <1>7, <1>8, <1>9, <1>10, <1>11 DEF Upload

-----------------------------------------------------------------------------
(* What happens around them.                                               *)

LEMMA AbandonKeeps == ASSUME MobileInv, NEW f \in Files, Abandon(f) PROVE MobileInv'
<1> USE DEF MobileInv
<1>0. /\ row' = row /\ kind' = kind /\ session' = session /\ sent' = sent /\ request' = request
      /\ expired' = expired \union {f} /\ row[f] = "temporario"
  BY DEF Abandon, Expires, Temporary, mobileVars, world
<1>1. request[f] \notin InProgress
  BY MobileConstantsAssumption DEF Abandon, For
<1>2. request[f] \in Ended BY <1>0, <1>1 DEF MobileTypeOK, RowsArrived, Arrived, InProgress, Ended
<1>3. MobileTypeOK' /\ RowsArrived' BY <1>0, <1>2 DEF MobileTypeOK, RowsArrived
<1>4. SentArrived' /\ LockHolds' /\ WithinLimit' /\ AttachedOrNot'
  BY <1>0 DEF SentArrived, LockHolds, WithinLimit, AttachedOrNot, ofMedium, limitOf
<1> QED BY <1>3, <1>4

\* The cleaner takes rows that expired: of requests that ended, and not linked.
LEMMA CleanKeeps == ASSUME MobileInv, Clean PROVE MobileInv'
<1> DEFINE gone == abandoned
<1> USE DEF MobileInv
<1>0. /\ row' = [f \in Files |-> IF f \in gone THEN "removido" ELSE row[f]]
      /\ sent' = [s \in Sessions |-> sent[s] \ gone]
      /\ expired' = expired /\ kind' = kind /\ session' = session /\ request' = request
  BY DEF Clean, RemoveExpired, world
<1>1. \A f \in gone : f \in Files /\ f \in expired /\ row[f] = "temporario"
  BY DEF abandoned, Temporary
<1> HIDE DEF gone
<1>2. \A f \in gone : request[f] \in Ended BY <1>1 DEF RowsArrived
<1>3. MobileTypeOK' BY <1>0 DEF MobileTypeOK, Rows
<1>4. \A s \in Sessions : sent'[s] \subseteq sent[s] BY <1>0
<1>5. LockHolds' /\ WithinLimit' /\ \A s \in Sessions : IsFiniteSet(sent'[s])
  BY <1>0, <1>4, FilesGo
<1>6. SentArrived' BY <1>0, <1>4, <1>5 DEF SentArrived, MobileTypeOK
<1>7. RowsArrived'
  BY <1>0, <1>1, <1>2, MobileConstantsAssumption DEF RowsArrived, Ended
<1>8. AttachedOrNot'
  <2> SUFFICES ASSUME NEW s \in Sessions, kind'[s] = "validacao", NEW g \in sent'[s]
               PROVE  row'[g] = "vinculado" \/ request'[g] \in {"recebida", "desfaz", "parada"}
    BY DEF AttachedOrNot
  <2>1. g \in sent[s] /\ g \in Files /\ g \notin gone BY <1>0 DEF MobileTypeOK
  <2> QED BY <1>0, <2>1 DEF AttachedOrNot
<1> QED BY <1>3, <1>5, <1>6, <1>7, <1>8

LEMMA MobileRestartKeeps == ASSUME MobileInv, MobileRestart PROVE MobileInv'
<1> USE DEF MobileInv
<1>0. /\ request' = [f \in Files |-> IF request[f] \in InProgress THEN "parada" ELSE request[f]]
      /\ row' = row /\ expired' = expired /\ kind' = kind /\ session' = session /\ sent' = sent
  BY DEF MobileRestart, StopFiles, world
<1>1. MobileTypeOK' BY <1>0 DEF MobileTypeOK, Ended
<1>2. \A s \in Sessions : sent'[s] \subseteq sent[s] BY <1>0
<1>3. \A f \in Files : request'[f] # "bloqueou" /\ request'[f] \notin InProgress
  BY <1>0 DEF InProgress
<1>4. LockHolds' /\ WithinLimit' BY <1>0, <1>2, <1>3, FilesGo
<1>5. SentArrived' BY <1>0 DEF MobileTypeOK, SentArrived, Arrived
<1>6. RowsArrived'
  BY <1>0 DEF MobileTypeOK, RowsArrived, Arrived, Ended, InProgress
<1>7. AttachedOrNot'
  BY <1>0 DEF MobileTypeOK, AttachedOrNot, InProgress
<1> QED BY <1>1, <1>4, <1>5, <1>6, <1>7

LEMMA MobileNextKeeps == ASSUME MobileInv, [MobileNext]_mobileAll PROVE MobileInv'
<1>1. CASE UNCHANGED mobileAll
  BY <1>1, Untouched DEF mobileAll, fileVars, mobileVars
<1>2. CASE MoveItem BY <1>2, Untouched DEF MoveItem, fileVars
<1>3. CASE LoseOwner BY <1>3, Untouched DEF LoseOwner, fileVars
<1>4. ASSUME NEW f \in Files, CleanContent(f) PROVE MobileInv'
  BY <1>4, Untouched DEF CleanContent, DiscardExpired, mobileVars, world
<1> QED
  BY <1>1, <1>2, <1>3, <1>4, ComputerKeeps, PhoneKeeps, UploadKeeps, AbandonKeeps, CleanKeeps,
    MobileRestartKeeps DEF MobileNext

-----------------------------------------------------------------------------
(* The invariant, and what it is for.                                      *)

LEMMA MobileInitHolds == ASSUME MobileInit PROVE MobileInv
<1>1. MobileTypeOK /\ RowsArrived /\ AttachedOrNot
  BY DEF MobileInit, FilesInit, MobileTypeOK, RowsArrived, AttachedOrNot, Rows
<1>2. SentArrived BY FS_EmptySet DEF MobileInit, SentArrived
<1>3. LockHolds BY DEF MobileInit, LockHolds
<1>4. WithinLimit
  <2> SUFFICES ASSUME NEW s \in Sessions, NEW m \in MOBILE_UPLOAD_MEDIA
               PROVE  Cardinality(ofMedium(s, m)) <= limitOf(s)[m]
    BY DEF WithinLimit
  <2>1. ofMedium(s, m) = {} BY DEF MobileInit, ofMedium
  <2>2. Cardinality(ofMedium(s, m)) = 0 BY <2>1, FS_EmptySet
  <2>3. limitOf(s)[m] \in Nat BY <1>1, LimitIsNatural
  <2> QED BY <2>2, <2>3
<1> QED BY <1>1, <1>2, <1>3, <1>4 DEF MobileInv

\* Whatever phones, the window, the cleaner and stops of the API do, an upload
\* that holds the row of its code is alone with it, and what it saw is so.
THEOREM CodesAreLocked == MobileSpec => []MobileInv
<1>1. MobileInit => MobileInv BY MobileInitHolds
<1>2. MobileInv /\ [MobileNext]_mobileAll => MobileInv' BY MobileNextKeeps
<1> QED BY <1>1, <1>2, PTL DEF MobileSpec

\* A code never has more photos or videos than the computer asked for, and a
\* validation attaches at most one: for any number of phones, files and codes.
THEOREM LimitIsKept == MobileSpec => []LimitHolds
<1> QED BY LimitFollows, CodesAreLocked, PTL

\* An upload that adds to a code found it open, and nothing closes the code
\* before the upload ends.
LEMMA OnlyOpenCodesGrow ==
  ASSUME MobileInv, [MobileNext]_mobileAll, NEW s \in Sessions, session[s] = "encerrada"
  PROVE  sent'[s] \subseteq sent[s]
<1> USE DEF fileVars, phones, world, computer
<1>0. sent \in [Sessions -> SUBSET Files] BY DEF MobileInv, MobileTypeOK
<1>1. CASE sent' = sent BY <1>1
<1>2. ASSUME NEW f \in Files, Receive(f) PROVE sent'[s] \subseteq sent[s]
  <2>1. session[CodeOf[f]] = "aberta" BY <1>2 DEF Receive, MobileInv, LockHolds
  <2>2. CodeOf[f] # s BY <2>1
  <2> QED BY <1>0, <1>2, <2>2 DEF Receive
<1>3. ASSUME NEW f \in Files, Undo(f) PROVE sent'[s] \subseteq sent[s]
  BY <1>0, <1>3 DEF Undo
<1>4. CASE Clean BY <1>0, <1>4 DEF Clean
<1>5. ASSUME NEW r \in Sessions, Computer(r) PROVE sent' = sent
  BY <1>5 DEF Computer, ClickSend, Create, Ask, Answer, AnswerLost, CloseWindow, CloseSession,
    CloseLost, Outdate
<1>6. ASSUME NEW p \in Phones, Phone(p) PROVE sent' = sent
  BY <1>6 DEF Phone, Describe, Pick, Send
<1>7. ASSUME NEW f \in Files, Upload(f), ~Receive(f), ~Undo(f) PROVE sent' = sent
  BY <1>7 DEF Upload, LockSession, Store, QuotaRefuses, InsertRefused, DiscardRefused, Rollback,
    AnswerOpening, Attach, EndSession, mobileVars
<1>8. ASSUME NEW f \in Files, Abandon(f) \/ CleanContent(f) PROVE sent' = sent
  BY <1>8 DEF Abandon, CleanContent, mobileVars
<1>9. ASSUME MoveItem \/ LoseOwner \/ MobileRestart \/ UNCHANGED mobileAll PROVE sent' = sent
  BY <1>9 DEF MoveItem, LoseOwner, MobileRestart, mobileAll, mobileVars
<1> QED BY <1>1, <1>2, <1>3, <1>4, <1>5, <1>6, <1>7, <1>8, <1>9 DEF MobileNext

\* Once a code is closed nothing more arrives through it, not even what was
\* being received when the computer closed it.
THEOREM ClosedIsClosed == MobileSpec => ClosedTakesNothing
<1>1. MobileInv /\ [MobileNext]_mobileAll =>
        [\A s \in Sessions : session[s] = "encerrada" => sent'[s] \subseteq sent[s]]_mobileAll
  BY OnlyOpenCodesGrow
<1> QED BY <1>1, CodesAreLocked, PTL DEF MobileSpec, ClosedTakesNothing

==============================================================================
