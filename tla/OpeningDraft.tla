---------------------------- MODULE OpeningDraft ----------------------------
(***************************************************************************)
(* The opening form in the browser of a client.  Files are sent as they    *)
(* are picked, a few at a time, and their answers arrive when the user has *)
(* already moved, removed or added equipment; photos also come from a      *)
(* phone.  A review freezes what will be sent; the confirmation is one     *)
(* request per attempt, all with the same key, and any answer may be lost. *)
(***************************************************************************)
EXTENDS Integers, Sequences, FiniteSets, SequencesExt

CONSTANTS
  Items,     \* keys of equipment, each used once
  Files,     \* picked or received files, each used once
  PurposeOf, \* foto_item, video_item, nota_xml or declaracao
  Nothing,
  Limit,     \* PHOTOS_PER_ITEM.max, and one video
  MAX_PARALLEL_UPLOADS,
  Retries,   \* length of RETRY_DELAYS_MS
  Confirmations,  \* confirmations the user may make
  LastTerms  \* bound on the versions of the warranty terms

VARIABLES
  items,     \* the equipment of the draft, in its order
  documents, \* its invoice and its declaration
  used,      \* keys of equipment ever used
  active,    \* uploads the queue counts
  waiting,   \* uploads waiting for their turn
  upload,    \* progress of each file in the queue
  attempt,   \* times each upload was told to wait
  check,     \* validation of each invoice
  inForce,   \* version of the terms on the server
  account,   \* version the account has accepted, on the server
  session,   \* version that the session of the page says it has accepted
  accepted,  \* version accepted in this form, or Nothing
  ready,     \* what the review will send, or Nothing
  request,   \* content of each request the server may still get, or Nothing
  pending,   \* the request the page waits for, or Nothing
  opened,    \* the RMA opened with the key of this form, or Nothing
  page       \* aberto (the form), atendimento (the RMA it opened) or perdido

draftVars == << items, documents, used >>
queueVars == << active, waiting, upload, attempt >>
termsVars == << inForce, account, session, accepted >>
sendVars == << ready, request, pending, opened, page >>
openingVars == << draftVars, queueVars, check, termsVars, sendVars >>

MEDIA == {"foto_item", "video_item"}
DOCUMENT_PURPOSE == {"nota_xml", "declaracao"}

Picked(purposes) == { f \in Files : PurposeOf[f] \in purposes }

Slot == [file : Files, status : {"enviando", "enviado", "erro"}]

Item == [key : Items, slots : SUBSET Slot]

\* What the page got when it was loaded, and keeps: staleTime Infinity.
shownTerms == 1
olderTerms == 0

ASSUME OpeningDraftAssumption ==
  /\ \A f \in Files : PurposeOf[f] \in MEDIA \union DOCUMENT_PURPOSE
  /\ Limit \in [MEDIA -> Nat]
  /\ {MAX_PARALLEL_UPLOADS, Retries, LastTerms} \subseteq Nat
  /\ MAX_PARALLEL_UPLOADS > 0
  /\ Nothing \notin Files \union Items \union Confirmations \union Nat

emptyItem(key) == [key |-> key, slots |-> {}]

DraftInit ==
  /\ \E k \in Items : items = << emptyItem(k) >> /\ used = {k}
  /\ documents = [d \in DOCUMENT_PURPOSE |-> Nothing]
  /\ active = 0
  /\ waiting = << >>
  /\ upload = [f \in Files |-> "nova"]
  /\ attempt = [f \in Files |-> 0]
  /\ check = [f \in Picked({"nota_xml"}) |-> "nenhuma"]
  /\ inForce = shownTerms
  /\ account \in {olderTerms, shownTerms} /\ session = account
  /\ accepted = Nothing
  /\ ready = Nothing
  /\ request = [q \in Confirmations |-> Nothing]
  /\ pending = Nothing
  /\ opened = Nothing
  /\ page = "aberto"

-----------------------------------------------------------------------------
(* The draft.                                                              *)

Editing == page = "aberto" /\ ready = Nothing

keysOf(list) == { list[n].key : n \in DOMAIN list }

mapItem(list, key, Change(_)) ==
  [n \in DOMAIN list |-> IF list[n].key = key THEN Change(list[n]) ELSE list[n]]

slotsOfKind(item, purpose) == { s \in item.slots : PurposeOf[s.file] = purpose }

fits(item, purpose) == Cardinality(slotsOfKind(item, purpose)) < Limit[purpose]

slotsOf(list, k) ==
  UNION { { s.file : s \in list[n].slots } : n \in { m \in DOMAIN list : list[m].key = k } }

documentSlots == { documents[d] : d \in DOCUMENT_PURPOSE } \ {Nothing}

allSlots == (UNION { items[n].slots : n \in DOMAIN items }) \union documentSlots

\* The invoice of the draft, if any.
invoice == { s.file : s \in {documents["nota_xml"]} \ {Nothing} }

sentSlots(slots) == { s.file : s \in { t \in slots : t.status = "enviado" } }

\* Mutant: the answer of an upload is put in the first equipment of the list.
replaceIn_Upsert(item, s) ==
  [item EXCEPT !.slots = { t \in @ : t.file # s.file }
                         \union (IF item.key = items[1].key THEN {s} ELSE {})]

replaceIn(item, s) ==
  [item EXCEPT !.slots = { IF t.file = s.file THEN s ELSE t : t \in @ }]

\* The file is replaced by its final state, wherever it now is.
withSlot(s) ==
  /\ items' = [n \in DOMAIN items |-> replaceIn(items[n], s)]
  /\ documents' = [d \in DOCUMENT_PURPOSE |->
       IF documents[d] # Nothing /\ documents[d].file = s.file THEN s ELSE documents[d]]

-----------------------------------------------------------------------------
(* The queue of uploads, shared by the page.                               *)

\* acquire, as soon as the file is picked.
Enqueue(f) ==
  /\ IF active < MAX_PARALLEL_UPLOADS
       THEN /\ active' = active + 1
            /\ upload' = [upload EXCEPT ![f] = "enviando"]
            /\ UNCHANGED waiting
       ELSE /\ waiting' = Append(waiting, f)
            /\ upload' = [upload EXCEPT ![f] = "fila"]
            /\ UNCHANGED active
  /\ UNCHANGED attempt

\* The turn goes to the next file, or back to the queue.
release(f) ==
  /\ IF waiting = << >>
       THEN /\ active' = active - 1
            /\ upload' = [upload EXCEPT ![f] = "terminou"]
            /\ UNCHANGED waiting
       ELSE /\ waiting' = Tail(waiting)
            /\ upload' = [upload EXCEPT ![f] = "terminou", ![Head(waiting)] = "enviando"]
            /\ UNCHANGED active
  /\ UNCHANGED attempt

startsSending(f) == [file |-> f, status |-> "enviando"]

\* Files of a wrong kind or size never leave the browser.
precheckFails(f) == [file |-> f, status |-> "erro"]

\* startUpload: the slot, and the queue.
startUpload(f, s) ==
  \/ s = startsSending(f) /\ Enqueue(f)
  \/ /\ s = precheckFails(f)
     /\ upload' = [upload EXCEPT ![f] = "terminou"]
     /\ UNCHANGED << active, waiting, attempt >>

Initial(f) == {startsSending(f), precheckFails(f)}

\* addPhotos and selectVideo.
AddMedia(key, f) ==
  /\ Editing /\ key \in keysOf(items) /\ upload[f] = "nova"
  /\ \A n \in DOMAIN items : items[n].key = key => fits(items[n], PurposeOf[f])
  /\ \E s \in Initial(f) :
       /\ startUpload(f, s)
       /\ items' = mapItem(items, key, LAMBDA item : [item EXCEPT !.slots = @ \union {s}])
  /\ UNCHANGED << documents, used, check, termsVars, sendVars >>

SelectDocument(f) ==
  /\ Editing /\ upload[f] = "nova" /\ documents[PurposeOf[f]] = Nothing
  /\ \E s \in Initial(f) :
       /\ startUpload(f, s)
       /\ documents' = [documents EXCEPT ![PurposeOf[f]] = s]
  /\ UNCHANGED << items, used, check, termsVars, sendVars >>

withReceivedFile(item, f) ==
  IF fits(item, PurposeOf[f])
    THEN [item EXCEPT !.slots = @ \union {[file |-> f, status |-> "enviado"]}]
    ELSE item

\* receiveFiles: a file a phone sent, already on the server.
ReceiveFile(key, f) ==
  /\ Editing /\ key \in keysOf(items) /\ upload[f] = "nova"
  /\ upload' = [upload EXCEPT ![f] = "terminou"]
  /\ items' = mapItem(items, key, LAMBDA item : withReceivedFile(item, f))
  /\ UNCHANGED << documents, used, active, waiting, attempt, check, termsVars, sendVars >>

\* Removing a file does not stop its upload.
RemoveMedia(key, f) ==
  /\ Editing /\ f \in slotsOf(items, key)
  /\ items' = mapItem(items, key, LAMBDA item :
                [item EXCEPT !.slots = { s \in @ : s.file # f }])
  /\ UNCHANGED << documents, used, queueVars, check, termsVars, sendVars >>

RemoveDocument(d) ==
  /\ Editing /\ documents[d] # Nothing
  /\ documents' = [documents EXCEPT ![d] = Nothing]
  /\ UNCHANGED << items, used, queueVars, check, termsVars, sendVars >>

\* The bound on additions is the number of keys.
AddItem(key) ==
  /\ Editing /\ key \notin used
  /\ items' = Append(items, emptyItem(key))
  /\ used' = used \union {key}
  /\ UNCHANGED << documents, queueVars, check, termsVars, sendVars >>

\* A filter by key, which only this equipment has.
RemoveItem(n) ==
  /\ Editing /\ Len(items) > 1
  /\ items' = RemoveAt(items, n)
  /\ UNCHANGED << documents, used, queueVars, check, termsVars, sendVars >>

\* Up, or down: the same exchange seen from the other one.
MoveItem(n) ==
  /\ Editing /\ n > 1 /\ n <= Len(items)
  /\ items' = [items EXCEPT ![n - 1] = items[n], ![n] = items[n - 1]]
  /\ UNCHANGED << documents, used, queueVars, check, termsVars, sendVars >>

-----------------------------------------------------------------------------
(* Answers of the uploads and of the validation of the invoice.            *)

Settles(f, status) ==
  /\ release(f)
  /\ withSlot([file |-> f, status |-> status])
  /\ UNCHANGED << used, termsVars, sendVars >>

\* A request to validate, which waits for the connection when there is none.
Requested == {"pedida", "pausada"}

UploadStored(f) ==
  /\ upload[f] = "enviando"
  /\ Settles(f, "enviado")
  /\ IF invoice = {f} THEN \E how \in Requested : check' = [check EXCEPT ![f] = how]
                     ELSE UNCHANGED check

\* Any failure other than a throttled one, and the last of those.
UploadFails(f) ==
  /\ upload[f] = "enviando"
  /\ Settles(f, "erro")
  /\ UNCHANGED check

\* 429: the upload waits and keeps its turn.
Throttled(f) ==
  /\ upload[f] = "enviando" /\ attempt[f] < Retries
  /\ upload' = [upload EXCEPT ![f] = "espera"]
  /\ attempt' = [attempt EXCEPT ![f] = @ + 1]
  /\ UNCHANGED << draftVars, active, waiting, check, termsVars, sendVars >>

Retry(f) ==
  /\ upload[f] = "espera"
  /\ upload' = [upload EXCEPT ![f] = "enviando"]
  /\ UNCHANGED << draftVars, active, waiting, attempt, check, termsVars, sendVars >>

\* The answer is kept under its own file: it never speaks for another one.
InvoiceChecked(f) ==
  /\ check[f] = "pedida"
  /\ \E said \in {"valida", "divergente", "falhou"} : check' = [check EXCEPT ![f] = said]
  /\ UNCHANGED << draftVars, queueVars, termsVars, sendVars >>

\* "Validar novamente".
CheckAgain(f) ==
  /\ Editing /\ check[f] = "falhou"
  /\ f \in invoice
  /\ \E how \in Requested : check' = [check EXCEPT ![f] = how]
  /\ UNCHANGED << draftVars, queueVars, termsVars, sendVars >>

\* The connection is back: a check that waited for it goes on, and the one of the
\* invoice of the form is asked for again when it failed, edited or under review.
Reconnected(f) ==
  /\ \/ check[f] = "pausada"
     \/ check[f] = "falhou" /\ f \in invoice /\ page = "aberto"
  /\ check' = [check EXCEPT ![f] = "pedida"]
  /\ UNCHANGED << draftVars, queueVars, termsVars, sendVars >>

-----------------------------------------------------------------------------
(* The terms.                                                              *)

\* Another process starts with another file of terms.
NewTerms ==
  /\ inForce < LastTerms
  /\ inForce' = inForce + 1
  /\ UNCHANGED << draftVars, queueVars, check, account, session, accepted, sendVars >>

\* Another opening of the same account is confirmed with the terms in force.
AcceptedElsewhere ==
  /\ account' = inForce
  /\ UNCHANGED << draftVars, queueVars, check, inForce, session, accepted, sendVars >>

\* The session is asked for again when the connection is back and it is older than a
\* minute, whatever the page shows.
SessionRead ==
  /\ page = "aberto"
  /\ session' = account
  /\ UNCHANGED << draftVars, queueVars, check, inForce, account, accepted, sendVars >>

\* Asking for it fails, or there is none: the form leaves the page, with its draft.
SessionLost ==
  /\ page = "aberto"
  /\ page' = "perdido"
  /\ UNCHANGED << draftVars, queueVars, check, termsVars, ready, request, pending, opened >>

requireTerms == session # shownTerms

\* Marked after a reading to the end of what the page shows.
AcceptTerms ==
  /\ Editing /\ requireTerms /\ accepted # shownTerms
  /\ accepted' = shownTerms
  /\ UNCHANGED << draftVars, queueVars, check, inForce, account, session, sendVars >>

UnmarkTerms ==
  /\ Editing /\ requireTerms /\ accepted = shownTerms
  /\ accepted' = Nothing
  /\ UNCHANGED << draftVars, queueVars, check, inForce, account, session, sendVars >>

-----------------------------------------------------------------------------
(* Review and confirmation.                                                *)

\* Only files already sent go in the body.
toOpeningInput ==
  [items |-> [n \in DOMAIN items |-> [key |-> items[n].key, files |-> sentSlots(items[n].slots)]],
   documents |-> sentSlots(documentSlots),
   terms |-> IF requireTerms THEN accepted ELSE Nothing]

\* Mutant: the review does not wait for the uploads.
reviewBlocked_NotByUploads ==
  \/ \E s \in allSlots : s.status = "erro"
  \/ \E f \in invoice : check[f] \in {"pedida", "divergente"}

\* A check that failed or waits for the connection does not block the review.
reviewBlocked ==
  \/ \E s \in allSlots : s.status # "enviado"
  \/ \E f \in invoice : check[f] \in {"pedida", "divergente"}

\* openingContentSchema: a photo of each equipment, and a document.
parsed(input) ==
  /\ \A n \in DOMAIN input.items :
       \E f \in input.items[n].files : PurposeOf[f] = "foto_item"
  /\ input.documents # {}

Review ==
  /\ Editing /\ ~reviewBlocked /\ parsed(toOpeningInput)
  /\ requireTerms => accepted # Nothing
  /\ ready' = toOpeningInput
  /\ UNCHANGED << draftVars, queueVars, check, termsVars, request, pending, opened, page >>

GoBack ==
  /\ page = "aberto" /\ ready # Nothing /\ pending = Nothing
  /\ ready' = Nothing
  /\ UNCHANGED << draftVars, queueVars, check, termsVars, request, pending, opened, page >>

\* The button is disabled while an answer is awaited.
Confirm(q) ==
  /\ page = "aberto" /\ ready # Nothing /\ pending = Nothing
  /\ request[q] = Nothing
  /\ request' = [request EXCEPT ![q] = ready]
  /\ pending' = q
  /\ UNCHANGED << draftVars, queueVars, check, termsVars, ready, opened, page >>

filesOf(input) == input.documents \union UNION { input.items[n].files : n \in DOMAIN input.items }

\* acceptanceOnOpening: what came, or what the account had accepted.
accepts(input) == IF input.terms # Nothing THEN input.terms = inForce ELSE account = inForce

\* recordTermsAcceptance, with the RMA.
acceptedWith(input) == IF input.terms # Nothing THEN input.terms ELSE account

\* POST /rmas: the terms, then the key; then the invoice, judged again, and the
\* files, which may be refused for reasons of the server: Openings models them.
outcomes(input) ==
  IF ~accepts(input) THEN {"termo"}
  ELSE IF opened # Nothing THEN {"aberto"}
  ELSE {"aberto", "recusado"}

\* onSuccess and onError of the page, when it still waits for this answer.
PageHears(q, said) ==
  IF pending # q THEN UNCHANGED << ready, pending, page, accepted >>
  ELSE /\ pending' = Nothing
       /\ page' = IF said = "aberto" THEN "atendimento" ELSE page
       /\ ready' = IF said = "aberto" THEN ready ELSE Nothing
       /\ accepted' = IF said = "termo" THEN Nothing ELSE accepted

Serve(q) ==
  /\ request[q] # Nothing
  /\ \E said \in outcomes(request[q]) :
       /\ IF said = "aberto" /\ opened = Nothing
            THEN opened' = request[q] /\ account' = acceptedWith(request[q])
            ELSE UNCHANGED << opened, account >>
       /\ PageHears(q, said)
  /\ request' = [request EXCEPT ![q] = Nothing]
  /\ UNCHANGED << draftVars, queueVars, check, inForce, session >>

\* No answer comes; the request may still be on its way to the server.
NoAnswer ==
  /\ pending # Nothing
  /\ pending' = Nothing
  /\ ready' = Nothing
  /\ UNCHANGED << draftVars, queueVars, check, termsVars, request, opened, page >>

Dropped(q) ==
  /\ request[q] # Nothing /\ pending # q
  /\ request' = [request EXCEPT ![q] = Nothing]
  /\ UNCHANGED << draftVars, queueVars, check, termsVars, ready, pending, opened, page >>

-----------------------------------------------------------------------------

Draft ==
  \/ \E k \in Items :
       \/ \E f \in Picked(MEDIA) : AddMedia(k, f) \/ ReceiveFile(k, f) \/ RemoveMedia(k, f)
       \/ AddItem(k)
  \/ \E f \in Picked(DOCUMENT_PURPOSE) : SelectDocument(f)
  \/ \E d \in DOCUMENT_PURPOSE : RemoveDocument(d)
  \/ \E n \in DOMAIN items : MoveItem(n) \/ RemoveItem(n)

Uploads(f) == UploadStored(f) \/ UploadFails(f) \/ Throttled(f) \/ Retry(f)

DraftNext ==
  \/ Draft
  \/ \E f \in Files : Uploads(f)
  \/ \E f \in Picked({"nota_xml"}) : InvoiceChecked(f) \/ CheckAgain(f) \/ Reconnected(f)
  \/ NewTerms \/ AcceptedElsewhere \/ AcceptTerms \/ UnmarkTerms
  \/ SessionRead \/ SessionLost
  \/ Review \/ GoBack \/ NoAnswer
  \/ \E q \in Confirmations : Confirm(q) \/ Serve(q) \/ Dropped(q)

DraftSpec == DraftInit /\ [][DraftNext]_openingVars

-----------------------------------------------------------------------------
(* Properties.                                                             *)

\* A file stays with the equipment it was picked for, whatever moves, leaves or
\* is answered meanwhile: nothing enters an equipment but a file never used.
FilesFollowTheirItem ==
  [][\A k \in Items : \A f \in slotsOf(items', k) \ slotsOf(items, k) : upload[f] = "nova"]_openingVars

\* What is reviewed is what is sent, whatever is answered meanwhile: all the equipment
\* and documents the draft shows, each file whole, and no acceptance but the one that
\* is marked (RmaOpeningForm, ready).
ReviewedIsSent ==
  page = "aberto" /\ ready # Nothing =>
    /\ ready.items = toOpeningInput.items /\ ready.documents = toOpeningInput.documents
    /\ filesOf(ready) = { s.file : s \in allSlots }
    /\ ready.terms # Nothing => ready.terms = accepted

=============================================================================
