---------------------------- MODULE MobileUploads ----------------------------
(***************************************************************************)
(* "Enviar pelo celular": a computer shows a QR code, phones that open its *)
(* link send photos and videos without a login, and the computer asks      *)
(* every few seconds what arrived.  A code of an opening only receives     *)
(* files; a code of a validation attaches its video to the item and ends.  *)
(* Each upload is a file of Files: the photo picked again is another file. *)
(***************************************************************************)
EXTENDS Files

CONSTANTS
  Sessions,  \* QR codes, each with a window of its own on the computer
  Phones,
  OpeningLimit,  \* photoLimit and videoLimit an opening asks for
  CodeOf,    \* the session an upload is for
  MediaOf    \* photo or video

VARIABLES
  kind,       \* of each code: of an opening, or of a validation
  session,    \* the row of each code
  outdated,   \* codes older than UPLOAD_SESSION_TTL_MINUTES
  sent,       \* upload_session_files
  request,    \* progress of each upload
  window,     \* the dialog of each code, and the status it last received
  poll,       \* the answer on its way to each dialog, or None
  seen,       \* files handed to the form or to the page
  deleting,   \* DELETE requests on their way
  page,       \* what each phone believes is still to be sent, or None
  batch,      \* files each phone has yet to send
  video,      \* the validation video of the item, or None
  attachable, \* the item is in VALIDATION_VIDEO_STAGES, of an open RMA
  ownerOk     \* the account is active and may still upload

mobileVars == << kind, session, outdated, sent, request, window, poll, seen, deleting,
                 page, batch, video, attachable, ownerOk >>
computer == << window, poll, seen, deleting >>
phones == << page, batch >>
world == << kind, video, attachable, ownerOk >>
mobileAll == << fileVars, mobileVars >>

MOBILE_UPLOAD_MEDIA == {"foto", "video"}

\* The purposes a kind of session accepts.
accepts(k, media) == k = "abertura" \/ media = "video"

ASSUME MobileConstantsAssumption ==
  /\ OpeningLimit \in [MOBILE_UPLOAD_MEDIA -> Nat]
  /\ CodeOf \in [Files -> Sessions]
  /\ MediaOf \in [Files -> MOBILE_UPLOAD_MEDIA]
  /\ None \notin Files \union Sessions

MobileInit ==
  /\ FilesInit
  /\ kind \in [Sessions -> {"abertura", "validacao"}]
  /\ session = [s \in Sessions |-> "nenhuma"]
  /\ outdated = {}
  /\ sent = [s \in Sessions |-> {}]
  /\ request = [f \in Files |-> "nova"]
  /\ window = [s \in Sessions |-> "nenhuma"]
  /\ poll = [s \in Sessions |-> None]
  /\ seen = {}
  /\ deleting = {}
  /\ page = [p \in Phones |-> None]
  /\ batch = [p \in Phones |-> {}]
  /\ video = None
  /\ attachable = TRUE
  /\ ownerOk = TRUE

For(s) == { f \in Files : CodeOf[f] = s }

sessionStatus(s) ==
  CASE session[s] = "encerrada" -> "encerrada"
    [] session[s] = "aberta" /\ s \in outdated -> "expirada"
    [] OTHER -> session[s]

isOpen(s) == sessionStatus(s) = "aberta"

limitOf(s) ==
  IF kind[s] = "abertura" THEN OpeningLimit
  ELSE [m \in MOBILE_UPLOAD_MEDIA |-> IF m = "video" THEN 1 ELSE 0]

remainingOf(s, files) ==
  [m \in MOBILE_UPLOAD_MEDIA |->
    LET count == Cardinality({ f \in files : MediaOf[f] = m })
    IN  IF count < limitOf(s)[m] THEN limitOf(s)[m] - count ELSE 0]

\* The row of the session is locked while an upload is being received.
locked(s) == \E f \in For(s) : request[f] = "bloqueou"

Showing == {"aguardando", "aberta", "encerrada", "expirada"}

-----------------------------------------------------------------------------
(* The computer.                                                           *)

ClickSend(s) ==
  /\ window[s] = "nenhuma"
  /\ window' = [window EXCEPT ![s] = "gerando"]
  /\ UNCHANGED << fileVars, session, outdated, sent, request, poll, seen, deleting, phones, world >>

\* A validation code needs the item in the stage of its video.
mayCreate(s) == ownerOk /\ (kind[s] = "validacao" => attachable)

\* A refusal leaves the dialog with its error.
Create(s) ==
  /\ window[s] \in {"gerando", "fechada"} /\ session[s] = "nenhuma"
  /\ mayCreate(s)
  /\ session' = [session EXCEPT ![s] = "aberta"]
  /\ window' = [window EXCEPT ![s] = IF @ = "gerando" THEN "aguardando" ELSE @]
  /\ UNCHANGED << fileVars, outdated, sent, request, poll, seen, deleting, phones, world >>

viewOf(s) == [status |-> sessionStatus(s), files |-> sent[s]]

\* Mutant: the dialog asks once, and waits for the answer to change.
Ask_Once(s) ==
  /\ window[s] = "aguardando" /\ poll[s] = None
  /\ poll' = [poll EXCEPT ![s] = viewOf(s)]
  /\ UNCHANGED << fileVars, session, outdated, sent, request, window, seen, deleting, phones, world >>

\* Every SESSION_REFRESH_MS, until the code is no longer open.
Ask(s) ==
  /\ window[s] \in {"aguardando", "aberta"} /\ poll[s] = None
  /\ poll' = [poll EXCEPT ![s] = viewOf(s)]
  /\ UNCHANGED << fileVars, session, outdated, sent, request, window, seen, deleting, phones, world >>

\* The answer is used even when the dialog was closed meanwhile.
Answer(s) ==
  /\ poll[s] # None
  /\ seen' = seen \union poll[s].files
  /\ window' = [window EXCEPT ![s] = IF @ \in Showing THEN poll[s].status ELSE @]
  /\ poll' = [poll EXCEPT ![s] = None]
  /\ UNCHANGED << fileVars, session, outdated, sent, request, deleting, phones, world >>

AnswerLost(s) ==
  /\ poll[s] # None
  /\ poll' = [poll EXCEPT ![s] = None]
  /\ UNCHANGED << fileVars, session, outdated, sent, request, window, seen, deleting, phones, world >>

\* Only a code the dialog knows to be open is closed with it.
CloseWindow(s) ==
  /\ window[s] \in Showing \union {"gerando"}
  /\ deleting' = IF window[s] = "aberta" THEN deleting \union {s} ELSE deleting
  /\ window' = [window EXCEPT ![s] = "fechada"]
  /\ UNCHANGED << fileVars, session, outdated, sent, request, poll, seen, phones, world >>

\* Mutant: the row is closed without waiting for the upload that holds it.
CloseSession_NoWait(s) ==
  /\ s \in deleting
  /\ session' = [session EXCEPT ![s] = "encerrada"]
  /\ deleting' = deleting \ {s}
  /\ UNCHANGED << fileVars, outdated, sent, request, window, poll, seen, phones, world >>

CloseSession(s) ==
  /\ s \in deleting /\ ~locked(s)
  /\ session' = [session EXCEPT ![s] = "encerrada"]
  /\ deleting' = deleting \ {s}
  /\ UNCHANGED << fileVars, outdated, sent, request, window, poll, seen, phones, world >>

\* A DELETE that does not arrive is not repeated.
CloseLost(s) ==
  /\ s \in deleting
  /\ deleting' = deleting \ {s}
  /\ UNCHANGED << fileVars, session, outdated, sent, request, window, poll, seen, phones, world >>

-----------------------------------------------------------------------------
(* The phone.                                                              *)

sending(p) == { f \in batch[p] : request[f] # "nova" }

\* Opening the link, and every refresh of the page.
Describe(p, s) ==
  /\ window[s] # "gerando" /\ isOpen(s)
  /\ page[p] # None => page[p].session = s
  /\ page' = [page EXCEPT ![p] = [session |-> s, remaining |-> remainingOf(s, sent[s])]]
  /\ UNCHANGED << fileVars, session, outdated, sent, request, computer, batch, world >>

\* A button for each medium there is room for, while nothing is being sent.
canPick(p, m) == page[p] # None /\ batch[p] = {} /\ page[p].remaining[m] > 0

\* Files picked on the phone, no more than the page believes there is room for.
Pick(p, files) ==
  /\ files # {}
  /\ \A f \in files : request[f] = "nova" /\ \A q \in Phones : f \notin batch[q]
  /\ \E m \in MOBILE_UPLOAD_MEDIA :
       /\ canPick(p, m)
       /\ \A f \in files : MediaOf[f] = m /\ CodeOf[f] = page[p].session
       /\ Cardinality(files) <= page[p].remaining[m]
  /\ batch' = [batch EXCEPT ![p] = files]
  /\ UNCHANGED << fileVars, session, outdated, sent, request, computer, page, world >>

\* One at a time: the next one after the answer to the last.
Send(p, f) ==
  /\ f \in batch[p] /\ sending(p) = {}
  /\ request' = [request EXCEPT ![f] = "pediu"]
  /\ UNCHANGED << fileVars, session, outdated, sent, computer, phones, world >>

\* The request ends.  A view that arrives refreshes the page; an error, or an
\* answer that is lost, leaves it as it was.
Respond(f, last, ok) ==
  /\ request' = [request EXCEPT ![f] = last]
  /\ LET p == CHOOSE q \in Phones : f \in batch[q]
     IN  /\ batch' = [batch EXCEPT ![p] = @ \ {f}]
         /\ \/ page' = page
            \/ ok /\ page' = [page EXCEPT ![p].remaining =
                                remainingOf(CodeOf[f], sent[CodeOf[f]])]

-----------------------------------------------------------------------------
(* MobileUploadsService.upload.                                            *)

mayReceive(s, media) ==
  /\ isOpen(s) /\ accepts(kind[s], media)
  /\ remainingOf(s, sent[s])[media] > 0
  /\ ownerOk

\* Mutant: the session is read without its lock.
LockSession_Shared(f) ==
  LET s == CodeOf[f]
  IN  /\ request[f] = "pediu"
      /\ IF mayReceive(s, MediaOf[f])
           THEN request' = [request EXCEPT ![f] = "bloqueou"] /\ UNCHANGED phones
           ELSE Respond(f, "recusada", FALSE)
      /\ UNCHANGED << fileVars, session, outdated, sent, computer, world >>

LockSession(f) ==
  LET s == CodeOf[f]
  IN  /\ request[f] = "pediu" /\ ~locked(s)
      /\ IF mayReceive(s, MediaOf[f])
           THEN request' = [request EXCEPT ![f] = "bloqueou"] /\ UNCHANGED phones
           ELSE Respond(f, "recusada", FALSE)
      /\ UNCHANGED << fileVars, session, outdated, sent, computer, world >>

Store(f) ==
  /\ request[f] = "bloqueou"
  /\ Put(f)
  /\ UNCHANGED mobileVars

QuotaRefuses(f) ==
  /\ request[f] = "bloqueou" /\ upload[f] = "nova" /\ quotaReached
  /\ Respond(f, "recusada", FALSE)
  /\ UNCHANGED << fileVars, session, outdated, sent, computer, world >>

\* The rows of the file and of the session commit together.
Receive(f) ==
  /\ request[f] = "bloqueou"
  /\ InsertFile(f)
  /\ sent' = [sent EXCEPT ![CodeOf[f]] = @ \union {f}]
  /\ request' = [request EXCEPT ![f] = "recebida"]
  /\ UNCHANGED << session, outdated, computer, phones, world >>

\* The insert of the file fails, and its content is discarded before the
\* transaction ends; ...
InsertRefused(f) ==
  /\ request[f] = "bloqueou"
  /\ InsertFails(f)
  /\ UNCHANGED mobileVars

DiscardRefused(f) ==
  /\ request[f] = "bloqueou"
  /\ Discard(f)
  /\ Respond(f, "recusada", FALSE)
  /\ UNCHANGED << session, outdated, sent, computer, world >>

\* ... a transaction that fails later leaves the content without a row.
Rollback(f) ==
  /\ request[f] = "bloqueou" /\ upload[f] = "gravou"
  /\ upload' = [upload EXCEPT ![f] = "concluida"]
  /\ Respond(f, "recusada", FALSE)
  /\ UNCHANGED << row, expired, content, discarding, session, outdated, sent, computer, world >>

\* The answer carries the session as it is now.
AnswerOpening(f) ==
  /\ request[f] = "recebida" /\ kind[CodeOf[f]] = "abertura"
  /\ Respond(f, "aceita", TRUE)
  /\ UNCHANGED << fileVars, session, outdated, sent, computer, world >>

\* attachValidationVideo, under the lock of the RMA: the new video replaces
\* the one before it, or the upload will be undone.
Attach(f) ==
  /\ request[f] = "recebida" /\ kind[CodeOf[f]] = "validacao"
  /\ \/ /\ attachable /\ f \in Temporary
        /\ row' = [row EXCEPT ![f] = "vinculado"]
        /\ video' = f
        /\ request' = [request EXCEPT ![f] = "anexada"]
     \/ /\ request' = [request EXCEPT ![f] = "desfaz"]
        /\ UNCHANGED << row, video >>
  /\ UNCHANGED << expired, content, upload, discarding, session, outdated, sent, computer,
                  phones, kind, attachable, ownerOk >>

\* The row of the session is removed, or that fails too.
Undo(f) ==
  /\ request[f] = "desfaz"
  /\ \/ sent' = [sent EXCEPT ![CodeOf[f]] = @ \ {f}] /\ Respond(f, "recusada", FALSE)
     \/ sent' = sent /\ Respond(f, "parada", FALSE)
  /\ UNCHANGED << fileVars, session, outdated, computer, world >>

\* The video is attached: the code ends, or the request fails with it open.
EndSession(f) ==
  /\ request[f] = "anexada" /\ ~locked(CodeOf[f])
  /\ \/ session' = [session EXCEPT ![CodeOf[f]] = "encerrada"] /\ Respond(f, "aceita", TRUE)
     \/ session' = session /\ Respond(f, "parada", FALSE)
  /\ UNCHANGED << fileVars, outdated, sent, computer, world >>

-----------------------------------------------------------------------------
(* What happens around them.                                               *)

Outdate(s) ==
  /\ session[s] # "nenhuma" /\ s \notin outdated
  /\ outdated' = outdated \union {s}
  /\ UNCHANGED << fileVars, session, sent, request, computer, phones, world >>

\* The item moves, its RMA is closed, or it comes back to the stage.
MoveItem ==
  /\ \E s \in Sessions : kind[s] = "validacao"
  /\ attachable' = ~attachable
  /\ UNCHANGED << fileVars, session, outdated, sent, request, computer, phones, kind, video, ownerOk >>

\* The account is disabled, or loses the permission.
LoseOwner ==
  /\ ownerOk
  /\ ownerOk' = FALSE
  /\ UNCHANGED << fileVars, session, outdated, sent, request, computer, phones, kind, video, attachable >>

InProgress == {"pediu", "bloqueou", "recebida", "anexada", "desfaz"}

\* A file is abandoned FILES_TEMP_TTL_HOURS after it came, long after its code
\* expired and the requests of its code ended.
Abandon(f) ==
  LET s == CodeOf[f]
  IN  /\ s \in outdated \ deleting /\ poll[s] = None
      /\ \A g \in For(s) : request[g] \notin InProgress /\ \A p \in Phones : g \notin batch[p]
      /\ Expires(f)
      /\ UNCHANGED mobileVars

\* The rows of the session go with the files (on delete cascade).
Clean ==
  /\ RemoveExpired({})
  /\ sent' = [s \in Sessions |-> sent[s] \ abandoned]
  /\ UNCHANGED << session, outdated, request, computer, phones, world >>

CleanContent(f) == DiscardExpired(f) /\ UNCHANGED mobileVars

\* The API stops: its requests fail where they were.
MobileRestart ==
  /\ StopFiles
  /\ request' = [f \in Files |-> IF request[f] \in InProgress THEN "parada" ELSE request[f]]
  /\ batch' = [p \in Phones |-> { f \in batch[p] : request[f] = "nova" }]
  /\ poll' = [s \in Sessions |-> None]
  /\ deleting' = {}
  /\ UNCHANGED << session, outdated, sent, window, seen, page, world >>

-----------------------------------------------------------------------------

Computer(s) ==
  \/ ClickSend(s) \/ Create(s) \/ Ask(s) \/ Answer(s) \/ AnswerLost(s)
  \/ CloseWindow(s) \/ CloseSession(s) \/ CloseLost(s) \/ Outdate(s)

Phone(p) ==
  \/ \E s \in Sessions : Describe(p, s)
  \/ \E files \in SUBSET Files : Pick(p, files)
  \/ \E f \in Files : Send(p, f)

Upload(f) ==
  \/ LockSession(f) \/ Store(f) \/ QuotaRefuses(f) \/ Receive(f) \/ InsertRefused(f)
  \/ DiscardRefused(f) \/ Rollback(f) \/ AnswerOpening(f) \/ Attach(f) \/ Undo(f) \/ EndSession(f)

MobileNext ==
  \/ \E s \in Sessions : Computer(s)
  \/ \E p \in Phones : Phone(p)
  \/ \E f \in Files : Upload(f) \/ Abandon(f) \/ CleanContent(f)
  \/ MoveItem \/ LoseOwner \/ Clean \/ MobileRestart

\* The browser keeps asking, and answers do not get lost for ever.
Fairness == \A s \in Sessions : WF_mobileAll(Ask(s)) /\ SF_mobileAll(Answer(s))

MobileSpec == MobileInit /\ [][MobileNext]_mobileAll /\ Fairness

-----------------------------------------------------------------------------
(* Properties.                                                             *)

\* A code never has more photos or videos than the computer asked for, however
\* many phones send at once; a validation code attaches at most one video, and
\* what it counts as sent is attached or being attached: a video that could not
\* be attached leaves room for another try, unless the process stopped before
\* it was undone.
LimitHolds ==
  /\ \A s \in Sessions : \A m \in MOBILE_UPLOAD_MEDIA :
       Cardinality({ f \in sent[s] : MediaOf[f] = m }) <= limitOf(s)[m]
  /\ \A s \in Sessions : kind[s] = "validacao" =>
       /\ Cardinality({ f \in For(s) : row[f] = "vinculado" }) <= 1
       /\ \A f \in sent[s] :
            row[f] = "vinculado" \/ request[f] \in {"recebida", "desfaz", "parada"}

\* From the moment the code is closed nothing more arrives through it, not even
\* what was being received when the window was closed.
ClosedTakesNothing ==
  [][\A s \in Sessions : session[s] = "encerrada" => sent'[s] \subseteq sent[s]]_mobileAll

\* What arrives while the window is open reaches the form, unless it is undone,
\* or the code ends or the window is closed before the next answer.
ReceivedIsShown ==
  \A f \in Files :
    LET s == CodeOf[f]
        waiting == f \in sent[s] /\ isOpen(s) /\ window[s] \in {"aguardando", "aberta"}
    IN  waiting ~> f \in seen \/ ~waiting

=============================================================================
