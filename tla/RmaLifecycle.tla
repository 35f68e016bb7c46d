---------------------------- MODULE RmaLifecycle ----------------------------
(***************************************************************************)
(* The life of the RMAs as the committed rows of the database show it:     *)
(* every operation of the API is one step, the transaction it commits.     *)
(* How concurrent transactions come to look like this is the subject of    *)
(* RmaRequests, which implements this module.                              *)
(*                                                                         *)
(* An instant column (received_at, sla_started_at, ...) is kept as whether *)
(* it is set; the row count of the two logistics tables is kept per item.  *)
(* Names, texts, photos, documents and notices are left out.               *)
(***************************************************************************)
EXTENDS RmaStages, Naturals

CONSTANTS
  Rmas,        \* identities of RMAs, opened or not yet
  Items,       \* identities of items
  RmaOf,       \* the RMA of each item
  Staff,       \* accounts that can answer for an RMA
  Priorities,  \* RMA_PRIORITIES
  SlaHours,    \* values RMA_SLA_HOURS is configured with
  None         \* SQL's null

ASSUME RmaOfAssumption == RmaOf \in [Items -> Rmas]
ASSUME NoneAssumption  == None \notin SlaHours /\ None \notin Staff
ASSUME PriorityAssumption == "normal" \in Priorities

VARIABLES
  rmas,        \* table rmas
  items,       \* table rma_items, with what the tables keyed by item say of it
  envSlaHours  \* RMA_SLA_HOURS of the running deployment

vars == << rmas, items, envSlaHours >>

Origins == { "nenhuma", "cliente", "equipe", "legado" }

RmaRow ==
  [ origin      : Origins,              \* "nenhuma": no such row yet
    closedAt    : BOOLEAN,
    cancelledAt : BOOLEAN,
    assignee    : Staff \union {None},
    priority    : Priorities,
    returning   : SUBSET Items ]        \* what the cancellation note lists

ItemRow ==
  [ stage         : RMA_ITEM_STAGES,
    receivedAt    : BOOLEAN,
    slaStartedAt  : BOOLEAN,
    slaHours      : SlaHours \union {None},
    slaFinishedAt : BOOLEAN,
    video         : BOOLEAN,            \* a row of rma_validation_videos
    shipments     : Nat,                \* rows of rma_shipment_items
    receipts      : Nat ]               \* rows of rma_receipt_items

NoRma ==
  [ origin |-> "nenhuma", closedAt |-> FALSE, cancelledAt |-> FALSE,
    assignee |-> None, priority |-> "normal", returning |-> {} ]

NewItem ==
  [ stage |-> "aguardando_envio", receivedAt |-> FALSE,
    slaStartedAt |-> FALSE, slaHours |-> None, slaFinishedAt |-> FALSE,
    video |-> FALSE, shipments |-> 0, receipts |-> 0 ]

Exists(r) == rmas[r].origin # "nenhuma"
OfRma(r)  == { i \in Items : RmaOf[i] = r }

\* Items chosen for an operation: at least one, without repetition.
Selections == (SUBSET Items) \ {{}}

Init ==
  /\ rmas = [r \in Rmas |-> NoRma]
  /\ items = [i \in Items |-> NewItem]
  /\ envSlaHours \in SlaHours

-----------------------------------------------------------------------------
(* Opening.                                                                *)

\* The item of an opening by the team: received and in diagnosis at once.
factoryEntry ==
  [ NewItem EXCEPT !.stage = STAFF_OPENING_STAGE, !.receivedAt = TRUE,
                   !.slaStartedAt = TRUE, !.slaHours = envSlaHours,
                   !.receipts = 1 ]

Open(r, origin, entry) ==
  /\ ~Exists(r)
  /\ OfRma(r) # {}
  /\ rmas' = [rmas EXCEPT ![r].origin = origin]
  /\ items' = [i \in Items |-> IF RmaOf[i] = r THEN entry ELSE items[i]]
  /\ UNCHANGED envSlaHours

OpenByCustomer(r) == Open(r, "cliente", NewItem)

OpenByStaff(r) == Open(r, "equipe", factoryEntry)

\* STAGE_BY_LEGACY_STATUS: the legacy system had five situations.
LegacyStages ==
  { "aguardando_envio", "recebido", "aguardando_aprovacao", "testes", "finalizado" }

\* itemDatesOf and the logistics rows the import writes with the item.
importedItem(stage, shipped) ==
  LET arrived == stage \notin BEFORE_RECEIPT_STAGES
      started == arrived /\ stage # "recebido"
  IN  [ stage         |-> stage,
        receivedAt    |-> arrived,
        slaStartedAt  |-> started,
        slaHours      |-> IF started THEN envSlaHours ELSE None,
        slaFinishedAt |-> stage \in SLA_FINISHED_STAGES,
        video         |-> FALSE,
        shipments     |-> IF shipped /\ stage # "aguardando_envio" THEN 1 ELSE 0,
        receipts      |-> IF arrived THEN 1 ELSE 0 ]

\* A ticket of the legacy system enters as it was: its own closed state, and
\* each equipment in the stage of its situation.
Import(r, stageOf, shipped, closed, assignee) ==
  /\ ~Exists(r)
  /\ rmas' = [rmas EXCEPT ![r].origin = "legado", ![r].closedAt = closed,
                          ![r].assignee = assignee]
  /\ items' = [i \in Items |-> IF RmaOf[i] = r THEN importedItem(stageOf[i], shipped)
                                               ELSE items[i]]
  /\ UNCHANGED envSlaHours

-----------------------------------------------------------------------------
(* Movements of the items.  Every one of them locks the RMA and is all or  *)
(* nothing: ensureAllMoved undoes it unless each item chosen was eligible. *)

\* Mutant: only a cancelled RMA is refused.
lockOpenRma_Uncancelled(r) == Exists(r) /\ ~rmas[r].cancelledAt

lockOpenRma(r) == Exists(r) /\ ~rmas[r].cancelledAt /\ ~rmas[r].closedAt

ShippableItems(r) == { i \in OfRma(r) : items[i].stage \in SHIPPABLE_STAGES }

Shipped(row) == [row EXCEPT !.stage = "enviado", !.shipments = @ + 1]

ConfirmShipment(r, sel) ==
  /\ lockOpenRma(r)
  /\ sel \subseteq ShippableItems(r)
  /\ items' = [i \in Items |-> IF i \in sel THEN Shipped(items[i]) ELSE items[i]]
  /\ UNCHANGED << rmas, envSlaHours >>

\* Mutant: the receipt accepts equipment whose shipment was never confirmed.
ReceivableItems_Unshipped(r) ==
  { i \in OfRma(r) : ~items[i].receivedAt /\ items[i].stage \in BEFORE_RECEIPT_STAGES }

ReceivableItems(r) ==
  { i \in OfRma(r) : ~items[i].receivedAt /\ items[i].stage \in RECEIVABLE_STAGES }

Received(row) ==
  [row EXCEPT !.stage = "recebido", !.receivedAt = TRUE, !.receipts = @ + 1]

RegisterReceipt(r, sel) ==
  /\ lockOpenRma(r)
  /\ sel \subseteq ReceivableItems(r)
  /\ items' = [i \in Items |-> IF i \in sel THEN Received(items[i]) ELSE items[i]]
  /\ UNCHANGED << rmas, envSlaHours >>

ChangeableItems(r, to) ==
  { i \in OfRma(r) : items[i].stage \in stagesChangeableTo(to) }

\* Mutant: the return leaves the deadline running.
slaChange_NeverFinishes(row, to) ==
  [row EXCEPT !.slaStartedAt  = @ \/ to = SLA_START_STAGE,
              !.slaHours      = IF to = SLA_START_STAGE THEN envSlaHours ELSE @]

\* slaChange: the diagnosis starts the deadline with the hours configured at
\* that moment, the return ends it.
slaChange(row, to) ==
  [row EXCEPT !.slaStartedAt  = @ \/ to = SLA_START_STAGE,
              !.slaHours      = IF to = SLA_START_STAGE THEN envSlaHours ELSE @,
              !.slaFinishedAt = @ \/ to = SLA_END_STAGE]

Changed(row, to) == [slaChange(row, to) EXCEPT !.stage = to]

\* Mutant: equipment on its way back counts as delivered.
closeIfAllDelivered_OnDespatch(r, now) ==
  [rmas[r] EXCEPT !.closedAt = @ \/ \A i \in OfRma(r) : now[i].stage \in SLA_FINISHED_STAGES]

\* The row of the RMA once the items are as in `now`.
closeIfAllDelivered(r, now) ==
  [rmas[r] EXCEPT !.closedAt = @ \/ \A i \in OfRma(r) : now[i].stage = "finalizado"]

\* Mutant: one video among the items of the selection is enough.
ensureValidationVideos_AnyOf(sel, to) ==
  requiresValidationVideo(to) => \E i \in sel : items[i].video

ensureValidationVideos(sel, to) ==
  requiresValidationVideo(to) => \A i \in sel : items[i].video

ChangeStage(r, sel, to) ==
  /\ lockOpenRma(r)
  /\ ensureValidationVideos(sel, to)
  /\ sel \subseteq ChangeableItems(r, to)
  /\ items' = [i \in Items |-> IF i \in sel THEN Changed(items[i], to) ELSE items[i]]
  /\ rmas' = IF to = "finalizado"
               THEN [rmas EXCEPT ![r] = closeIfAllDelivered(r, items')]
               ELSE rmas
  /\ UNCHANGED envSlaHours

\* A new video takes the place of the item's previous one.
AttachVideo(r, i) ==
  /\ lockOpenRma(r)
  /\ i \in OfRma(r)
  /\ items[i].stage \in VALIDATION_VIDEO_STAGES
  /\ items' = [items EXCEPT ![i].video = TRUE]
  /\ UNCHANGED << rmas, envSlaHours >>

-----------------------------------------------------------------------------
(* Management of the RMA.                                                  *)

\* `expected` is the assignee the person saw on the screen.
Assign(r, expected, assignee) ==
  /\ lockOpenRma(r)
  /\ rmas[r].assignee = expected
  /\ rmas[r].assignee # assignee
  /\ rmas' = [rmas EXCEPT ![r].assignee = assignee]
  /\ UNCHANGED << items, envSlaHours >>

ChangePriority(r, priority) ==
  /\ lockOpenRma(r)
  /\ rmas[r].priority # priority
  /\ rmas' = [rmas EXCEPT ![r].priority = priority]
  /\ UNCHANGED << items, envSlaHours >>

\* Mutant: equipment still on its way to the factory is listed too.
itemsToReturn_OnTheWay(r) ==
  { i \in OfRma(r) : items[i].stage \notin SHIPPABLE_STAGES }

itemsToReturn(r) == { i \in OfRma(r) : items[i].stage \notin BEFORE_RECEIPT_STAGES }

Cancelled(r) ==
  [rmas[r] EXCEPT !.cancelledAt = TRUE, !.closedAt = TRUE, !.returning = itemsToReturn(r)]

Cancel(r) ==
  /\ lockOpenRma(r)
  /\ isCancellable({ items[i].stage : i \in OfRma(r) })
  /\ rmas' = [rmas EXCEPT ![r] = Cancelled(r)]
  /\ UNCHANGED << items, envSlaHours >>

\* A deployment with another RMA_SLA_HOURS.
Configure(hours) ==
  /\ envSlaHours' = hours
  /\ UNCHANGED << rmas, items >>

-----------------------------------------------------------------------------

\* What the import brings in, apart from the rest: an installation that
\* migrates nothing never takes these steps.
ImportStep ==
  \E r \in Rmas, shipped, closed \in BOOLEAN, assignee \in Staff \union {None} :
    \E stageOf \in [OfRma(r) -> LegacyStages] :
      Import(r, stageOf, shipped, closed, assignee)

Operate(r) ==
  \/ OpenByCustomer(r)
  \/ OpenByStaff(r)
  \/ \E sel \in Selections : ConfirmShipment(r, sel)
  \/ \E sel \in Selections : RegisterReceipt(r, sel)
  \/ \E sel \in Selections, to \in RMA_ITEM_STAGES : ChangeStage(r, sel, to)
  \/ \E i \in Items : AttachVideo(r, i)
  \/ \E expected, assignee \in Staff \union {None} : Assign(r, expected, assignee)
  \/ \E priority \in Priorities : ChangePriority(r, priority)
  \/ Cancel(r)

Next ==
  \/ \E r \in Rmas : Operate(r)
  \/ ImportStep
  \/ \E hours \in SlaHours : Configure(hours)

Spec == Init /\ [][Next]_vars

-----------------------------------------------------------------------------
(* Properties.                                                             *)

\* Every row has the shape of its table; an item of an RMA that does not
\* exist yet is a blank row.
TypeOK ==
  /\ rmas \in [Rmas -> RmaRow]
  /\ items \in [Items -> ItemRow]
  /\ envSlaHours \in SlaHours

\* The CHECK constraints of rma_items and rmas never reject what a service
\* accepted: whatever sequence of operations led here, no stage is reached
\* without the dates it needs, and none keeps a date it must not have.
ItemChecks(row) ==
  /\ row.stage \in {"aguardando_envio", "enviado"} \/ row.receivedAt
  /\ row.slaStartedAt <=> row.slaHours # None
  /\ row.stage \in {"aguardando_envio", "enviado", "recebido"} \/ row.slaStartedAt
  /\ row.slaFinishedAt <=> row.stage \in {"devolucao", "finalizado"}

ChecksHold ==
  /\ \A i \in Items : ItemChecks(items[i])
  /\ \A r \in Rmas : rmas[r].cancelledAt => rmas[r].closedAt

\* The unique indexes of the logistics tables never fire either (CA16): an
\* item is shipped at most once, received exactly once if it arrived at all,
\* and one the customer's RMA has seen leave has its shipment.
LogisticsAddUp ==
  \A i \in Items :
    /\ items[i].shipments \in {0, 1}
    /\ items[i].receipts = IF items[i].receivedAt THEN 1 ELSE 0
    /\ rmas[RmaOf[i]].origin = "cliente" =>
         items[i].shipments = IF items[i].stage = "aguardando_envio" THEN 0 ELSE 1

\* No equipment is on its way back without the video that proves it works,
\* and none is delivered without it unless the legacy system delivered it.
VideoBeforeReturn ==
  \A i \in Items :
    \/ items[i].stage \notin SLA_FINISHED_STAGES
    \/ items[i].video
    \/ rmas[RmaOf[i]].origin = "legado" /\ items[i].stage = "finalizado"

\* An RMA closes by itself exactly when its last item is delivered, whatever
\* the order in which items go, and is cancelled only before the first one
\* leaves.  Legacy tickets keep the state they came with.
AllDelivered(r) == \A i \in OfRma(r) : items[i].stage = "finalizado"

ClosesByItself ==
  \A r \in Rmas : rmas[r].origin \in {"cliente", "equipe"} =>
    /\ rmas[r].closedAt <=> rmas[r].cancelledAt \/ AllDelivered(r)
    /\ rmas[r].cancelledAt =>
         \A i \in OfRma(r) : items[i].stage \notin SLA_FINISHED_STAGES

\* The note and the e-mail of a cancellation name exactly the equipment that
\* physically arrived: the list is computed from stages, arrival is a date.
ReturnListIsWhatArrived ==
  \A r \in Rmas : rmas[r].cancelledAt =>
    rmas[r].returning = { i \in OfRma(r) : items[i].receivedAt }

\* A closed RMA does not change any more, nor do its items, not even through
\* an operation on another RMA that selects one of them.
ClosedIsFrozen ==
  [][ \A r \in Rmas : rmas[r].closedAt =>
        /\ rmas'[r] = rmas[r]
        /\ \A i \in OfRma(r) : items'[i] = items[i] ]_vars

\* The deadline an item was given is never given again, and neither a later
\* step nor a new configuration changes its hours (CA15).
DeadlineIsFixed ==
  [][ \A i \in Items : items[i].slaStartedAt =>
        /\ items'[i].slaStartedAt
        /\ items'[i].slaHours = items[i].slaHours
        /\ items[i].slaFinishedAt => items'[i].slaFinishedAt ]_vars

-----------------------------------------------------------------------------
(* The promise RmaLifecycle keeps, and what of its state each part is.     *)

outcomeOf(row) ==
  IF row.origin = "nenhuma" THEN "inexistente"
  ELSE IF row.cancelledAt THEN "cancelado"
  ELSE IF row.closedAt THEN "encerrado" ELSE "aberto"

placeOf(row) ==
  CASE row.stage = "aguardando_envio" -> "cliente"
    [] row.stage = "enviado"          -> "a_caminho"
    [] row.stage = "devolucao"        -> "despachado"
    [] row.stage = "finalizado"       -> "entregue"
    [] OTHER                          -> "fabrica"

clockOf(row) ==
  IF row.slaFinishedAt THEN "terminado"
  ELSE IF row.slaStartedAt THEN "correndo" ELSE "parado"

outcome == [r \in Rmas |-> outcomeOf(rmas[r])]
place   == [i \in Items |-> placeOf(items[i])]
clock   == [i \in Items |-> clockOf(items[i])]

Promise == INSTANCE RmaPromise
             WITH outcome <- outcome, place <- place, clock <- clock

\* Every operation keeps the promise: equipment goes from the customer to the
\* factory and back without skipping or returning, its deadline runs from the
\* diagnosis to the despatch, and the RMA ends when the promise says so.
KeepsPromise == Promise!Spec

=============================================================================
