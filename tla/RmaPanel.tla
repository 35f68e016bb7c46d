------------------------------ MODULE RmaPanel ------------------------------
(***************************************************************************)
(* What the API answers and the pages show of the RMAs while RmaLifecycle  *)
(* goes on and time passes: the state of each deadline, the queue of what  *)
(* asks for attention, the actions each page offers to each role, and the  *)
(* date of the last movement.  To the rows of RmaLifecycle it adds the     *)
(* instants those keep as set or not; a query reads one committed state.   *)
(***************************************************************************)
EXTENDS RmaLifecycle, FiniteSetsExt

CONSTANTS
  MaxHour,             \* bound on the time that passes
  SLA_DUE_SOON_HOURS,  \* how long before its end a deadline asks for attention
  Roles                \* roles of the accounts that look at the RMAs

ASSUME PanelAssumption ==
  /\ SLA_DUE_SOON_HOURS \in Nat /\ SlaHours \subseteq Nat \ {0}
  /\ None \notin Nat \union [status : {"atrasado", "vence_em_breve", "no_prazo"}, dueAt : Nat]

VARIABLES
  now,         \* hours since the beginning
  startedAt,   \* rma_items.sla_started_at, where slaStartedAt says it is set
  finishedAt,  \* rma_items.sla_finished_at, likewise
  updatedAt,   \* rmas.updated_at
  notes        \* rows of rma_internal_notes of each RMA

panelVars == << startedAt, finishedAt, updatedAt, notes >>
panelAll == << vars, now, panelVars >>

PanelInit ==
  /\ Init
  /\ now = 0
  /\ startedAt = [i \in Items |-> 0]
  /\ finishedAt = [i \in Items |-> 0]
  /\ updatedAt = [r \in Rmas |-> 0]
  /\ notes = [r \in Rmas |-> 0]

-----------------------------------------------------------------------------
(* The operations of RmaLifecycle, with the instants they write.           *)

Stamp ==
  /\ startedAt' = [i \in Items |->
       IF items'[i].slaStartedAt /\ ~items[i].slaStartedAt THEN now ELSE startedAt[i]]
  /\ finishedAt' = [i \in Items |->
       IF items'[i].slaFinishedAt /\ ~items[i].slaFinishedAt THEN now ELSE finishedAt[i]]

\* Mutant: the movement of an item leaves the row of its RMA as it was.
touchRma_Nothing(r) == updatedAt' = updatedAt

touchRma(r) == updatedAt' = [updatedAt EXCEPT ![r] = now]

\* An opening and a movement both leave the date of the moment, the first by
\* the default of the column.
Move(r) ==
  /\ \/ OpenByCustomer(r)
     \/ OpenByStaff(r)
     \/ \E sel \in Selections : ConfirmShipment(r, sel)
     \/ \E sel \in Selections : RegisterReceipt(r, sel)
     \/ \E sel \in Selections, to \in RMA_ITEM_STAGES : ChangeStage(r, sel, to)
     \/ \E i \in Items : AttachVideo(r, i)
  /\ Stamp
  /\ touchRma(r)
  /\ UNCHANGED << now, notes >>

\* An update of the row moves its date by itself ($onUpdate).
onUpdate(r) == updatedAt' = [updatedAt EXCEPT ![r] = now]

Manage(r) ==
  /\ \/ \E expected, assignee \in Staff \union {None} : Assign(r, expected, assignee)
     \/ \E priority \in Priorities : ChangePriority(r, priority)
  /\ onUpdate(r)
  /\ UNCHANGED << now, startedAt, finishedAt, notes >>

CancelWithNote(r) ==
  /\ Cancel(r)
  /\ onUpdate(r)
  /\ notes' = [notes EXCEPT ![r] = @ + 1]
  /\ UNCHANGED << now, startedAt, finishedAt >>

\* An imported ticket brings its own dates, of events that may be of any past
\* moment and in any order.  Bounds: two moments, the later steps sharing one;
\* a ticket whose equipment was shipped has the shipment.
ImportTicket(r) ==
  /\ \E closed \in BOOLEAN, assignee \in Staff \union {None} :
       \E stageOf \in [OfRma(r) -> LegacyStages] :
         Import(r, stageOf, TRUE, closed, assignee)
  /\ \E started, finished \in 0..now :
       /\ startedAt' = [i \in Items |->
            IF RmaOf[i] = r /\ items'[i].slaStartedAt THEN started ELSE startedAt[i]]
       /\ finishedAt' = [i \in Items |->
            IF RmaOf[i] = r /\ items'[i].slaFinishedAt THEN finished ELSE finishedAt[i]]
       /\ updatedAt' = [updatedAt EXCEPT ![r] = finished]
  /\ UNCHANGED << now, notes >>

\* Also after the RMA is closed.  Bound: one note written by hand per RMA.
AddNote(r) ==
  /\ Exists(r)
  /\ notes[r] = 0
  /\ notes' = [notes EXCEPT ![r] = @ + 1]
  /\ UNCHANGED << vars, now, startedAt, finishedAt, updatedAt >>

Deploy(hours) == Configure(hours) /\ UNCHANGED << now, panelVars >>

Tick ==
  /\ now < MaxHour
  /\ now' = now + 1
  /\ UNCHANGED << vars, panelVars >>

PanelNext ==
  \/ \E r \in Rmas : Move(r) \/ Manage(r) \/ CancelWithNote(r) \/ ImportTicket(r) \/ AddNote(r)
  \/ \E hours \in SlaHours : Deploy(hours)
  \/ Tick

PanelSpec == PanelInit /\ [][PanelNext]_panelAll

-----------------------------------------------------------------------------
(* The deadlines, as sla.ts computes them for every answer.                *)

\* Mutant: a deadline already ended is measured against the present.
itemSla_Running(i) ==
  LET dueAt == startedAt[i] + items[i].slaHours
  IN  IF ~items[i].slaStartedAt \/ items[i].slaHours = None
        THEN [status |-> "nao_iniciado", dueAt |-> None]
        ELSE [status |-> IF now > dueAt THEN "atrasado" ELSE "no_prazo", dueAt |-> dueAt]

itemSla(i) ==
  LET dueAt      == startedAt[i] + items[i].slaHours
      measuredAt == IF items[i].slaFinishedAt THEN finishedAt[i] ELSE now
  IN  IF ~items[i].slaStartedAt \/ items[i].slaHours = None
        THEN [status |-> "nao_iniciado", dueAt |-> None]
        ELSE [status |-> IF measuredAt > dueAt THEN "atrasado" ELSE "no_prazo",
              dueAt  |-> dueAt]

rmaSlaStatus(dueAt) ==
  IF dueAt < now THEN "atrasado"
  ELSE IF dueAt - now <= SLA_DUE_SOON_HOURS THEN "vence_em_breve" ELSE "no_prazo"

\* The deadline of the RMA is that of its item due first, among those not yet
\* on their way back; None without any.
rmaSla(r) ==
  LET dueTimes == { itemSla(i).dueAt : i \in
                      { j \in OfRma(r) : items[j].stage \notin SLA_FINISHED_STAGES } } \ {None}
  IN  IF dueTimes = {} THEN None
      ELSE [status |-> rmaSlaStatus(Min(dueTimes)), dueAt |-> Min(dueTimes)]

-----------------------------------------------------------------------------
(* The queue, as the database computes it in rma-filters.ts.               *)

\* Mutant: the item on its way back still counts for the queue.
nextDueAt_AnyStage(r) ==
  LET dueTimes == { startedAt[i] + items[i].slaHours :
                      i \in { j \in OfRma(r) : items[j].slaStartedAt } }
  IN  IF dueTimes = {} THEN None ELSE Min(dueTimes)

nextDueAt(r) ==
  LET dueTimes == { startedAt[i] + items[i].slaHours : i \in { j \in OfRma(r) :
                      items[j].slaStartedAt /\ items[j].stage \notin SLA_FINISHED_STAGES } }
  IN  IF dueTimes = {} THEN None ELSE Min(dueTimes)

\* A comparison with null is not true.
attentionFilter(r) ==
  /\ Exists(r)
  /\ ~rmas[r].closedAt
  /\ \/ rmas[r].assignee = None
     \/ nextDueAt(r) # None /\ nextDueAt(r) <= now + SLA_DUE_SOON_HOURS

(* The answers of the API.                                                 *)

toItemView(i) ==
  [ stage |-> items[i].stage, receivedAt |-> items[i].receivedAt, sla |-> itemSla(i),
    validationVideo |-> items[i].video ]

shipmentsOf(r) == { i \in OfRma(r) : items[i].shipments > 0 }
receiptsOf(r)  == { i \in OfRma(r) : items[i].receipts > 0 }

\* The parts both views start from.
loadDetailParts(r) ==
  [ items |-> [i \in OfRma(r) |-> toItemView(i)],
    shipments |-> shipmentsOf(r), receipts |-> receiptsOf(r) ]

\* What the team reads of an RMA, in the queue and on its page.
detail(r) ==
  LET parts == loadDetailParts(r)
  IN  [ closedAt |-> rmas[r].closedAt, cancellation |-> rmas[r].cancelledAt,
        assignee |-> rmas[r].assignee, priority |-> rmas[r].priority,
        updatedAt |-> updatedAt[r], notes |-> notes[r], sla |-> rmaSla(r),
        items |-> parts.items, shipments |-> parts.shipments, receipts |-> parts.receipts ]

\* The status of a deadline apart, which time changes by itself.
toPortalItem(item) ==
  [ stage |-> item.stage, receivedAt |-> item.receivedAt, dueAt |-> item.sla.dueAt,
    validationVideo |-> item.validationVideo ]

\* What the customer reads: neither the notes nor the priority nor the date the
\* RMA was closed.
portalDetail(r) ==
  LET parts == loadDetailParts(r)
  IN  [ cancellation |-> rmas[r].cancelledAt, assignee |-> rmas[r].assignee,
        items |-> [i \in OfRma(r) |-> toPortalItem(parts.items[i])],
        shipments |-> parts.shipments, receipts |-> parts.receipts ]

-----------------------------------------------------------------------------
(* Who may do what: the permissions about RMAs of each role.               *)

AGENT == { "rma.read", "rma.write", "rma.receive", "rma.dispatch" }

ROLE_PERMISSIONS ==
  [ cliente         |-> { "rma.own.read", "rma.own.create", "rma.own.ship", "rma.own.message" },
    agente_consulta |-> { "rma.read" },
    agente          |-> AGENT,
    administrador   |-> AGENT ]

hasPermission(role, permission) == permission \in ROLE_PERMISSIONS[role]

stageChangePermission(to) ==
  IF to \in SLA_FINISHED_STAGES THEN "rma.dispatch"
  ELSE IF to = "recebido" THEN "rma.receive" ELSE "rma.write"

teamNextStages ==
  [ from \in RMA_ITEM_STAGES |->
      { to \in RMA_ITEM_STAGES :
          <<from, to>> \in NEXT_STAGES /\ (to = "recebido" \/ canChangeStage(from, to)) } ]

(* What the pages offer, from an answer `rma` of the API.                  *)

canOperate(rma, role) == ~rma.closedAt /\ hasPermission(role, "rma.write")

\* Why the panel says an RMA of the queue is there.
attentionReason(rma) ==
  IF rma.sla # None /\ rma.sla.status \in {"atrasado", "vence_em_breve"}
    THEN rma.sla.status ELSE "sem_responsavel"

\* Mutant: the return is offered before the video is there.
nextStagesOf_NoVideo(item, role) ==
  { to \in teamNextStages[item.stage] : hasPermission(role, stageChangePermission(to)) }

nextStagesOf(item, role) ==
  { to \in teamNextStages[item.stage] :
      /\ hasPermission(role, stageChangePermission(to))
      /\ requiresValidationVideo(to) => item.validationVideo }

\* The stages that serve every selected item.
commonStages(rma, sel, role) ==
  { to \in nextStagesOf(rma.items[CHOOSE i \in sel : TRUE], role) :
      \A i \in sel : to \in nextStagesOf(rma.items[i], role) }

\* ItemsSelectionDialog: what can be confirmed, some of the items it lists.
SelectionsOf(available) == (SUBSET available) \ {{}}

\* "Avançar etapa": the stages it lets one save for a selection.
ChangeStageAction(rma, role, sel) ==
  IF canOperate(rma, role) THEN commonStages(rma, sel, role) ELSE {}

\* "Registrar recebimento", for items of the list it shows.
ReceiveItemsAction(rma, role, sel) ==
  /\ ~rma.closedAt
  /\ hasPermission(role, "rma.receive")
  /\ \A i \in sel : ~rma.items[i].receivedAt /\ rma.items[i].stage \in RECEIVABLE_STAGES

\* "Informar envio", on the customer's page.
ConfirmShipmentAction(rma, role, sel) ==
  /\ ~rma.cancellation
  /\ hasPermission(role, "rma.own.ship")
  /\ \A i \in sel : rma.items[i].stage \in SHIPPABLE_STAGES

\* "Anexar vídeo", item by item.
recordable(rma, role, i) ==
  canOperate(rma, role) /\ rma.items[i].stage \in VALIDATION_VIDEO_STAGES

\* "Cancelar chamado".
CancelRmaAction(rma, role) ==
  canOperate(rma, role) /\ isCancellable({ rma.items[i].stage : i \in DOMAIN rma.items })

\* "Assumir" and "Deixar o chamado", for the account `me`, and the list of people:
\* what can be chosen, always sent with the assignee the page shows.
AssumeRmaButton(rma, role, me) ==
  IF hasPermission(role, "rma.write") /\ rma.assignee # me THEN {me} ELSE {}

AssignmentNotice(rma, role, me) ==
  IF rma.closedAt \/ rma.cancellation THEN {}
  ELSE AssumeRmaButton(rma, role, me)
         \union (IF rma.assignee = me /\ hasPermission(role, "rma.write") THEN {None} ELSE {})

AssigneeSelect(rma, role) ==
  IF canOperate(rma, role) THEN Staff \union {None} ELSE {}

(* What the API accepts: the permissions of the routes and of the services, *)
(* and the conditions of the operations of RmaLifecycle.                    *)

acceptsChange(r, role, sel, to) ==
  /\ hasPermission(role, "rma.write")
  /\ hasPermission(role, stageChangePermission(to))
  /\ lockOpenRma(r)
  /\ ensureValidationVideos(sel, to)
  /\ sel \subseteq ChangeableItems(r, to)

acceptsReceipt(r, role, sel) ==
  /\ hasPermission(role, "rma.receive")
  /\ lockOpenRma(r)
  /\ sel \subseteq ReceivableItems(r)

acceptsShipment(r, role, sel) ==
  /\ hasPermission(role, "rma.own.ship")
  /\ lockOpenRma(r)
  /\ sel \subseteq ShippableItems(r)

acceptsVideo(r, role, i) ==
  /\ hasPermission(role, "rma.write")
  /\ lockOpenRma(r)
  /\ items[i].stage \in VALIDATION_VIDEO_STAGES

acceptsCancellation(r, role) ==
  /\ hasPermission(role, "rma.write")
  /\ lockOpenRma(r)
  /\ isCancellable({ items[i].stage : i \in OfRma(r) })

acceptsAssignee(r, role, assignee) ==
  /\ hasPermission(role, "rma.write")
  /\ lockOpenRma(r)
  /\ assignee \in Staff \union {None}

-----------------------------------------------------------------------------
(* Properties.                                                             *)

\* "Requer atenção" and the RMAs themselves tell the same story: the database
\* selects and orders the queue by its own arithmetic, the pages read that of
\* sla.ts.  An RMA is in the queue for the reason its row shows, is there
\* whenever one of its items shows a deadline gone by, and one that is not
\* there has someone answering for it and no deadline near its end.
QueueAgrees ==
  \A r \in Rmas : Exists(r) =>
    LET rma == detail(r)
    IN  /\ attentionFilter(r) /\ attentionReason(rma) = "sem_responsavel" => rma.assignee = None
        /\ nextDueAt(r) = IF rma.sla = None THEN None ELSE rma.sla.dueAt
        /\ ~rma.closedAt =>
             /\ attentionFilter(r) \/ rma.assignee # None
             /\ \A i \in OfRma(r) :
                  rma.items[i].sla.status = "atrasado" /\ ~items[i].slaFinishedAt =>
                    attentionFilter(r) /\ attentionReason(rma) = "atrasado"
             /\ ~attentionFilter(r) /\ rma.sla # None => rma.sla.status = "no_prazo"

\* "Depois do envio, a situação fica a daquele dia": once an item is on its way
\* back, neither time nor the delivery nor a new configuration turns a
\* deadline that was met into one that was missed, or the reverse.
VerdictIsFinal ==
  [][ \A i \in Items : items[i].slaFinishedAt =>
        items'[i].slaFinishedAt /\ itemSla(i)' = itemSla(i) ]_panelAll

\* Imported closed, whatever its equipment.
closedByImport(r) == rmas[r].origin = "legado" /\ rmas[r].closedAt

\* A page showing the present state offers a role exactly the shipments, receipts,
\* stages, videos, cancellations and assignees the API would accept from it: no
\* button that can only fail, no operation without one.  Apart from the customer's
\* page of a ticket imported closed with equipment never sent, which offers a
\* shipment the API refuses (Divergences in the README).
OfferedIsAccepted ==
  \A r \in Rmas, role \in Roles : Exists(r) =>
    LET rma == detail(r)
        own == portalDetail(r)
    IN  /\ \A sel \in SelectionsOf(OfRma(r)) :
             /\ ChangeStageAction(rma, role, sel) =
                  { to \in RMA_ITEM_STAGES :
                      \/ acceptsChange(r, role, sel, to)
                      \/ to = "recebido" /\ hasPermission(role, "rma.write")
                                         /\ acceptsReceipt(r, role, sel) }
             /\ ReceiveItemsAction(rma, role, sel) <=> acceptsReceipt(r, role, sel)
             /\ acceptsShipment(r, role, sel) => ConfirmShipmentAction(own, role, sel)
             /\ ~closedByImport(r) =>
                  (ConfirmShipmentAction(own, role, sel) => acceptsShipment(r, role, sel))
        /\ \A i \in OfRma(r) : recordable(rma, role, i) <=> acceptsVideo(r, role, i)
        /\ CancelRmaAction(rma, role) <=> acceptsCancellation(r, role)
        /\ \A a \in Staff \union {None} :
             /\ a \in AssigneeSelect(rma, role) <=> acceptsAssignee(r, role, a)
             /\ \A me \in Staff :
                  a \in AssignmentNotice(rma, role, me) => acceptsAssignee(r, role, a)

\* The date of the last update the customer sees tells when what the customer
\* sees last changed; a note of the team moves nothing the customer sees, not
\* even that date.
DateTellsTheCustomer ==
  [][ \A r \in Rmas : Exists(r) =>
        /\ updatedAt'[r] = now \/ portalDetail(r)' = portalDetail(r)
        /\ notes'[r] # notes[r] /\ portalDetail(r)' = portalDetail(r) =>
             updatedAt'[r] = updatedAt[r] ]_panelAll

=============================================================================
